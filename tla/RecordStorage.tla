---------------------------- MODULE RecordStorage ----------------------------
(* The Storage bounded context: the records of the other contexts, the two *)
(* backends that can own them (flat files, then SQLite), the one-time      *)
(* migration that copies the files, proves parity and switches authority,  *)
(* and the retirement of the files.  Pages and the identity service write  *)
(* records; operators run migrations and retirements; all are processes of *)
(* their own and may be stopped between any two steps.                     *)
EXTENDS StorageLease

CONSTANTS
    Records,
    Pages,       \* processes that use a record through Storage.Records
    Services,    \* processes that resolve the store first, as Identity does
    Operators,   \* processes that migrate or retire
    Managed,     \* those of them that are the command-line tasks
    RecordOf,    \* the record each page and service uses
    Removable,   \* records their clients remove, as the theme preference
    MaxWrites,   \* bound of the writes ever committed
    MaxPasses    \* bound of the migration passes ever begun

Clients == Pages \cup Services

ASSUME StorageAssumption ==
    /\ Processes = Clients \cup Operators
    /\ Pages \cap Services = {} /\ Clients \cap Operators = {}
    /\ Managed \subseteq Operators
    /\ RecordOf \in [Clients -> Records]
    /\ Removable \subseteq Records
    /\ MaxWrites \in Nat /\ MaxPasses \in Nat

VARIABLES
    phase,   \* of the storage pointer
    flat,    \* the records' files
    sqlite,  \* bnest_records
    items,   \* bnest_migration_items
    run,     \* the state in bnest_migration_runs
    jobs,    \* what each process is doing between its steps
    views,   \* the record each client last read or wrote
    truth,   \* each record as the last acknowledged operation left it
    writes, passes  \* how many there were, for MaxWrites and MaxPasses

dataVars == <<phase, flat, sqlite, items, run, jobs, views, truth, writes, passes>>
storageVars == <<leaseVars, dataVars>>

\* A record's revision, counted from one, and the write its payload is of.
Record == [rev : Nat, payload : Nat]
Absent == [rev |-> 0, payload |-> 0]
Successor(record) == [rev |-> record.rev + 1, payload |-> writes + 1]

NoItem == [outcome |-> "none", source |-> Absent]
Item(outcome, source) == [outcome |-> outcome, source |-> source]

\* What a process does next, the records it has left to do, the one it has
\* just copied or fetched, and whether an item of its pass is blocked.
Doing(pc) == [pc |-> pc, todo |-> {}, item |-> {}, held |-> Absent, blocked |-> FALSE]
NoJob == Doing("none")
Becomes(p, job) == jobs' = [jobs EXCEPT ![p] = job]

Init ==
    /\ LeaseInit
    /\ phase = "flat"
    /\ flat = [k \in Records |-> Absent]
    /\ sqlite = [k \in Records |-> Absent]
    /\ items = [k \in Records |-> NoItem]
    /\ run = "none"
    /\ jobs = [p \in Processes |-> NoJob]
    /\ views = [c \in Clients |-> Absent]
    /\ truth = [k \in Records |-> Absent]
    /\ writes = 0 /\ passes = 0

\* What Storage.Records answers with.
Authority(k) == IF phase = "sqlite" THEN sqlite[k] ELSE flat[k]

---------------------------------------------------------------------------
(* A client's operation on its record.  A client that gives up between its *)
(* steps is one that raised or timed out.                                  *)

\* Storage.Records names the backend under the lease, by the phase it reads.
Route(c) ==
    /\ at[c] = "shared" /\ jobs[c] = NoJob
    /\ Becomes(c, Doing(IF phase = "sqlite" THEN "rows" ELSE "files"))
    /\ UNCHANGED <<leaseVars, phase, flat, sqlite, items, run, views, truth, writes, passes>>

\* Storage.active_store/0 names the file store itself while files are
\* primary, and the service works on it without the lease.
Resolve(c) ==
    /\ c \in Services /\ phase = "flat"
    /\ at[c] = "out" /\ jobs[c] = NoJob
    /\ Becomes(c, Doing("files"))
    /\ UNCHANGED <<leaseVars, phase, flat, sqlite, items, run, views, truth, writes, passes>>

On(c, backend) == at[c] \in {"out", "shared"} /\ jobs[c].pc = backend
Finished(c) == Becomes(c, IF at[c] = "shared" THEN Doing("done") ELSE NoJob)

Stored(c) == (IF jobs[c].pc = "rows" THEN sqlite ELSE flat)[RecordOf[c]]

Read(c) ==
    /\ On(c, "files") \/ On(c, "rows")
    /\ views' = [views EXCEPT ![c] = Stored(c)]
    /\ Finished(c)
    /\ UNCHANGED <<leaseVars, phase, flat, sqlite, items, run, truth, writes, passes>>

\* A page's write/5 names the revision it read.  A service adds an absent
\* record (put_new) or replaces a present one, and names no revision.
Fresh(c) == c \in Services \/ Stored(c).rev = views[c].rev

\* {:error, :stale}; of a service's call :exists, :missing or :changed.
Refused(c) ==
    /\ On(c, "files") \/ On(c, "rows")
    /\ c \in Services \/ Stored(c).rev # views[c].rev
    /\ Finished(c)
    /\ UNCHANGED <<leaseVars, phase, flat, sqlite, items, run, views, truth, writes, passes>>

\* {:ok, record}: the client holds it, and it is the record from now on.
Acknowledged(c, record) ==
    /\ views' = [views EXCEPT ![c] = record]
    /\ truth' = [truth EXCEPT ![RecordOf[c]] = record]
    /\ Finished(c)

\* The file backend compares, replaces and reads back under one lock.
WriteFile(c) ==
    /\ On(c, "files") /\ Fresh(c) /\ writes < MaxWrites
    /\ flat' = [flat EXCEPT ![RecordOf[c]] = Successor(@)]
    /\ Acknowledged(c, Successor(Stored(c)))
    /\ writes' = writes + 1
    /\ UNCHANGED <<leaseVars, phase, sqlite, items, run, passes>>

\* remove_exact/3 of a record that still is the one the client read.
RemoveFile(c) ==
    /\ On(c, "files") /\ RecordOf[c] \in Removable
    /\ Stored(c) = views[c] /\ Stored(c) # Absent
    /\ flat' = [flat EXCEPT ![RecordOf[c]] = Absent]
    /\ Acknowledged(c, Absent)
    /\ UNCHANGED <<leaseVars, phase, sqlite, items, run, writes, passes>>

\* The SQLite backend fetches the row, then changes it in a statement of
\* its own: what was fetched decides.
Fetch(c) ==
    /\ On(c, "rows") /\ Fresh(c)
    /\ Becomes(c, [Doing("fetched") EXCEPT !.held = Stored(c)])
    /\ UNCHANGED <<leaseVars, phase, flat, sqlite, items, run, views, truth, writes, passes>>

WriteRow(c) ==
    /\ On(c, "fetched") /\ writes < MaxWrites
    /\ sqlite' = [sqlite EXCEPT ![RecordOf[c]] = Successor(jobs[c].held)]
    /\ Acknowledged(c, Successor(jobs[c].held))
    /\ writes' = writes + 1
    /\ UNCHANGED <<leaseVars, phase, flat, items, run, passes>>

RemoveRow(c) ==
    /\ On(c, "fetched") /\ RecordOf[c] \in Removable
    /\ jobs[c].held = views[c] /\ jobs[c].held # Absent
    /\ sqlite' = [sqlite EXCEPT ![RecordOf[c]] = Absent]
    /\ Acknowledged(c, Absent)
    /\ UNCHANGED <<leaseVars, phase, flat, items, run, writes, passes>>

\* Pages always work under the lease, services once SQLite is primary.
ClientLease(c) ==
    /\ \/ CheckShared(c) /\ jobs[c] = NoJob /\ (c \in Pages \/ phase = "sqlite")
          /\ UNCHANGED dataVars
       \/ (MakeShared(c) \/ EnterShared(c) \/ YieldShared(c)) /\ UNCHANGED dataVars
       \/ LeaveShared(c) /\ Becomes(c, NoJob)
          /\ UNCHANGED <<phase, flat, sqlite, items, run, views, truth, writes, passes>>

Client(c) ==
    \/ ClientLease(c) \/ Route(c) \/ Resolve(c)
    \/ Read(c) \/ Refused(c)
    \/ WriteFile(c) \/ RemoveFile(c)
    \/ Fetch(c) \/ WriteRow(c) \/ RemoveRow(c)

---------------------------------------------------------------------------
(* Migration: Storage.migrate/2, the task under the exclusive lease, and   *)
(* Storage.move_data/1, the storage page, under none.                      *)

Present == {k \in Records : flat[k] # Absent}

\* Fault: the task starts before the shared holders have left.
EntitledDraining(m) ==
    IF m \in Managed THEN at[m] \in {"draining", "exclusive"} ELSE at[m] = "out"

Entitled(m) == at[m] = (IF m \in Managed THEN "exclusive" ELSE "out")
Works(m, pc) == Entitled(m) /\ jobs[m].pc = pc
Ends(m) == Becomes(m, IF m \in Managed THEN Doing("done") ELSE NoJob)

Inventory(m) ==
    /\ Works(m, "none") /\ passes < MaxPasses
    /\ passes' = passes + 1
    /\ Becomes(m, [Doing("copying") EXCEPT !.todo = Present])
    /\ UNCHANGED <<leaseVars, phase, flat, sqlite, items, run, views, truth, writes>>

Treated(m, k, blocks) ==
    [jobs[m] EXCEPT !.pc = "copying", !.todo = @ \ {k}, !.blocked = @ \/ blocks,
                    !.item = {}, !.held = Absent]

\* An accepted item with the bytes it was accepted with.
Reuse(m, k) ==
    /\ Works(m, "copying") /\ k \in jobs[m].todo
    /\ items[k] = Item("accepted", flat[k])
    /\ Becomes(m, Treated(m, k, FALSE))
    /\ UNCHANGED <<leaseVars, phase, flat, sqlite, items, run, views, truth, writes, passes>>

\* An accepted item whose source changed afterwards blocks the switch.
Changed(m, k) ==
    /\ Works(m, "copying") /\ k \in jobs[m].todo /\ k \in Present
    /\ items[k].outcome = "accepted" /\ items[k].source # flat[k]
    /\ items' = [items EXCEPT ![k] = Item("changed", flat[k])]
    /\ Becomes(m, Treated(m, k, TRUE))
    /\ UNCHANGED <<leaseVars, phase, flat, sqlite, run, views, truth, writes, passes>>

\* Any other: the record is copied, then its item is recorded.
Copy(m, k) ==
    /\ Works(m, "copying") /\ k \in jobs[m].todo /\ k \in Present
    /\ items[k].outcome # "accepted"
    /\ sqlite' = [sqlite EXCEPT ![k] = flat[k]]
    /\ Becomes(m, [jobs[m] EXCEPT !.pc = "copied", !.item = {k}, !.held = flat[k]])
    /\ UNCHANGED <<leaseVars, phase, flat, items, run, views, truth, writes, passes>>

Accept(m) ==
    /\ Works(m, "copied")
    /\ \E k \in jobs[m].item :
           /\ items' = [items EXCEPT ![k] = Item("accepted", jobs[m].held)]
           /\ Becomes(m, Treated(m, k, FALSE))
    /\ UNCHANGED <<leaseVars, phase, flat, sqlite, run, views, truth, writes, passes>>

RunState(blocked) ==
    IF blocked THEN "failed" ELSE IF phase = "sqlite" THEN "verified" ELSE "copying"

Blocked(m) ==
    \/ jobs[m].blocked
    \/ m \in Managed /\ \E k \in Records : items[k].outcome = "changed"

\* The pass ends: blocked, a dry run, or on to the checks.
EndPass(m) ==
    /\ Works(m, "copying") /\ jobs[m].todo = {}
    /\ run' = RunState(jobs[m].blocked)
    /\ \/ Ends(m)
       \/ ~Blocked(m) /\ Becomes(m, Doing("checking"))
    /\ UNCHANGED <<leaseVars, phase, flat, sqlite, items, views, truth, writes, passes>>

Parity == \A k \in Present : sqlite[k] # Absent /\ (sqlite[k] = flat[k] \/ phase = "sqlite")

Check(m) ==
    /\ Works(m, "checking")
    /\ IF Parity THEN Becomes(m, Doing("switching")) ELSE Ends(m)
    /\ UNCHANGED <<leaseVars, phase, flat, sqlite, items, run, views, truth, writes, passes>>

\* activate!/0: the pointer, then the run.
Switch(m) ==
    /\ Works(m, "switching")
    /\ phase' = "sqlite"
    /\ Becomes(m, Doing("switched"))
    /\ UNCHANGED <<leaseVars, flat, sqlite, items, run, views, truth, writes, passes>>

MarkVerified(m) ==
    /\ Works(m, "switched")
    /\ run' = "verified"
    /\ Ends(m)
    /\ UNCHANGED <<leaseVars, phase, flat, sqlite, items, views, truth, writes, passes>>

---------------------------------------------------------------------------
(* Retirement of the files, an operator's task under the exclusive lease.  *)

Verified(k) == items[k] = Item("accepted", flat[k])

BeginRetire(m) ==
    /\ m \in Managed /\ Works(m, "none")
    /\ phase = "sqlite" /\ run = "verified"
    /\ \A k \in Present : Verified(k)
    /\ Becomes(m, [Doing("retiring") EXCEPT !.todo = Present])
    /\ UNCHANGED <<leaseVars, phase, flat, sqlite, items, run, views, truth, writes, passes>>

RetireFile(m, k) ==
    /\ Works(m, "retiring") /\ k \in jobs[m].todo
    /\ flat' = [flat EXCEPT ![k] = Absent]
    /\ Becomes(m, [jobs[m] EXCEPT !.todo = @ \ {k}])
    /\ UNCHANGED <<leaseVars, phase, sqlite, items, run, views, truth, writes, passes>>

OperatorLease(m) == m \in Managed /\ (MakeExclusive(m) \/ Drained(m)) /\ UNCHANGED dataVars

\* The task or the page is done, fails (a file that went away, a statement
\* the database refused) or timed out draining; a task gives the lease back.
Leave(m) ==
    /\ IF m \in Managed THEN LeaveExclusive(m) ELSE Entitled(m) /\ UNCHANGED leaseVars
    /\ Becomes(m, NoJob)
    /\ UNCHANGED <<phase, flat, sqlite, items, run, views, truth, writes, passes>>

Operator(m) ==
    \/ OperatorLease(m) \/ Leave(m)
    \/ Inventory(m)
    \/ \E k \in Records : Reuse(m, k) \/ Changed(m, k) \/ Copy(m, k) \/ RetireFile(m, k)
    \/ Accept(m) \/ EndPass(m) \/ Check(m) \/ Switch(m) \/ MarkVerified(m)
    \/ BeginRetire(m)

Dies(p) == Crash(p) /\ UNCHANGED dataVars

Next ==
    \/ \E c \in Clients : Client(c)
    \/ \E m \in Operators : Operator(m)
    \/ \E p \in Processes : Dies(p)

Spec == Init /\ [][Next]_storageVars

---------------------------------------------------------------------------
(* Properties.                                                             *)

\* Every table, file, job and page keeps its type.
StorageTypeOK ==
    /\ LeaseTypeOK
    /\ phase \in {"flat", "sqlite"}
    /\ flat \in [Records -> Record] /\ sqlite \in [Records -> Record]
    /\ items \in [Records -> [outcome : {"none", "accepted", "changed"}, source : Record]]
    /\ run \in {"none", "failed", "copying", "verified"}
    /\ jobs \in [Processes ->
           [pc : {"none", "files", "rows", "fetched", "done", "copying", "copied",
                  "checking", "switching", "switched", "retiring"},
            todo : SUBSET Records, item : SUBSET Records,
            held : Record, blocked : BOOLEAN]]
    /\ views \in [Clients -> Record] /\ truth \in [Records -> Record]
    /\ writes \in 0 .. MaxWrites /\ passes \in 0 .. MaxPasses

\* A record that a page keeps through the leased repository, and does not
\* remove, is always the one its last acknowledged write left: through dry
\* runs, interrupted and repeated passes, the switch, and retirement.
RoutedKept ==
    \A k \in Records \ (Removable \cup {RecordOf[c] : c \in Services}) :
        Authority(k) = truth[k]

\* The same of every record: what a mirror that is verified before it
\* becomes the authority should answer.
AnswersLastWrite == \A k \in Records : Authority(k) = truth[k]

\* A write succeeds only on the revision it names, so the row that is
\* replaced is the one before the row that replaces it.
RevisionsAdvance ==
    [][\A k \in Records :
           phase = "sqlite" /\ sqlite'[k] # sqlite[k] /\ sqlite'[k] # Absent
               => sqlite'[k].rev = sqlite[k].rev + 1]_storageVars
==============================================================================
