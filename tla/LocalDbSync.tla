----------------------------- MODULE LocalDbSync -----------------------------
(***************************************************************************)
(* The local DB's sync engine (crates/common/src/local_db/pipeline) run by *)
(* the clients that share one database: browser tabs, or processes.  A     *)
(* client takes the leadership of the network, learns once from a manifest *)
(* whether there is a dump, imports it into a database that is empty or    *)
(* too far behind, and then syncs cycle by cycle: it reads the height, the *)
(* watermark, the logs and a block hash, one await after the other, and    *)
(* writes them in one transaction.  Any of these steps may fail, and a     *)
(* client may be closed at any moment.                                     *)
(***************************************************************************)
EXTENDS LocalDbChain

CONSTANTS
    Clients,     \* tabs or processes that open the database
    Lockless,    \* the clients for which Web Locks fail or do not exist
    Browser,     \* whether dumps are imported by the browser's executor
    DumpEnds,    \* last blocks of the dumps a producer may have published
    Threshold,   \* block_number_threshold
    MaxImports,  \* MAX_DUMP_IMPORT_ATTEMPTS
    MaxFaults    \* bound on failed requests and closed clients

ASSUME SyncAssumption ==
    /\ Lockless \subseteq Clients
    /\ Browser \in BOOLEAN
    /\ DumpEnds \subseteq {n \in Nat : n >= Deployment}
    /\ Threshold \in Nat
    /\ MaxImports \in Nat
    /\ MaxFaults \in Nat

VARIABLES
    db,      \* the raindex's part of the database
    client,  \* the memory of each client
    faults   \* the number of faults so far

vars == <<chain, peak, reorgs, db, client, faults>>

\* No watermark is block 0.
EmptyDb == [block |-> 0, hash |-> <<>>, rows |-> {}, sets |-> {}]

Steps == {"idle", "latest", "inspect", "bootstrap", "clear", "import", "window",
          "fetch", "stores", "hash", "persist"}

\* The locals of one run of the engine.
NoCycle == [dump |-> FALSE, seen |-> 0, latest |-> 0, start |-> 0, target |-> 0,
            logs |-> {}, sets |-> {}, hash |-> <<>>]

NewClient == [pc |-> "idle", guard |-> "none", loaded |-> FALSE, manifest |-> 0,
              provisioned |-> FALSE, failed |-> 0, cycle |-> NoCycle]

Init ==
    /\ ChainInit
    /\ db = EmptyDb
    /\ client = [c \in Clients |-> NewClient]
    /\ faults = 0

-----------------------------------------------------------------------------
(* The client's runner                                                     *)

At(c, pc) == client[c].pc = pc

Cycle(c) == client[c].cycle

Goto(c, pc, cycle) == client' = [client EXCEPT ![c].pc = pc, ![c].cycle = cycle]

\* The Web Lock of the network is free.
LockFree == \A c \in Clients : client[c].guard # "lock"

\* Mutant: the lock is not asked for.
AcquireUnlocked(c) ==
    /\ At(c, "idle")
    /\ client[c].guard = "none"
    /\ client' = [client EXCEPT ![c].guard = "noop"]
    /\ UNCHANGED <<chain, peak, reorgs, db, faults>>

\* A client that gets no lock is not the leader; one whose locks fail goes on.
Acquire(c) ==
    /\ At(c, "idle")
    /\ client[c].guard = "none"
    /\ \/ /\ c \in Lockless
          /\ client' = [client EXCEPT ![c].guard = "noop"]
       \/ /\ c \notin Lockless
          /\ LockFree
          /\ client' = [client EXCEPT ![c].guard = "lock"]
    /\ UNCHANGED <<chain, peak, reorgs, db, faults>>

\* The manifest names the last block of the dump, or has no entry.
LoadManifest(c) ==
    /\ At(c, "idle")
    /\ client[c].guard # "none"
    /\ ~client[c].loaded
    /\ \E end \in {0} \cup {n \in DumpEnds : n <= peak - Depth} :
          client' = [client EXCEPT ![c].loaded = TRUE, ![c].manifest = end]
    /\ UNCHANGED <<chain, peak, reorgs, db, faults>>

TooFarBehind(end, mark) == end - mark > Threshold

should_download_dump(c) ==
    db.block = 0 \/ TooFarBehind(client[c].manifest, db.block)

\* Mutant: the dump is asked for in every run.
RunUnlimited(c) ==
    /\ At(c, "idle")
    /\ client[c].guard # "none"
    /\ client[c].loaded
    /\ Goto(c, "latest",
            [NoCycle EXCEPT !.dump = client[c].manifest # 0 /\ should_download_dump(c)])
    /\ UNCHANGED <<chain, peak, reorgs, db, faults>>

\* A run begins.  A dump that cannot be downloaded ends it without a change.
Run(c) ==
    /\ At(c, "idle")
    /\ client[c].guard # "none"
    /\ client[c].loaded
    /\ LET dump == /\ ~client[c].provisioned
                   /\ client[c].manifest # 0
                   /\ should_download_dump(c)
                   /\ client[c].failed < MaxImports
       IN  Goto(c, "latest", [NoCycle EXCEPT !.dump = dump])
    /\ UNCHANGED <<chain, peak, reorgs, db, faults>>

\* A run ends.  Only a failed import leaves a client without its dump unprovisioned.
Ended(c) == [client EXCEPT ![c].pc = "idle", ![c].cycle = NoCycle, ![c].provisioned = TRUE]

-----------------------------------------------------------------------------
(* SyncEngine::run: bootstrap                                              *)

LatestBlock(c) ==
    /\ At(c, "latest")
    /\ Goto(c, IF Cycle(c).dump THEN "inspect" ELSE "window",
            [Cycle(c) EXCEPT !.latest = Len(chain)])
    /\ UNCHANGED <<chain, peak, reorgs, db, faults>>

InspectState(c) ==
    /\ At(c, "inspect")
    /\ Goto(c, "bootstrap", [Cycle(c) EXCEPT !.seen = db.block])
    /\ UNCHANGED <<chain, peak, reorgs, db, faults>>

\* An empty database takes the dump; one that is too far behind is cleared first.
CheckThreshold(c) ==
    /\ At(c, "bootstrap")
    /\ LET seen == Cycle(c).seen
       IN  Goto(c, IF db.block = 0 THEN "import"
                   ELSE IF seen # 0 /\ TooFarBehind(client[c].manifest, seen) THEN "clear"
                   ELSE "window", Cycle(c))
    /\ UNCHANGED <<chain, peak, reorgs, db, faults>>

Cleared == db' = EmptyDb

ClearRaindexData(c) ==
    /\ At(c, "clear")
    /\ Cleared
    /\ Goto(c, "import", Cycle(c))
    /\ UNCHANGED <<chain, peak, reorgs, faults>>

\* The Set events from the block of the first order on.
StoreLogs(to) ==
    {Log(n) : n \in {m \in Deployment .. to :
        m \in DOMAIN chain /\ chain[m] = "set" /\ \E o \in Deployment .. m : chain[o] = "order"}}

\* What a producer has exported at that block.
DumpOf(end) ==
    [block |-> end, hash |-> Hash(end), rows |-> LogsOf("order", Deployment, end),
     sets |-> StoreLogs(end)]

\* The dump is one transaction of plain INSERTs.  The one that is downloaded may be
\* newer than the manifest, which is read once.
Imported(c) ==
    /\ db.block = 0
    /\ \E end \in {n \in DumpEnds : client[c].manifest <= n /\ n <= peak - Depth} :
          LET dump == DumpOf(end)
          IN  /\ dump.rows \cap db.rows = {}
              /\ dump.sets \cap db.sets = {}
              /\ db' = [dump EXCEPT !.rows = @ \cup db.rows, !.sets = @ \cup db.sets]

ImportDump(c) ==
    /\ At(c, "import")
    /\ Imported(c)
    /\ Goto(c, "window", Cycle(c))
    /\ UNCHANGED <<chain, peak, reorgs, faults>>

\* The browser's executor reports a failed import as such, and it is counted.
ImportFailed(c) ==
    IF Browser
    THEN [Ended(c) EXCEPT ![c].failed = @ + 1,
                          ![c].provisioned = client[c].failed + 1 >= MaxImports]
    ELSE Ended(c)

ImportFail(c) ==
    /\ At(c, "import")
    /\ client' = ImportFailed(c)
    /\ UNCHANGED <<chain, peak, reorgs, db, faults>>

-----------------------------------------------------------------------------
(* SyncEngine::run: window, fetch, apply                                   *)

ComputeWindow(c) ==
    /\ At(c, "window")
    /\ LET start  == window_start(db.block)
           target == window_target(start, Cycle(c).latest)
       IN  IF start > target THEN client' = Ended(c)
           ELSE Goto(c, "fetch", [Cycle(c) EXCEPT !.start = start, !.target = target])
    /\ UNCHANGED <<chain, peak, reorgs, db, faults>>

FetchRaindex(c) ==
    /\ At(c, "fetch")
    /\ Goto(c, "stores",
            [Cycle(c) EXCEPT !.logs = LogsOf("order", Cycle(c).start, Cycle(c).target)])
    /\ UNCHANGED <<chain, peak, reorgs, db, faults>>

\* Mutant: the stores of earlier cycles are forgotten.
KnownStoresWindow(c) == Cycle(c).logs # {}

\* The store is named by an order of this window, or by an order or a Set event of
\* the database.
KnownStores(c) == Cycle(c).logs # {} \/ db.rows # {} \/ db.sets # {}

FetchStores(c) ==
    /\ At(c, "stores")
    /\ Goto(c, "hash",
            [Cycle(c) EXCEPT !.sets = IF KnownStores(c)
                                      THEN LogsOf("set", Cycle(c).start, Cycle(c).target)
                                      ELSE {}])
    /\ UNCHANGED <<chain, peak, reorgs, db, faults>>

\* Mutant: the hash of the head is kept.
BlockHashLatest(c) ==
    /\ At(c, "hash")
    /\ Goto(c, "persist", [Cycle(c) EXCEPT !.hash = Hash(Len(chain))])
    /\ UNCHANGED <<chain, peak, reorgs, db, faults>>

\* A target that is no longer on the chain has no hash, and fails the run.
BlockHash(c) ==
    /\ At(c, "hash")
    /\ IF Cycle(c).target \in DOMAIN chain
       THEN Goto(c, "persist", [Cycle(c) EXCEPT !.hash = Hash(Cycle(c).target)])
       ELSE client' = Ended(c)
    /\ UNCHANGED <<chain, peak, reorgs, db, faults>>

\* Mutant: the watermark is written without the events.
WrittenMarkOnly(c) ==
    db' = [db EXCEPT !.block = Cycle(c).target, !.hash = Cycle(c).hash]

\* One transaction: events are plain INSERTs, Set events and the watermark upserts.
Written(c) ==
    /\ Cycle(c).logs \cap db.rows = {}
    /\ db' = [block |-> Cycle(c).target, hash |-> Cycle(c).hash,
              rows |-> db.rows \cup Cycle(c).logs, sets |-> db.sets \cup Cycle(c).sets]

Persist(c) ==
    /\ At(c, "persist")
    /\ Written(c)
    /\ client' = Ended(c)
    /\ UNCHANGED <<chain, peak, reorgs, faults>>

\* An event that is in the database already fails the transaction.
PersistConflict(c) ==
    /\ At(c, "persist")
    /\ Cycle(c).logs \cap db.rows # {}
    /\ client' = Ended(c)
    /\ UNCHANGED <<chain, peak, reorgs, db, faults>>

-----------------------------------------------------------------------------
(* Faults                                                                  *)

\* A request to a node or a statement fails, and with it the run.
EngineFail(c) ==
    /\ ~At(c, "idle")
    /\ faults < MaxFaults
    /\ faults' = faults + 1
    /\ client' = Ended(c)
    /\ UNCHANGED <<chain, peak, reorgs, db>>

\* A transaction commits, but its answer is lost: the run fails though the database
\* has changed.
CommitUnknown(c) ==
    /\ faults < MaxFaults
    /\ faults' = faults + 1
    /\ \/ At(c, "clear") /\ Cleared /\ client' = Ended(c)
       \/ At(c, "import") /\ Imported(c) /\ client' = ImportFailed(c)
       \/ At(c, "persist") /\ Written(c) /\ client' = Ended(c)
    /\ UNCHANGED <<chain, peak, reorgs>>

\* The client is closed, which releases its lock, and opened again.
Restart(c) ==
    /\ faults < MaxFaults
    /\ faults' = faults + 1
    /\ client' = [client EXCEPT ![c] = NewClient]
    /\ UNCHANGED <<chain, peak, reorgs, db>>

-----------------------------------------------------------------------------
ClientStep(c) ==
    \/ Acquire(c)
    \/ LoadManifest(c)
    \/ Run(c)
    \/ LatestBlock(c)
    \/ InspectState(c)
    \/ CheckThreshold(c)
    \/ ClearRaindexData(c)
    \/ ImportDump(c)
    \/ ImportFail(c)
    \/ ComputeWindow(c)
    \/ FetchRaindex(c)
    \/ FetchStores(c)
    \/ BlockHash(c)
    \/ Persist(c)
    \/ PersistConflict(c)

Next ==
    \/ ChainNext /\ UNCHANGED <<db, client, faults>>
    \/ \E c \in Clients : ClientStep(c)
    \/ \E c \in Clients : EngineFail(c)
    \/ \E c \in Clients : CommitUnknown(c)
    \/ \E c \in Clients : Restart(c)

\* The scheduler runs cycle after cycle, whatever the last one reported.
Fairness == \A c \in Clients : WF_vars(ClientStep(c))

Spec == Init /\ [][Next]_vars /\ Fairness

-----------------------------------------------------------------------------
(* Properties                                                              *)

TypeOK ==
    /\ chain \in Seq(Kinds)
    /\ peak \in Nat /\ reorgs \in Nat /\ faults \in 0 .. MaxFaults
    /\ db.block \in 0 .. MaxHeight
    /\ \A c \in Clients :
          /\ client[c].pc \in Steps
          /\ client[c].guard \in {"none", "lock", "noop"}
          /\ client[c].failed \in 0 .. MaxImports

\* The database holds exactly the raindex's logs of the chain up to its
\* watermark: no window, failure, restart, reorganisation of blocks that are not
\* final, dump or cleared database makes it miss a log or keep one it should not.
Faithful == db.rows = LogsOf("order", Deployment, db.block)

\* Whoever writes, a database that is filled from the chain alone holds every log
\* up to its watermark, even when a slower writer has moved that back.
NoLogMissed == LogsOf("order", Deployment, db.block) \subseteq db.rows

\* The hash kept with the watermark is that of the chain, though it is read after
\* the logs.
MarkOnChain == db.block # 0 => db.block \in DOMAIN chain /\ db.hash = Hash(db.block)

\* Every Set event after the order that named the store is kept, in whichever
\* cycle the order was read.
StoreSetsComplete == StoreLogs(db.block) \subseteq db.sets

\* "the caller will ensure single-writer semantics": a batch is written over the
\* watermark it was made for.
SingleWriter ==
    \A c \in Clients :
        client[c].pc \in {"fetch", "stores", "hash", "persist"}
            => Cycle(c).start = window_start(db.block)

\* Once the chain and the faults have come to rest, the database reaches the
\* block that it is asked to reach and stays there.
CatchesUp == <>[](db.block >= requested_end_block(Len(chain)))

\* "producer verifies parent hash continuity vs stored watermark hash": a window
\* is only added to the blocks that the database was made from.
Continuity ==
    [][db.block # 0 /\ db'.block > db.block
          => db.hash = SubSeq(db'.hash, 1, db.block)]_vars

\* What the clients do to the database is what LocalDbReplica says of it.
Replica == INSTANCE LocalDbReplica WITH mark <- db.block, rows <- db.rows

ImplementsReplica == Replica!Spec
=============================================================================
