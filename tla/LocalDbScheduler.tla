--------------------------- MODULE LocalDbScheduler --------------------------
(***************************************************************************)
(* The browser's sync scheduler: every tab provisions an empty database    *)
(* once for all networks (scheduler/wasm.rs start, runner/bootstrap.rs)    *)
(* and then runs one loop per network (run_network_loop).  The tabs share  *)
(* the database, the Web Locks and the database worker, which answers      *)
(* nobody else while a dump is being imported.  What a cycle of the engine *)
(* writes is LocalDbSync's; here a cycle moves the watermarks of the       *)
(* network's targets.                                                      *)
(***************************************************************************)
EXTENDS Naturals, FiniteSets

CONSTANTS
    Tabs,         \* schedulers that were started: tabs, or clients of one tab
    Networks,     \* networks with local-db-sync settings
    Targets,      \* raindexes
    NetworkOf,    \* the network of each target
    None,         \* no tab
    Warm,         \* the sets of targets that an earlier visit may have left in the database
    Head,         \* the block every target is asked to reach
    Interval,     \* sync_interval_ms
    MaxBackoff,   \* MAX_FAILURE_BACKOFF_MS
    MaxShift,     \* the largest exponent of the backoff, 32
    MaxFaults,    \* bound on failed requests, statements and locks
    MaxStops      \* bound on tabs that are stopped or killed

ASSUME SchedulerAssumption ==
    /\ NetworkOf \in [Targets -> Networks]
    /\ None \notin Tabs
    /\ Warm \subseteq SUBSET Targets
    /\ Head \in Nat \ {0} /\ Interval \in Nat \ {0} /\ MaxBackoff \in Nat
    /\ MaxShift \in Nat \ {0} /\ MaxFaults \in Nat /\ MaxStops \in Nat

VARIABLES
    mark,     \* the watermark of each target, 0 for none
    holder,   \* the tab that holds each Web Lock
    session,  \* the tab whose import the database worker is running
    tab,      \* the memory of each tab: its scheduler's start
    runner,   \* the memory of each tab's network loops
    ready,    \* SyncReadiness of each tab: the chains it reads from the local DB
    faults, stops

vars == <<mark, holder, session, tab, runner, ready, faults, stops>>

Locks == Networks \cup {"boot"}

NewTab == [pc |-> "start", stop |-> FALSE, todo |-> {}, missing |-> {}, dumps |-> {}]

NewRunner == [pc |-> "off", status |-> "syncing", failures |-> 0, delay |-> 0]

Init ==
    /\ \E warm \in Warm : mark = [x \in Targets |-> IF x \in warm THEN Head ELSE 0]
    /\ holder = [l \in Locks |-> None]
    /\ session = None
    /\ tab = [t \in Tabs |-> NewTab]
    /\ runner = [t \in Tabs |-> [n \in Networks |-> NewRunner]]
    /\ ready = [t \in Tabs |-> {}]
    /\ faults = 0 /\ stops = 0

-----------------------------------------------------------------------------
(* Provisioning                                                            *)

At(t, pc) == tab[t].pc = pc

\* The worker answers: statements wait for as long as an import is in progress.
Answers(t) == session \in {None, t}

Populated == \E x \in Targets : mark[x] # 0

Held(t) == {n \in Networks : holder[n] = t}

Released(t, ls) == [l \in Locks |-> IF l \in ls /\ holder[l] = t THEN None ELSE holder[l]]

\* Mutant: the lock of the bootstrap is kept for the life of the loops.
SpawnedKeeping(t) ==
    /\ tab' = [tab EXCEPT ![t].pc = IF tab[t].stop THEN "stopped" ELSE "running"]
    /\ runner' = [runner EXCEPT ![t] = [n \in Networks |-> [NewRunner EXCEPT !.pc = "pause"]]]
    /\ holder' = holder

\* The loops are spawned with the network locks that provisioning has taken,
\* unless the scheduler was stopped meanwhile.
Spawned(t) ==
    /\ tab' = [tab EXCEPT ![t] = [NewTab EXCEPT !.pc = IF tab[t].stop THEN "stopped" ELSE "running",
                                                !.stop = tab[t].stop]]
    /\ runner' = [runner EXCEPT ![t] = [n \in Networks |->
                     [NewRunner EXCEPT !.pc = IF tab[t].stop THEN "off" ELSE "pause"]]]
    /\ holder' = Released(t, IF tab[t].stop THEN Locks ELSE {"boot"})

\* Without its tables a tab starts no loop at all, and does not try again.
SchemaFails(t) ==
    /\ At(t, "start")
    /\ faults < MaxFaults
    /\ faults' = faults + 1
    /\ tab' = [tab EXCEPT ![t].pc = "stopped"]
    /\ UNCHANGED <<mark, holder, session, runner, ready, stops>>

\* has_persisted_targets: a populated database is left to the network loops.
Preflight(t) ==
    /\ At(t, "start") /\ Answers(t)
    /\ IF Populated THEN Spawned(t)
       ELSE tab' = [tab EXCEPT ![t].pc = "boot"] /\ UNCHANGED <<holder, runner>>
    /\ UNCHANGED <<mark, session, ready, faults, stops>>

\* Polled every 250 ms until the lock is free.
AcquireBootstrap(t) ==
    /\ At(t, "boot")
    /\ holder["boot"] = None
    /\ holder' = [holder EXCEPT !["boot"] = t]
    /\ tab' = [tab EXCEPT ![t].pc = "recheck"]
    /\ UNCHANGED <<mark, session, runner, ready, faults, stops>>

\* Another tab may have populated the database while this one waited.
RecheckPopulated(t) ==
    /\ At(t, "recheck") /\ Answers(t)
    /\ IF Populated THEN Spawned(t)
       ELSE tab' = [tab EXCEPT ![t].pc = "nets", ![t].todo = Networks] /\ UNCHANGED <<holder, runner>>
    /\ UNCHANGED <<mark, session, ready, faults, stops>>

\* Mutant: a network whose lock another tab holds stays in the cohort.
CohortAll(t) == Networks

\* The networks whose lock this tab has got; the others are left to their leaders.
Cohort(t) == Held(t)

AcquireNetworkBootstrap(t) ==
    /\ At(t, "nets")
    /\ \E n \in tab[t].todo :
          /\ holder' = IF holder[n] = None THEN [holder EXCEPT ![n] = t] ELSE holder
          /\ tab' = [tab EXCEPT ![t].todo = @ \ {n}]
    /\ UNCHANGED <<mark, session, runner, ready, faults, stops>>

\* A cohort of one network gains nothing; the targets without a watermark are missing.
FindMissing(t) ==
    /\ At(t, "nets") /\ tab[t].todo = {} /\ Answers(t)
    /\ LET missing == {x \in Targets : NetworkOf[x] \in Cohort(t) /\ mark[x] = 0}
       IN  IF Cardinality(Cohort(t)) < 2 \/ missing = {} THEN Spawned(t)
           ELSE /\ tab' = [tab EXCEPT ![t].pc = "download", ![t].missing = missing]
                /\ UNCHANGED <<holder, runner>>
    /\ UNCHANGED <<mark, session, ready, faults, stops>>

\* Every missing target that has a manifest entry is downloaded on its own, and one
\* that fails is skipped; the watermarks are then read again.
DownloadSeeds(t) ==
    /\ At(t, "download") /\ Answers(t)
    /\ \E got \in SUBSET tab[t].missing :
          LET dumps == {x \in got : mark[x] = 0}
          IN  IF dumps = {} THEN Spawned(t)
              ELSE /\ tab' = [tab EXCEPT ![t].pc = "import", ![t].dumps = dumps]
                   /\ UNCHANGED <<holder, runner>>
    /\ UNCHANGED <<mark, session, ready, faults, stops>>

\* The worker runs one import at a time.
BeginImport(t) ==
    /\ At(t, "import")
    /\ session = None
    /\ session' = t
    /\ tab' = [tab EXCEPT ![t].pc = "importing"]
    /\ UNCHANGED <<mark, holder, runner, ready, faults, stops>>

\* All dumps are one transaction of plain INSERTs: a row that is there already
\* takes every seed of the cohort back.
Committed(t) ==
    mark' = IF \E x \in tab[t].dumps : mark[x] # 0 THEN mark
            ELSE [x \in Targets |-> IF x \in tab[t].dumps THEN 1 ELSE mark[x]]

FinishImport(t) ==
    /\ At(t, "importing")
    /\ Committed(t)
    /\ session' = None
    /\ Spawned(t)
    /\ UNCHANGED <<ready, faults, stops>>

\* A lock, the manifest, a read or the import fails: each network provisions itself.
ProvisioningFails(t) ==
    /\ tab[t].pc \in {"start", "boot", "recheck", "nets", "download", "import", "importing"}
    /\ faults < MaxFaults
    /\ faults' = faults + 1
    /\ session' = IF session = t THEN None ELSE session
    /\ Spawned(t)
    /\ UNCHANGED <<mark, ready, stops>>

\* Mutant: the network locks are not given back.
CancelHolding(t) ==
    /\ tab[t].stop
    /\ tab[t].pc \in {"start", "boot", "recheck", "nets", "download", "import"}
    /\ tab' = [tab EXCEPT ![t].pc = "stopped"]
    /\ holder' = Released(t, {"boot"})
    /\ UNCHANGED <<mark, session, runner, ready, faults, stops>>

\* provision_until_stopped drops what is under way.  An import that has begun is left
\* to its guard, which waits for the request in flight and cancels the session.
Cancel(t) ==
    /\ tab[t].stop
    /\ tab[t].pc \in {"start", "boot", "recheck", "nets", "download", "import", "importing"}
    /\ tab' = [tab EXCEPT ![t].pc = IF session = t THEN "cancelling" ELSE "stopped"]
    /\ holder' = Released(t, Locks)
    /\ UNCHANGED <<mark, session, runner, ready, faults, stops>>

\* The request in flight may have been the last one: then the import is committed.
\* The worker expires the import of a tab that was killed.
EndOrphan(t) ==
    /\ At(t, "cancelling")
    /\ Committed(t) \/ UNCHANGED mark
    /\ session' = None
    /\ tab' = [tab EXCEPT ![t].pc = "stopped"]
    /\ UNCHANGED <<holder, runner, ready, faults, stops>>

-----------------------------------------------------------------------------
(* run_network_loop                                                        *)

TargetsOf(n) == {x \in Targets : NetworkOf[x] = n}

AtLoop(t, n, pc) == runner[t][n].pc = pc

\* Mutant: the exponent wraps at the width of the shift.
next_cycle_delay_wraps(failures) ==
    LET delay == Interval * 2 ^ (failures % (MaxShift + 1))
    IN  IF failures = 0 THEN Interval ELSE IF delay < MaxBackoff THEN delay ELSE MaxBackoff

next_cycle_delay_ms(failures) ==
    LET larger(a, b)  == IF a > b THEN a ELSE b
        smaller(a, b) == IF a < b THEN a ELSE b
    IN  IF failures = 0 THEN Interval
        ELSE smaller(Interval * 2 ^ smaller(failures, MaxShift), larger(MaxBackoff, Interval))

\* CycleBackoff::next_delay_ms, and the status the cycle leaves.
Paused(t, n, result, status) ==
    LET failures == IF result = "failed" THEN runner[t][n].failures + 1 ELSE 0
    IN  runner' = [runner EXCEPT ![t][n] =
            [pc |-> "pause", status |-> status, failures |-> failures,
             delay |-> IF result = "behind" THEN 0 ELSE next_cycle_delay_ms(failures)]]

\* The delay is over.  A tab without the lock is no leader, and reads what the leader writes.
RunNotLeader(t, n) ==
    /\ AtLoop(t, n, "pause") /\ ~tab[t].stop
    /\ holder[n] \notin {None, t}
    /\ ready' = [ready EXCEPT ![t] = @ \cup {n}]
    /\ Paused(t, n, "caught_up", "follower")
    /\ UNCHANGED <<mark, holder, session, tab, faults, stops>>

\* The lock is kept from cycle to cycle.  A leader reports that it is syncing again.
\* Network locks are taken to work: where a request for one fails the code leads with a
\* guard that locks nothing (leadership.rs:97), which LocalDbSync models.
RunLeader(t, n) ==
    /\ AtLoop(t, n, "pause") /\ ~tab[t].stop
    /\ holder[n] \in {None, t}
    /\ holder' = [holder EXCEPT ![n] = t]
    /\ runner' = [runner EXCEPT ![t][n].pc = "cycle",
                                ![t][n].status = IF @ = "follower" THEN @ ELSE "syncing"]
    /\ UNCHANGED <<mark, session, tab, ready, faults, stops>>

\* Mutant: one target that has caught up is enough.
CycleResultAny(blocks) ==
    IF \E x \in DOMAIN blocks : blocks[x] = Head THEN "caught_up" ELSE "behind"

\* CycleResult::of a report without failures.
CycleResult(blocks) ==
    IF \A x \in DOMAIN blocks : blocks[x] = Head THEN "caught_up" ELSE "behind"

\* A target moves on, to the head or as far as the cap on a cycle lets it.
Advances(blocks) == \A x \in DOMAIN blocks : blocks[x] = Head \/ blocks[x] > mark[x]

\* The watermarks once the targets of a cycle have reached their blocks.
Reached(blocks) == [x \in Targets |-> IF x \in DOMAIN blocks THEN blocks[x] ELSE mark[x]]

\* Every target moves on.
CycleEnds(t, n) ==
    /\ AtLoop(t, n, "cycle") /\ Answers(t)
    /\ \E blocks \in [TargetsOf(n) -> 1 .. Head] :
          LET result == CycleResult(blocks)
          IN  /\ Advances(blocks)
              /\ mark' = Reached(blocks)
              /\ ready' = IF result = "caught_up" THEN [ready EXCEPT ![t] = @ \cup {n}] ELSE ready
              /\ Paused(t, n, result, IF result = "caught_up" THEN "leader" ELSE "syncing")
    /\ UNCHANGED <<holder, session, tab, faults, stops>>

\* Some targets fail and keep their watermark while others move on, or the run as a
\* whole returns an error.
CycleFails(t, n) ==
    /\ AtLoop(t, n, "cycle")
    /\ faults < MaxFaults
    /\ faults' = faults + 1
    /\ \E failed \in SUBSET TargetsOf(n) \ {{}} :
          /\ failed # TargetsOf(n) => Answers(t)
          /\ \E blocks \in [TargetsOf(n) \ failed -> 1 .. Head] :
                /\ Advances(blocks)
                /\ mark' = Reached(blocks)
    /\ Paused(t, n, "failed", "failure")
    /\ UNCHANGED <<holder, session, tab, ready, stops>>

\* A stop is noticed between cycles and in every step of the sleep; the runner is
\* dropped with its lock.
LoopStops(t, n) ==
    /\ tab[t].stop
    /\ AtLoop(t, n, "pause")
    /\ runner' = [runner EXCEPT ![t][n] = NewRunner]
    /\ holder' = Released(t, {n})
    /\ UNCHANGED <<mark, session, tab, ready, faults, stops>>

-----------------------------------------------------------------------------
(* Stopping                                                                *)

\* SchedulerHandle::stop, when the last handle of the client is dropped.
Stop(t) ==
    /\ ~tab[t].stop
    /\ stops < MaxStops
    /\ stops' = stops + 1
    /\ tab' = [tab EXCEPT ![t].stop = TRUE]
    /\ UNCHANGED <<mark, holder, session, runner, ready, faults>>

\* The tab is closed: the browser releases its locks.
Kill(t) ==
    /\ ~At(t, "cancelling") /\ ~At(t, "stopped")
    /\ stops < MaxStops
    /\ stops' = stops + 1
    /\ tab' = [tab EXCEPT ![t].stop = TRUE,
                          ![t].pc = IF session = t THEN "cancelling" ELSE "stopped"]
    /\ runner' = [runner EXCEPT ![t] = [n \in Networks |-> NewRunner]]
    /\ ready' = [ready EXCEPT ![t] = {}]
    /\ holder' = Released(t, Locks)
    /\ UNCHANGED <<mark, session, faults>>

-----------------------------------------------------------------------------
Provision(t) ==
    \/ Preflight(t)
    \/ AcquireBootstrap(t)
    \/ RecheckPopulated(t)
    \/ AcquireNetworkBootstrap(t)
    \/ FindMissing(t)
    \/ DownloadSeeds(t)
    \/ BeginImport(t)
    \/ FinishImport(t)
    \/ Cancel(t)
    \/ EndOrphan(t)

Loop(t, n) ==
    \/ RunNotLeader(t, n)
    \/ RunLeader(t, n)
    \/ CycleEnds(t, n)
    \/ LoopStops(t, n)

Next ==
    \E t \in Tabs :
        \/ Provision(t)
        \/ ProvisioningFails(t)
        \/ SchemaFails(t)
        \/ \E n \in Networks : Loop(t, n) \/ CycleFails(t, n)
        \/ Stop(t)
        \/ Kill(t)

\* A tab's tasks keep being scheduled, and every await ends: downloads time out, and
\* the worker expires an import that is abandoned.  Nobody has to stop a tab.
Fairness ==
    \A t \in Tabs : WF_vars(Provision(t)) /\ \A n \in Networks : WF_vars(Loop(t, n))

Spec == Init /\ [][Next]_vars /\ Fairness

-----------------------------------------------------------------------------
(* Properties                                                              *)

\* The cohort's transaction never meets a row that is there already, whatever the
\* other tabs' bootstraps, loops, stops and abandoned imports have done since the
\* watermarks were read: its seeds are never all taken back for one of them.  That
\* rests on network locks that work: a loop that leads with the no-op guard of
\* leadership.rs:97 may write a row that a cohort has found missing.
SeedOnce == \A t \in Tabs : session = t => \A x \in tab[t].dumps : mark[x] = 0

\* A leader reports a chain as active only when every raindex of it, the slow and the
\* failing ones too, has reached the block that it was asked to reach.
LeaderCaughtUp ==
    \A t \in Tabs, n \in Networks :
        runner[t][n].status = "leader" => \A x \in TargetsOf(n) : mark[x] = Head

Gone(t) == tab[t].pc = "stopped" \/ (tab[t].stop /\ \A n \in Networks : runner[t][n].pc = "off")

\* Once faults and stops have ended, every tab that is left reads every chain from the
\* local DB, though another tab may have held the bootstrap or the leadership and gone;
\* and what it reads becomes complete, though a tab that is not the leader has called
\* the chain ready at once.
Converges ==
    <>[](\A t \in Tabs : Gone(t) \/ /\ ready[t] = Networks
                                    /\ \A x \in Targets : mark[x] = Head)

\* A scheduler that is stopped, wherever it is, gives back its locks and the database.
StopReleases ==
    \A t \in Tabs : tab[t].stop ~> (session # t /\ \A l \in Locks : holder[l] # t)

\* While a network keeps failing, the wait between its cycles never shrinks, is never
\* shorter than the interval and never longer than the ceiling; a cycle without
\* failures ends the backoff.
Paced ==
    [][\A t \in Tabs, n \in Networks :
          LET now == runner'[t][n]  before == runner[t][n]
          IN  AtLoop(t, n, "cycle") /\ now.pc = "pause" =>
                IF now.status = "failure"
                THEN /\ Interval <= now.delay
                     /\ now.delay <= MaxBackoff \/ now.delay = Interval
                     /\ before.failures > 0 => before.delay <= now.delay
                ELSE now.delay <= Interval]_vars
=============================================================================
