----------------------- MODULE LocalDbSchedulerProofs ------------------------
(***************************************************************************)
(* What the tabs of a browser promise each other, for every number of      *)
(* tabs, networks and raindexes: the transaction of the bootstrap never    *)
(* meets a row that is there (SeedOnce), a leader reports only what it has *)
(* reached (LeaderCaughtUp), and the backoff is paced (Paced).             *)
(***************************************************************************)
EXTENDS LocalDbScheduler, FiniteSetTheorems, TLAPS

-----------------------------------------------------------------------------
(* The inductive invariant.                                                *)

TabType ==
    [pc : {"start", "boot", "recheck", "nets", "download", "import", "importing",
           "cancelling", "running", "stopped"},
     stop : BOOLEAN, todo : SUBSET Networks, missing : SUBSET Targets, dumps : SUBSET Targets]

RunnerType ==
    [pc : {"off", "pause", "cycle"},
     status : {"syncing", "leader", "follower", "failure"}, failures : Nat, delay : Nat]

Typed ==
    /\ mark \in [Targets -> 0 .. Head]
    /\ holder \in [Locks -> Tabs \cup {None}]
    /\ session \in Tabs \cup {None}
    /\ tab \in [Tabs -> TabType]
    /\ runner \in [Tabs -> [Networks -> RunnerType]]

\* The steps of provisioning that hold the lock of the bootstrap.
Booting == {"recheck", "nets", "download", "import", "importing"}

\* What the provisioning of a tab relies on.  From "import" on, its dumps have
\* no watermark: while it waits for the worker no other import can begin (the
\* bootstrap lock) and no loop can write (the network locks), and once the
\* import is open the worker answers nobody else, though the locks may be gone.
TabOK(t) ==
    /\ session = t <=> tab[t].pc \in {"importing", "cancelling"}
    /\ tab[t].pc \in Booting => holder["boot"] = t
    /\ tab[t].pc = "import" => session = None
    /\ tab[t].pc = "download" => \A x \in tab[t].missing : holder[NetworkOf[x]] = t
    /\ tab[t].pc = "import" => \A x \in tab[t].dumps : holder[NetworkOf[x]] = t
    /\ tab[t].pc \in {"import", "importing", "cancelling"} =>
          \A x \in tab[t].dumps : mark[x] = 0
    /\ tab[t].pc # "running" => \A n \in Networks : runner[t][n].pc = "off"

\* A cycle runs under its network's lock, a leader's chain is complete, and a
\* loop that is failing waits for what its failures call for.
LoopOK(t, n) ==
    /\ runner[t][n].pc = "cycle" => holder[n] = t
    /\ runner[t][n].status = "leader" => \A x \in TargetsOf(n) : mark[x] = Head
    /\ runner[t][n].failures > 0 => runner[t][n].delay = next_cycle_delay_ms(runner[t][n].failures)

Coordinated ==
    /\ Typed
    /\ \A t \in Tabs : TabOK(t)
    /\ \A t \in Tabs, n \in Networks : LoopOK(t, n)

-----------------------------------------------------------------------------
(* Powers of two, as the number of subsets of a set.                       *)

LEMMA PowerOfTwo ==
    ASSUME NEW n \in Nat
    PROVE  /\ IsFiniteSet(SUBSET (1 .. n))
           /\ Cardinality(SUBSET (1 .. n)) = 2 ^ n
           /\ 2 ^ n \in Nat
<1>1. IsFiniteSet(1 .. n) /\ Cardinality(1 .. n) = n
  BY FS_Interval
<1>2. IsFiniteSet(SUBSET (1 .. n)) /\ Cardinality(SUBSET (1 .. n)) = 2 ^ n
  BY <1>1, FS_SUBSET
<1> QED
  BY <1>2, FS_CardinalityType

LEMMA PowersGrow ==
    ASSUME NEW m \in Nat, NEW n \in Nat, m <= n
    PROVE  2 ^ m <= 2 ^ n
<1>1. SUBSET (1 .. m) \subseteq SUBSET (1 .. n)
  OBVIOUS
<1>2. Cardinality(SUBSET (1 .. m)) <= Cardinality(SUBSET (1 .. n))
  BY <1>1, PowerOfTwo, FS_Subset
<1> QED
  BY <1>2, PowerOfTwo

LEMMA PowersPositive ==
    ASSUME NEW n \in Nat
    PROVE  2 ^ n >= 1
<1>1. 2 ^ n # 0
  <2> SUFFICES ASSUME 2 ^ n = 0 PROVE FALSE
    OBVIOUS
  <2>1. Cardinality(SUBSET (1 .. n)) = 0
    BY PowerOfTwo
  <2>2. SUBSET (1 .. n) = {}
    BY <2>1, PowerOfTwo, FS_EmptySet
  <2> QED
    BY <2>2
<1> DEFINE p == 2 ^ n
<1>2. p \in Nat /\ p # 0
  BY <1>1, PowerOfTwo
<1> HIDE DEF p
<1>3. p >= 1
  BY <1>2
<1> QED
  BY <1>3 DEF p

LEMMA ProductGrows ==
    ASSUME NEW k \in Nat, NEW m \in Nat, NEW n \in Nat, m <= n
    PROVE  k * m <= k * n /\ k * m \in Nat /\ k * n \in Nat
  OBVIOUS

-----------------------------------------------------------------------------
(* The backoff.                                                            *)

Shift(failures) == IF failures < MaxShift THEN failures ELSE MaxShift

Ceiling == IF MaxBackoff > Interval THEN MaxBackoff ELSE Interval

LEMMA DelayIs ==
    ASSUME NEW failures \in Nat \ {0}
    PROVE  next_cycle_delay_ms(failures) =
              IF Interval * 2 ^ Shift(failures) < Ceiling THEN Interval * 2 ^ Shift(failures)
              ELSE Ceiling
  BY DEF next_cycle_delay_ms, Shift, Ceiling

\* A failing loop waits no less than the interval and no more than the ceiling,
\* which is the interval itself when that is longer than MAX_FAILURE_BACKOFF_MS.
LEMMA DelayBounds ==
    ASSUME NEW failures \in Nat
    PROVE  /\ next_cycle_delay_ms(failures) \in Nat
           /\ Interval <= next_cycle_delay_ms(failures)
           /\ next_cycle_delay_ms(failures) <= MaxBackoff \/ next_cycle_delay_ms(failures) = Interval
<1>0. Interval \in Nat \ {0} /\ MaxBackoff \in Nat /\ MaxShift \in Nat \ {0}
  BY SchedulerAssumption
<1>1. CASE failures = 0
  BY <1>0, <1>1 DEF next_cycle_delay_ms
<1>2. CASE failures # 0
  <2> DEFINE p == 2 ^ Shift(failures)
             d == Interval * p
  <2>1. Shift(failures) \in Nat
    BY <1>0 DEF Shift
  <2>2. p \in Nat /\ 1 <= p
    BY <2>1, PowerOfTwo, PowersPositive
  <2>3. next_cycle_delay_ms(failures) = IF d < Ceiling THEN d ELSE Ceiling
    BY <1>2, DelayIs
  <2> HIDE DEF p
  <2>4. d \in Nat /\ Interval <= d
    <3>1. Interval * 1 <= d /\ d \in Nat
      BY <1>0, <2>2, ProductGrows
    <3> QED
      BY <1>0, <3>1
  <2> HIDE DEF d
  <2> QED
    BY <1>0, <2>3, <2>4 DEF Ceiling
<1> QED
  BY <1>1, <1>2

\* One more failure never shortens the wait.
LEMMA DelayGrows ==
    ASSUME NEW failures \in Nat \ {0}
    PROVE  next_cycle_delay_ms(failures) <= next_cycle_delay_ms(failures + 1)
<1>0. Interval \in Nat \ {0} /\ MaxBackoff \in Nat /\ MaxShift \in Nat \ {0}
  BY SchedulerAssumption
<1> DEFINE m == Shift(failures)
           n == Shift(failures + 1)
           p == 2 ^ m
           q == 2 ^ n
           d == Interval * p
           e == Interval * q
<1>1. m \in Nat /\ n \in Nat /\ m <= n
  BY <1>0 DEF Shift
<1>2. /\ next_cycle_delay_ms(failures) = IF d < Ceiling THEN d ELSE Ceiling
      /\ next_cycle_delay_ms(failures + 1) = IF e < Ceiling THEN e ELSE Ceiling
  BY DelayIs
<1> HIDE DEF m, n
<1>3. p \in Nat /\ q \in Nat /\ p <= q
  BY <1>1, PowerOfTwo, PowersGrow
<1> HIDE DEF p, q
<1>4. d \in Nat /\ e \in Nat /\ d <= e
  BY <1>0, <1>3, ProductGrows
<1> HIDE DEF d, e
<1> QED
  BY <1>0, <1>2, <1>4 DEF Ceiling

-----------------------------------------------------------------------------
(* What a step of tab u does to the others.                                *)

\* Their memory is untouched and their locks are kept.
Apart(u) ==
    /\ \A t \in Tabs \ {u} : tab'[t] = tab[t] /\ runner'[t] = runner[t]
    /\ \A l \in Locks, t \in Tabs \ {u} : holder[l] = t => holder'[l] = t

\* A watermark is written by the import in progress, or under its network's lock.
Writes(u) ==
    \A x \in Targets : mark'[x] # mark[x] =>
        session = u \/ (session = None /\ holder[NetworkOf[x]] = u)

\* What has caught up stays so.
HeadsStay == \A x \in Targets : mark[x] = Head => mark'[x] = Head

\* Only a tab that waits for the worker opens an import, and only its own is closed.
Sessions(u) ==
    \/ session' = session
    \/ session = u /\ session' = None
    \/ session = None /\ session' = u /\ tab[u].pc = "import"

\* A step of u that is good for the others and leaves u itself in order.
GoodStep(u) ==
    /\ Typed' /\ Apart(u) /\ Writes(u) /\ HeadsStay /\ Sessions(u)
    /\ TabOK(u)' /\ \A n \in Networks : LoopOK(u, n)'

LEMMA Constants ==
    /\ None \notin Tabs /\ Head \in Nat \ {0} /\ "boot" \in Locks
    /\ \A n \in Networks : n \in Locks
    /\ \A x \in Targets : NetworkOf[x] \in Networks /\ NetworkOf[x] \in Locks
  BY SchedulerAssumption DEF Locks

LEMMA GoodForOthers ==
    ASSUME Coordinated, NEW u \in Tabs, GoodStep(u), NEW t \in Tabs, t # u
    PROVE  TabOK(t)' /\ \A n \in Networks : LoopOK(t, n)'
<1>0. /\ tab'[t] = tab[t] /\ runner'[t] = runner[t]
      /\ \A l \in Locks : holder[l] = t => holder'[l] = t
      /\ TabOK(t) /\ TabOK(u) /\ Sessions(u) /\ Writes(u)
      /\ u # None /\ t # None /\ tab[t] \in TabType
  BY Constants DEF GoodStep, Apart, Coordinated, Typed
<1>1. session = t <=> tab'[t].pc \in {"importing", "cancelling"}
  BY <1>0 DEF TabOK
<1>2. session' = t <=> session = t
  BY <1>0 DEF Sessions
<1>3. tab'[t].pc \in Booting => holder'["boot"] = t
  BY <1>0, Constants DEF TabOK
<1>4. tab'[t].pc = "import" => session' = None
  <2> SUFFICES ASSUME tab[t].pc = "import" PROVE session' = None
    BY <1>0
  <2>1. session = None /\ holder["boot"] = t
    BY <1>0 DEF TabOK, Booting
  <2>2. tab[u].pc # "import"
    BY <1>0, <2>1 DEF TabOK, Booting
  <2> QED
    BY <1>0, <2>1, <2>2 DEF Sessions
<1>5. /\ tab'[t].pc = "download" => \A x \in tab'[t].missing : holder'[NetworkOf[x]] = t
      /\ tab'[t].pc = "import" => \A x \in tab'[t].dumps : holder'[NetworkOf[x]] = t
  <2>1. \A x \in tab[t].missing \cup tab[t].dumps : NetworkOf[x] \in Locks
    BY <1>0, Constants DEF TabType
  <2> QED
    BY <1>0, <2>1 DEF TabOK
<1>6. tab'[t].pc \in {"import", "importing", "cancelling"} =>
         \A x \in tab'[t].dumps : mark'[x] = 0
  <2> SUFFICES ASSUME tab[t].pc \in {"import", "importing", "cancelling"},
                      NEW x \in tab[t].dumps
               PROVE  mark'[x] = 0
    BY <1>0
  <2>1. x \in Targets /\ mark[x] = 0
    BY <1>0 DEF TabOK, TabType
  <2>2. session = t \/ (session = None /\ holder[NetworkOf[x]] = t)
    BY <1>0 DEF TabOK
  <2>3. mark'[x] = mark[x]
    BY <1>0, <2>1, <2>2 DEF Writes
  <2> QED
    BY <2>1, <2>3
<1>7. tab'[t].pc # "running" => \A n \in Networks : runner'[t][n].pc = "off"
  BY <1>0 DEF TabOK
<1>8. TabOK(t)'
  BY <1>1, <1>2, <1>3, <1>4, <1>5, <1>6, <1>7 DEF TabOK
<1>9. ASSUME NEW n \in Networks PROVE LoopOK(t, n)'
  <2>1. LoopOK(t, n) /\ n \in Locks /\ HeadsStay
    BY Constants DEF Coordinated, GoodStep
  <2>2. TargetsOf(n) \subseteq Targets
    BY DEF TargetsOf
  <2> QED
    BY <1>0, <2>1, <2>2 DEF LoopOK, HeadsStay
<1> QED
  BY <1>8, <1>9

LEMMA GoodStepKeeps ==
    ASSUME Coordinated, NEW u \in Tabs, GoodStep(u)
    PROVE  Coordinated'
<1>1. ASSUME NEW t \in Tabs PROVE TabOK(t)' /\ \A n \in Networks : LoopOK(t, n)'
  BY GoodForOthers DEF GoodStep
<1> QED
  BY <1>1 DEF Coordinated, GoodStep

-----------------------------------------------------------------------------
(* Provisioning.                                                           *)

LEMMA ReleasedKeeps ==
    ASSUME holder \in [Locks -> Tabs \cup {None}], NEW u \in Tabs, NEW ls
    PROVE  /\ Released(u, ls) \in [Locks -> Tabs \cup {None}]
           /\ \A l \in Locks, t \in Tabs \ {u} : holder[l] = t => Released(u, ls)[l] = t
  BY DEF Released

LEMMA NewTabOK ==
    /\ NewTab \in TabType /\ NewRunner \in RunnerType
    /\ NewRunner.status = "syncing" /\ NewRunner.failures = 0 /\ NewRunner.pc = "off"
  BY DEF NewTab, NewRunner, TabType, RunnerType

LEMMA SpawnedStep ==
    ASSUME Coordinated, NEW u \in Tabs, Spawned(u), mark' \in [Targets -> 0 .. Head],
           Writes(u), HeadsStay,
           session' = IF session = u THEN None ELSE session
    PROVE  GoodStep(u)
<1> DEFINE loops == [n \in Networks |->
                       [NewRunner EXCEPT !.pc = IF tab[u].stop THEN "off" ELSE "pause"]]
           rest == [NewTab EXCEPT !.pc = IF tab[u].stop THEN "stopped" ELSE "running",
                                  !.stop = tab[u].stop]
<1>1. /\ Typed /\ TabOK(u) /\ u # None /\ tab[u] \in TabType
      /\ tab' = [tab EXCEPT ![u] = rest] /\ runner' = [runner EXCEPT ![u] = loops]
      /\ holder' = Released(u, IF tab[u].stop THEN Locks ELSE {"boot"})
  BY Constants DEF Coordinated, Typed, Spawned
<1>2. rest \in TabType /\ rest.pc = IF tab[u].stop THEN "stopped" ELSE "running"
  BY <1>1, NewTabOK DEF TabType, NewTab
<1>3. /\ loops \in [Networks -> RunnerType]
      /\ \A n \in Networks : /\ loops[n].pc = IF tab[u].stop THEN "off" ELSE "pause"
                             /\ loops[n].status = "syncing" /\ loops[n].failures = 0
  BY <1>1, NewTabOK DEF RunnerType, NewRunner
<1> HIDE DEF loops, rest
<1>4. holder' \in [Locks -> Tabs \cup {None}]
  BY <1>1, ReleasedKeeps DEF Typed
<1>5. Typed'
  BY <1>1, <1>2, <1>3, <1>4 DEF Typed
<1>6. Apart(u)
  BY <1>1, ReleasedKeeps DEF Apart, Typed
<1>7. tab'[u] = rest /\ runner'[u] = loops
  BY <1>1 DEF Typed
<1>8. TabOK(u)'
  BY <1>1, <1>2, <1>3, <1>7 DEF TabOK, Booting
<1>9. \A n \in Networks : LoopOK(u, n)'
  BY <1>3, <1>7 DEF LoopOK
<1> QED
  BY <1>1, <1>5, <1>6, <1>8, <1>9 DEF GoodStep, Sessions

\* A step that leaves the watermarks alone.
LEMMA MarksAlone ==
    ASSUME mark' = mark, NEW u
    PROVE  Writes(u) /\ HeadsStay
  BY DEF Writes, HeadsStay

LEMMA LoopsAlone ==
    ASSUME Coordinated, NEW u \in Tabs, runner' = runner, HeadsStay,
           \A l \in Locks : holder[l] = u => holder'[l] = u
    PROVE  \A n \in Networks : LoopOK(u, n)'
<1> SUFFICES ASSUME NEW n \in Networks PROVE LoopOK(u, n)'
  OBVIOUS
<1>1. LoopOK(u, n) /\ n \in Locks
  BY Constants DEF Coordinated
<1>2. TargetsOf(n) \subseteq Targets
  BY DEF TargetsOf
<1> QED
  BY <1>1, <1>2 DEF LoopOK, HeadsStay

\* A step of provisioning that takes locks at most and leaves the loops alone.
LEMMA TabStep ==
    ASSUME Coordinated, NEW u \in Tabs, NEW m \in TabType, tab' = [tab EXCEPT ![u] = m],
           runner' = runner, mark' = mark, holder' \in [Locks -> Tabs \cup {None}],
           \A l \in Locks, t \in Tabs : holder[l] = t => holder'[l] = t,
           session' \in Tabs \cup {None}, Sessions(u), TabOK(u)'
    PROVE  GoodStep(u)
<1>1. Typed' /\ Apart(u)
  BY DEF Coordinated, Typed, Apart
<1>2. Writes(u) /\ HeadsStay
  BY MarksAlone
<1>3. \A n \in Networks : LoopOK(u, n)'
  BY <1>2, LoopsAlone
<1> QED
  BY <1>1, <1>2, <1>3 DEF GoodStep

LEMMA TabFields ==
    ASSUME Coordinated, NEW u \in Tabs
    PROVE  /\ Typed /\ TabOK(u) /\ u # None /\ tab[u] \in TabType
           /\ tab[u].todo \subseteq Networks /\ tab[u].missing \subseteq Targets
           /\ tab[u].dumps \subseteq Targets /\ tab[u].stop \in BOOLEAN
  BY Constants DEF Coordinated, Typed, TabType

LEMMA PreflightStep ==
    ASSUME Coordinated, NEW u \in Tabs, Preflight(u)
    PROVE  GoodStep(u)
<1>1. tab[u].pc = "start" /\ mark' = mark /\ session' = session
  BY DEF Preflight, At
<1>2. Typed /\ TabOK(u) /\ u # None /\ tab[u] \in TabType /\ session # u
  BY <1>1, TabFields DEF TabOK
<1>3. CASE Spawned(u)
  BY <1>1, <1>2, <1>3, MarksAlone, SpawnedStep DEF Typed
<1>4. CASE ~Spawned(u)
  <2> DEFINE m == [tab[u] EXCEPT !.pc = "boot"]
  <2>1. tab' = [tab EXCEPT ![u] = m] /\ holder' = holder /\ runner' = runner
    BY <1>2, <1>4 DEF Preflight, Typed
  <2>2. m \in TabType /\ m.pc = "boot"
    BY <1>2 DEF TabType
  <2> HIDE DEF m
  <2>3. tab'[u] = m
    BY <1>2, <2>1 DEF Typed
  <2>4. TabOK(u)'
    BY <1>1, <1>2, <2>1, <2>2, <2>3 DEF TabOK, Booting
  <2> QED
    BY <1>1, <1>2, <2>1, <2>2, <2>4, TabStep DEF Typed, Sessions
<1> QED
  BY <1>3, <1>4

LEMMA AcquireBootstrapStep ==
    ASSUME Coordinated, NEW u \in Tabs, AcquireBootstrap(u)
    PROVE  GoodStep(u)
<1> DEFINE m == [tab[u] EXCEPT !.pc = "recheck"]
<1>1. /\ tab[u].pc = "boot" /\ holder["boot"] = None /\ mark' = mark /\ session' = session
      /\ holder' = [holder EXCEPT !["boot"] = u] /\ runner' = runner
      /\ tab' = [tab EXCEPT ![u].pc = "recheck"]
  BY DEF AcquireBootstrap, At
<1>2. Typed /\ TabOK(u) /\ u # None /\ tab[u] \in TabType /\ session # u
  BY <1>1, TabFields DEF TabOK
<1>3. tab' = [tab EXCEPT ![u] = m]
  BY <1>1, <1>2 DEF Typed
<1>4. m \in TabType /\ m.pc = "recheck"
  BY <1>2 DEF TabType
<1> HIDE DEF m
<1>5. /\ tab'[u] = m /\ holder'["boot"] = u /\ holder' \in [Locks -> Tabs \cup {None}]
      /\ \A l \in Locks, t \in Tabs : holder[l] = t => holder'[l] = t
  BY <1>1, <1>2, <1>3, Constants DEF Typed
<1>6. TabOK(u)'
  BY <1>1, <1>2, <1>4, <1>5 DEF TabOK, Booting
<1> QED
  BY <1>1, <1>2, <1>3, <1>4, <1>5, <1>6, TabStep DEF Typed, Sessions

LEMMA RecheckPopulatedStep ==
    ASSUME Coordinated, NEW u \in Tabs, RecheckPopulated(u)
    PROVE  GoodStep(u)
<1>1. tab[u].pc = "recheck" /\ mark' = mark /\ session' = session
  BY DEF RecheckPopulated, At
<1>2. Typed /\ TabOK(u) /\ u # None /\ tab[u] \in TabType /\ session # u
  BY <1>1, TabFields DEF TabOK
<1>3. CASE Spawned(u)
  BY <1>1, <1>2, <1>3, MarksAlone, SpawnedStep DEF Typed
<1>4. CASE ~Spawned(u)
  <2> DEFINE m == [tab[u] EXCEPT !.pc = "nets", !.todo = Networks]
  <2>1. tab' = [tab EXCEPT ![u] = m] /\ holder' = holder /\ runner' = runner
    BY <1>2, <1>4 DEF RecheckPopulated, Typed
  <2>2. m \in TabType /\ m.pc = "nets"
    BY <1>2 DEF TabType
  <2> HIDE DEF m
  <2>3. tab'[u] = m
    BY <1>2, <2>1 DEF Typed
  <2>4. TabOK(u)'
    BY <1>1, <1>2, <2>1, <2>2, <2>3 DEF TabOK, Booting
  <2> QED
    BY <1>1, <1>2, <2>1, <2>2, <2>4, TabStep DEF Typed, Sessions
<1> QED
  BY <1>3, <1>4

LEMMA AcquireNetworkBootstrapStep ==
    ASSUME Coordinated, NEW u \in Tabs, AcquireNetworkBootstrap(u)
    PROVE  GoodStep(u)
<1>1. PICK n \in tab[u].todo :
         /\ holder' = IF holder[n] = None THEN [holder EXCEPT ![n] = u] ELSE holder
         /\ tab' = [tab EXCEPT ![u].todo = @ \ {n}]
  BY DEF AcquireNetworkBootstrap
<1> DEFINE m == [tab[u] EXCEPT !.todo = @ \ {n}]
<1>2. tab[u].pc = "nets" /\ mark' = mark /\ session' = session /\ runner' = runner
  BY DEF AcquireNetworkBootstrap, At
<1>3. /\ Typed /\ TabOK(u) /\ u # None /\ tab[u] \in TabType /\ session # u
      /\ n \in Networks /\ n \in Locks
  BY <1>2, TabFields, Constants DEF TabOK
<1>4. tab' = [tab EXCEPT ![u] = m]
  BY <1>1, <1>3 DEF Typed
<1>5. m \in TabType /\ m.pc = "nets"
  BY <1>2, <1>3 DEF TabType
<1> HIDE DEF m
<1>6. /\ tab'[u] = m /\ holder' \in [Locks -> Tabs \cup {None}]
      /\ \A l \in Locks, t \in Tabs : holder[l] = t => holder'[l] = t
  BY <1>1, <1>3, <1>4, Constants DEF Typed
<1>7. TabOK(u)'
  BY <1>2, <1>3, <1>5, <1>6, Constants DEF TabOK, Booting
<1> QED
  BY <1>2, <1>3, <1>4, <1>5, <1>6, <1>7, TabStep DEF Typed, Sessions

LEMMA FindMissingStep ==
    ASSUME Coordinated, NEW u \in Tabs, FindMissing(u)
    PROVE  GoodStep(u)
<1>1. tab[u].pc = "nets" /\ mark' = mark /\ session' = session
  BY DEF FindMissing, At
<1>2. Typed /\ TabOK(u) /\ u # None /\ tab[u] \in TabType /\ session # u
  BY <1>1, TabFields DEF TabOK
<1>3. CASE Spawned(u)
  BY <1>1, <1>2, <1>3, MarksAlone, SpawnedStep DEF Typed
<1>4. CASE ~Spawned(u)
  <2> DEFINE missing == {x \in Targets : NetworkOf[x] \in Cohort(u) /\ mark[x] = 0}
             m == [tab[u] EXCEPT !.pc = "download", !.missing = missing]
  <2>1. tab' = [tab EXCEPT ![u] = m] /\ holder' = holder /\ runner' = runner
    BY <1>2, <1>4 DEF FindMissing, Typed
  <2>2. m \in TabType /\ m.pc = "download" /\ m.missing = missing
    BY <1>2 DEF TabType
  <2>3. \A x \in missing : holder[NetworkOf[x]] = u
    BY DEF Cohort, Held
  <2> HIDE DEF m, missing
  <2>4. tab'[u] = m
    BY <1>2, <2>1 DEF Typed
  <2>5. TabOK(u)'
    BY <1>1, <1>2, <2>1, <2>2, <2>3, <2>4 DEF TabOK, Booting
  <2> QED
    BY <1>1, <1>2, <2>1, <2>2, <2>5, TabStep DEF Typed, Sessions
<1> QED
  BY <1>3, <1>4

LEMMA DownloadSeedsStep ==
    ASSUME Coordinated, NEW u \in Tabs, DownloadSeeds(u)
    PROVE  GoodStep(u)
<1>1. tab[u].pc = "download" /\ Answers(u) /\ mark' = mark /\ session' = session
  BY DEF DownloadSeeds, At
<1>2. Typed /\ TabOK(u) /\ u # None /\ tab[u] \in TabType /\ session # u
  BY <1>1, TabFields DEF TabOK
<1>3. CASE Spawned(u)
  BY <1>1, <1>2, <1>3, MarksAlone, SpawnedStep DEF Typed
<1>4. CASE ~Spawned(u)
  <2>1. PICK got \in SUBSET tab[u].missing :
          LET dumps == {x \in got : mark[x] = 0}
          IN  IF dumps = {} THEN Spawned(u)
              ELSE /\ tab' = [tab EXCEPT ![u].pc = "import", ![u].dumps = dumps]
                   /\ UNCHANGED <<holder, runner>>
    BY DEF DownloadSeeds
  <2> DEFINE dumps == {x \in got : mark[x] = 0}
             m == [tab[u] EXCEPT !.pc = "import", !.dumps = dumps]
  <2>2. tab' = [tab EXCEPT ![u] = m] /\ holder' = holder /\ runner' = runner
    BY <1>2, <1>4, <2>1 DEF Typed
  <2>3. /\ dumps \subseteq tab[u].missing /\ dumps \subseteq Targets
        /\ \A x \in dumps : mark[x] = 0
    BY TabFields
  <2> HIDE DEF dumps
  <2>4. m \in TabType /\ m.pc = "import" /\ m.dumps = dumps
    BY <1>2, <2>3 DEF TabType
  <2> HIDE DEF m
  <2>5. tab'[u] = m /\ session = None
    BY <1>1, <1>2, <2>2 DEF Typed, Answers
  <2>6. TabOK(u)'
    BY <1>1, <1>2, <2>2, <2>3, <2>4, <2>5 DEF TabOK, Booting
  <2> QED
    BY <1>1, <1>2, <2>2, <2>4, <2>6, TabStep DEF Typed, Sessions
<1> QED
  BY <1>3, <1>4

LEMMA BeginImportStep ==
    ASSUME Coordinated, NEW u \in Tabs, BeginImport(u)
    PROVE  GoodStep(u)
<1> DEFINE m == [tab[u] EXCEPT !.pc = "importing"]
<1>1. /\ tab[u].pc = "import" /\ session = None /\ mark' = mark /\ session' = u
      /\ holder' = holder /\ runner' = runner /\ tab' = [tab EXCEPT ![u].pc = "importing"]
  BY DEF BeginImport, At
<1>2. Typed /\ TabOK(u) /\ u # None /\ tab[u] \in TabType
  BY TabFields
<1>3. tab' = [tab EXCEPT ![u] = m]
  BY <1>1, <1>2 DEF Typed
<1>4. m \in TabType /\ m.pc = "importing" /\ m.dumps = tab[u].dumps
  BY <1>2 DEF TabType
<1> HIDE DEF m
<1>5. tab'[u] = m
  BY <1>2, <1>3 DEF Typed
<1>6. TabOK(u)'
  BY <1>1, <1>2, <1>4, <1>5 DEF TabOK, Booting
<1> QED
  BY <1>1, <1>2, <1>3, <1>4, <1>6, TabStep DEF Typed, Sessions

\* A commit of the import in progress writes only what had no watermark.
LEMMA CommittedMarks ==
    ASSUME Coordinated, NEW u \in Tabs, session = u, Committed(u) \/ mark' = mark
    PROVE  mark' \in [Targets -> 0 .. Head] /\ Writes(u) /\ HeadsStay
<1>0. Typed /\ 1 \in 0 .. Head /\ Head # 0
  BY Constants DEF Coordinated
<1>1. CASE mark' = mark
  BY <1>0, <1>1, MarksAlone DEF Typed
<1>2. CASE mark' # mark
  <2>1. /\ mark' = [x \in Targets |-> IF x \in tab[u].dumps THEN 1 ELSE mark[x]]
        /\ \A x \in tab[u].dumps : mark[x] = 0
    BY <1>2 DEF Committed
  <2>2. mark' \in [Targets -> 0 .. Head]
    BY <1>0, <2>1 DEF Typed
  <2> QED
    BY <1>0, <2>1, <2>2 DEF Writes, HeadsStay
<1> QED
  BY <1>1, <1>2

LEMMA FinishImportStep ==
    ASSUME Coordinated, NEW u \in Tabs, FinishImport(u)
    PROVE  GoodStep(u)
<1>1. tab[u].pc = "importing" /\ Committed(u) /\ session' = None /\ Spawned(u)
  BY DEF FinishImport, At
<1>2. session = u
  BY <1>1, TabFields DEF TabOK
<1> QED
  BY <1>1, <1>2, CommittedMarks, SpawnedStep

LEMMA ProvisioningFailsStep ==
    ASSUME Coordinated, NEW u \in Tabs, ProvisioningFails(u)
    PROVE  GoodStep(u)
  BY MarksAlone, SpawnedStep DEF ProvisioningFails, Coordinated, Typed

LEMMA SchemaFailsStep ==
    ASSUME Coordinated, NEW u \in Tabs, SchemaFails(u)
    PROVE  GoodStep(u)
<1> DEFINE m == [tab[u] EXCEPT !.pc = "stopped"]
<1>1. /\ tab[u].pc = "start" /\ mark' = mark /\ session' = session /\ holder' = holder
      /\ runner' = runner /\ tab' = [tab EXCEPT ![u].pc = "stopped"]
  BY DEF SchemaFails, At
<1>2. Typed /\ TabOK(u) /\ u # None /\ tab[u] \in TabType
  BY TabFields
<1>3. tab' = [tab EXCEPT ![u] = m]
  BY <1>1, <1>2 DEF Typed
<1>4. m \in TabType /\ m.pc = "stopped"
  BY <1>2 DEF TabType
<1> HIDE DEF m
<1>5. tab'[u] = m
  BY <1>2, <1>3 DEF Typed
<1>6. TabOK(u)'
  BY <1>1, <1>2, <1>4, <1>5 DEF TabOK, Booting
<1> QED
  BY <1>1, <1>2, <1>3, <1>4, <1>6, TabStep DEF Typed, Sessions

\* A tab whose loops are off leaves, and all its locks are released; its import,
\* if one is open, is left to the worker.
LEMMA LeaveStep ==
    ASSUME Coordinated, NEW u \in Tabs, NEW m \in TabType,
           m.pc = IF session = u THEN "cancelling" ELSE "stopped", m.dumps = tab[u].dumps,
           tab' = [tab EXCEPT ![u] = m], mark' = mark, session' = session,
           holder' = Released(u, Locks), NEW loops \in [Networks -> RunnerType],
           \A n \in Networks : /\ loops[n].pc = "off"
                               /\ loops[n] = runner[u][n] \/ loops[n] = NewRunner,
           runner' = [runner EXCEPT ![u] = loops]
    PROVE  GoodStep(u)
<1>1. Typed /\ TabOK(u) /\ u # None
  BY TabFields
<1>2. tab'[u] = m /\ runner'[u] = loops
  BY <1>1 DEF Typed
<1>3. Typed' /\ Apart(u)
  BY <1>1, ReleasedKeeps DEF Typed, Apart
<1>4. TabOK(u)'
  BY <1>1, <1>2 DEF TabOK, Booting
<1>5. ASSUME NEW n \in Networks PROVE LoopOK(u, n)'
  <2>1. LoopOK(u, n)
    BY DEF Coordinated
  <2>2. /\ runner'[u][n].pc = "off"
        /\ runner'[u][n] = runner[u][n] \/ runner'[u][n] = NewRunner
    BY <1>2
  <2> QED
    BY <2>1, <2>2, NewTabOK DEF LoopOK
<1> QED
  BY <1>3, <1>4, <1>5, MarksAlone DEF GoodStep, Sessions

LEMMA CancelStep ==
    ASSUME Coordinated, NEW u \in Tabs, Cancel(u)
    PROVE  GoodStep(u)
<1> DEFINE m == [tab[u] EXCEPT !.pc = IF session = u THEN "cancelling" ELSE "stopped"]
           loops == runner[u]
<1>1. /\ tab[u].pc # "running" /\ mark' = mark /\ session' = session
      /\ holder' = Released(u, Locks) /\ runner' = runner
      /\ tab' = [tab EXCEPT ![u].pc = IF session = u THEN "cancelling" ELSE "stopped"]
  BY DEF Cancel
<1>2. Typed /\ TabOK(u) /\ tab[u] \in TabType
  BY TabFields
<1>3. tab' = [tab EXCEPT ![u] = m]
  BY <1>1, <1>2 DEF Typed
<1>4. /\ m \in TabType /\ m.dumps = tab[u].dumps
      /\ m.pc = IF session = u THEN "cancelling" ELSE "stopped"
  BY <1>2 DEF TabType
<1> HIDE DEF m
<1>5. /\ loops \in [Networks -> RunnerType] /\ \A n \in Networks : loops[n].pc = "off"
      /\ runner' = [runner EXCEPT ![u] = loops]
  BY <1>1, <1>2 DEF Typed, TabOK
<1> QED
  BY <1>1, <1>3, <1>4, <1>5, LeaveStep

LEMMA KillStep ==
    ASSUME Coordinated, NEW u \in Tabs, Kill(u)
    PROVE  GoodStep(u)
<1> DEFINE m == [tab[u] EXCEPT !.stop = TRUE,
                               !.pc = IF session = u THEN "cancelling" ELSE "stopped"]
           loops == [n \in Networks |-> NewRunner]
<1>1. /\ mark' = mark /\ session' = session
      /\ holder' = Released(u, Locks) /\ runner' = [runner EXCEPT ![u] = loops]
      /\ tab' = [tab EXCEPT ![u].stop = TRUE,
                            ![u].pc = IF session = u THEN "cancelling" ELSE "stopped"]
  BY DEF Kill
<1>2. Typed /\ TabOK(u) /\ tab[u] \in TabType
  BY TabFields
<1>3. tab' = [tab EXCEPT ![u] = m]
  BY <1>1, <1>2 DEF Typed
<1>4. /\ m \in TabType /\ m.dumps = tab[u].dumps
      /\ m.pc = IF session = u THEN "cancelling" ELSE "stopped"
  BY <1>2 DEF TabType
<1> HIDE DEF m
<1>5. loops \in [Networks -> RunnerType] /\ \A n \in Networks : loops[n] = NewRunner
  BY NewTabOK
<1> QED
  BY <1>1, <1>3, <1>4, <1>5, NewTabOK, LeaveStep

LEMMA EndOrphanStep ==
    ASSUME Coordinated, NEW u \in Tabs, EndOrphan(u)
    PROVE  GoodStep(u)
<1> DEFINE m == [tab[u] EXCEPT !.pc = "stopped"]
<1>1. /\ tab[u].pc = "cancelling" /\ (Committed(u) \/ mark' = mark)
      /\ session' = None /\ holder' = holder
      /\ runner' = runner /\ tab' = [tab EXCEPT ![u].pc = "stopped"]
  BY DEF EndOrphan, At
<1>2. Typed /\ TabOK(u) /\ u # None /\ tab[u] \in TabType /\ session = u
  BY <1>1, TabFields DEF TabOK
<1>3. tab' = [tab EXCEPT ![u] = m]
  BY <1>1, <1>2 DEF Typed
<1>4. m \in TabType /\ m.pc = "stopped"
  BY <1>2 DEF TabType
<1> HIDE DEF m
<1>5. tab'[u] = m
  BY <1>2, <1>3 DEF Typed
<1>6. mark' \in [Targets -> 0 .. Head] /\ Writes(u) /\ HeadsStay
  BY <1>1, <1>2, CommittedMarks
<1>7. TabOK(u)'
  BY <1>1, <1>2, <1>4, <1>5 DEF TabOK, Booting
<1>8. Typed' /\ Apart(u) /\ Sessions(u)
  BY <1>1, <1>2, <1>3, <1>4, <1>6 DEF Typed, Apart, Sessions
<1>9. \A n \in Networks : LoopOK(u, n)'
  BY <1>1, <1>6, LoopsAlone
<1> QED
  BY <1>6, <1>7, <1>8, <1>9 DEF GoodStep

LEMMA StopStep ==
    ASSUME Coordinated, NEW u \in Tabs, Stop(u)
    PROVE  GoodStep(u)
<1> DEFINE m == [tab[u] EXCEPT !.stop = TRUE]
<1>1. /\ mark' = mark /\ session' = session /\ holder' = holder
      /\ runner' = runner /\ tab' = [tab EXCEPT ![u].stop = TRUE]
  BY DEF Stop
<1>2. Typed /\ TabOK(u) /\ tab[u] \in TabType
  BY TabFields
<1>3. tab' = [tab EXCEPT ![u] = m]
  BY <1>1, <1>2 DEF Typed
<1>4. /\ m \in TabType /\ m.pc = tab[u].pc /\ m.dumps = tab[u].dumps
      /\ m.missing = tab[u].missing
  BY <1>2 DEF TabType
<1> HIDE DEF m
<1>5. tab'[u] = m
  BY <1>2, <1>3 DEF Typed
<1>6. TabOK(u)'
  BY <1>1, <1>2, <1>4, <1>5 DEF TabOK
<1> QED
  BY <1>1, <1>2, <1>3, <1>4, <1>6, TabStep DEF Typed, Sessions

-----------------------------------------------------------------------------
(* The network loops.                                                      *)

\* A step of the loop of one network.
LEMMA LoopStep ==
    ASSUME Coordinated, NEW u \in Tabs, NEW n \in Networks, NEW r \in RunnerType,
           runner[u][n].pc # "off", runner' = [runner EXCEPT ![u][n] = r],
           tab' = tab, session' = session, mark' \in [Targets -> 0 .. Head],
           holder' \in [Locks -> Tabs \cup {None}], Writes(u), HeadsStay,
           \A l \in Locks, t \in Tabs : holder[l] = t => (l = n /\ t = u) \/ holder'[l] = t,
           LoopOK(u, n)'
    PROVE  GoodStep(u)
<1>1. Typed /\ TabOK(u) /\ u # None /\ tab[u].pc = "running"
  BY TabFields DEF TabOK
<1>2. Typed'
  BY <1>1 DEF Typed
<1>3. Apart(u)
  BY <1>1 DEF Apart, Typed
<1>4. TabOK(u)'
  BY <1>1 DEF TabOK, Booting
<1>5. ASSUME NEW k \in Networks, k # n PROVE LoopOK(u, k)'
  <2>1. LoopOK(u, k) /\ k \in Locks /\ runner'[u][k] = runner[u][k]
    BY <1>1, <1>5, Constants DEF Coordinated, Typed
  <2>2. TargetsOf(k) \subseteq Targets
    BY DEF TargetsOf
  <2> QED
    BY <1>5, <2>1, <2>2 DEF LoopOK, HeadsStay
<1> QED
  BY <1>2, <1>3, <1>4, <1>5 DEF GoodStep, Sessions

LEMMA LoopFields ==
    ASSUME Coordinated, NEW u \in Tabs, NEW n \in Networks
    PROVE  /\ Typed /\ TabOK(u) /\ LoopOK(u, n) /\ u # None /\ n \in Locks
           /\ runner[u][n] \in RunnerType /\ runner[u][n].failures \in Nat
  BY Constants DEF Coordinated, Typed, RunnerType

\* The memory of a loop that goes to sleep.
LEMMA PausedRunner ==
    ASSUME Coordinated, NEW u \in Tabs, NEW n \in Networks,
           NEW result \in {"caught_up", "behind", "failed"},
           NEW status \in {"syncing", "leader", "follower", "failure"},
           Paused(u, n, result, status)
    PROVE  \E r \in RunnerType :
              /\ runner' = [runner EXCEPT ![u][n] = r] /\ runner'[u][n] = r
              /\ r.pc = "pause" /\ r.status = status
              /\ r.failures = IF result = "failed" THEN runner[u][n].failures + 1 ELSE 0
              /\ r.delay = IF result = "behind" THEN 0 ELSE next_cycle_delay_ms(r.failures)
              /\ r.failures > 0 => r.delay = next_cycle_delay_ms(r.failures)
<1> DEFINE f == IF result = "failed" THEN runner[u][n].failures + 1 ELSE 0
           d == IF result = "behind" THEN 0 ELSE next_cycle_delay_ms(f)
           r == [pc |-> "pause", status |-> status, failures |-> f, delay |-> d]
<1>1. runner' = [runner EXCEPT ![u][n] = r]
  BY DEF Paused
<1>2. f \in Nat
  <2>1. runner[u][n].failures \in Nat
    BY LoopFields
  <2> QED
    BY <2>1
<1>3. d \in Nat
  BY <1>2, DelayBounds
<1>4. f > 0 => d = next_cycle_delay_ms(f)
  OBVIOUS
<1> HIDE DEF d, f
<1>5. r \in RunnerType
  BY <1>2, <1>3 DEF RunnerType
<1>6. runner'[u][n] = r
  BY <1>1, LoopFields DEF Typed
<1> QED
  BY <1>1, <1>4, <1>5, <1>6 DEF d, f

LEMMA RunNotLeaderStep ==
    ASSUME Coordinated, NEW u \in Tabs, NEW n \in Networks, RunNotLeader(u, n)
    PROVE  GoodStep(u)
<1>1. /\ runner[u][n].pc = "pause" /\ Paused(u, n, "caught_up", "follower")
      /\ mark' = mark /\ holder' = holder /\ session' = session /\ tab' = tab
  BY DEF RunNotLeader, AtLoop
<1>2. PICK r \in RunnerType :
        /\ runner' = [runner EXCEPT ![u][n] = r] /\ runner'[u][n] = r
        /\ r.pc = "pause" /\ r.status = "follower"
        /\ r.failures > 0 => r.delay = next_cycle_delay_ms(r.failures)
  BY <1>1, PausedRunner
<1>3. LoopOK(u, n)'
  BY <1>2 DEF LoopOK
<1> QED
  BY <1>1, <1>2, <1>3, LoopFields, MarksAlone, LoopStep DEF Typed

LEMMA RunLeaderStep ==
    ASSUME Coordinated, NEW u \in Tabs, NEW n \in Networks, RunLeader(u, n)
    PROVE  GoodStep(u)
<1> DEFINE s == IF runner[u][n].status = "follower" THEN "follower" ELSE "syncing"
           r == [runner[u][n] EXCEPT !.pc = "cycle", !.status = s]
<1>1. /\ runner[u][n].pc = "pause" /\ holder[n] \in {None, u}
      /\ holder' = [holder EXCEPT ![n] = u]
      /\ runner' = [runner EXCEPT ![u][n].pc = "cycle",
                                  ![u][n].status = IF @ = "follower" THEN @ ELSE "syncing"]
      /\ mark' = mark /\ session' = session /\ tab' = tab
  BY DEF RunLeader, AtLoop
<1>2. Typed /\ LoopOK(u, n) /\ u # None /\ n \in Locks /\ runner[u][n] \in RunnerType
  BY LoopFields
<1>3. runner' = [runner EXCEPT ![u][n] = r]
  BY <1>1, <1>2 DEF Typed
<1>4. /\ r \in RunnerType /\ r.pc = "cycle" /\ r.status # "leader"
      /\ r.failures = runner[u][n].failures /\ r.delay = runner[u][n].delay
  BY <1>2 DEF RunnerType
<1> HIDE DEF r, s
<1>50. runner'[u][n] = r
  BY <1>2, <1>3 DEF Typed
<1>51. holder \in [Locks -> Tabs \cup {None}] /\ None \notin Tabs
  BY <1>2, Constants DEF Typed
<1>52. \A l \in Locks : holder'[l] = IF l = n THEN u ELSE holder[l]
  BY <1>1, <1>51
<1>5. /\ holder'[n] = u /\ holder' \in [Locks -> Tabs \cup {None}]
      /\ \A l \in Locks, t \in Tabs : holder[l] = t => holder'[l] = t
  BY <1>1, <1>2, <1>51, <1>52
<1>6. LoopOK(u, n)'
  BY <1>2, <1>4, <1>50, <1>5 DEF LoopOK
<1>7. /\ runner[u][n].pc # "off" /\ mark' \in [Targets -> 0 .. Head]
      /\ session' = session /\ tab' = tab /\ Writes(u) /\ HeadsStay
  BY <1>1, <1>2, MarksAlone DEF Typed
<1>8. \A l \in Locks, t \in Tabs : holder[l] = t => (l = n /\ t = u) \/ holder'[l] = t
  BY <1>5
<1> QED
  BY <1>3, <1>4, <1>5, <1>6, <1>7, <1>8, LoopStep

\* The writes of a cycle: its loop holds the network's lock, no import is open,
\* and no target that is at the head moves away from it.
LEMMA CycleMarks ==
    ASSUME Coordinated, NEW u \in Tabs, NEW n \in Networks, runner[u][n].pc = "cycle",
           NEW S \in SUBSET TargetsOf(n), NEW blocks \in [S -> 1 .. Head],
           S # {} => Answers(u), Advances(blocks), mark' = Reached(blocks)
    PROVE  /\ mark' \in [Targets -> 0 .. Head] /\ Writes(u) /\ HeadsStay
           /\ \A x \in S : mark'[x] = blocks[x]
<1>1. Typed /\ TabOK(u) /\ LoopOK(u, n)
  BY LoopFields
<1>2. holder[n] = u /\ session # u
  BY <1>1 DEF LoopOK, TabOK
<1>3. S \subseteq Targets /\ \A x \in S : NetworkOf[x] = n
  BY DEF TargetsOf
<1>4. \A x \in Targets : mark'[x] = IF x \in S THEN blocks[x] ELSE mark[x]
  BY DEF Reached
<1>5. mark' \in [Targets -> 0 .. Head]
  <2>1. \A x \in Targets : mark'[x] \in 0 .. Head
    BY <1>1, <1>4, Constants DEF Typed
  <2> QED
    BY <2>1 DEF Reached
<1>6. Writes(u)
  BY <1>2, <1>3, <1>4 DEF Writes, Answers
<1>7. HeadsStay
  <2> SUFFICES ASSUME NEW x \in S, mark[x] = Head PROVE blocks[x] = Head
    BY <1>4 DEF HeadsStay
  <2>1. blocks[x] = Head \/ blocks[x] > mark[x]
    BY DEF Advances
  <2> QED
    BY <2>1, Constants
<1> QED
  BY <1>3, <1>4, <1>5, <1>6, <1>7

LEMMA CycleEndsStep ==
    ASSUME Coordinated, NEW u \in Tabs, NEW n \in Networks, CycleEnds(u, n)
    PROVE  GoodStep(u)
<1>1. /\ runner[u][n].pc = "cycle" /\ Answers(u)
      /\ holder' = holder /\ session' = session /\ tab' = tab
  BY DEF CycleEnds, AtLoop
<1>2. PICK blocks \in [TargetsOf(n) -> 1 .. Head] :
        /\ Advances(blocks) /\ mark' = Reached(blocks)
        /\ Paused(u, n, CycleResult(blocks),
                  IF CycleResult(blocks) = "caught_up" THEN "leader" ELSE "syncing")
  BY DEF CycleEnds
<1> DEFINE result == CycleResult(blocks)
           status == IF result = "caught_up" THEN "leader" ELSE "syncing"
<1>3. result \in {"caught_up", "behind", "failed"} /\ status \in {"syncing", "leader", "follower", "failure"}
  BY DEF CycleResult
<1>4. result = "caught_up" => \A x \in TargetsOf(n) : blocks[x] = Head
  BY DEF CycleResult
<1>5. status = "leader" => result = "caught_up"
  OBVIOUS
<1>6. Paused(u, n, result, status)
  BY <1>2
<1> HIDE DEF result, status
<1>7. PICK r \in RunnerType :
        /\ runner' = [runner EXCEPT ![u][n] = r] /\ runner'[u][n] = r
        /\ r.pc = "pause" /\ r.status = status
        /\ r.failures > 0 => r.delay = next_cycle_delay_ms(r.failures)
  BY <1>3, <1>6, PausedRunner
<1>8. /\ mark' \in [Targets -> 0 .. Head] /\ Writes(u) /\ HeadsStay
      /\ \A x \in TargetsOf(n) : mark'[x] = blocks[x]
  BY <1>1, <1>2, CycleMarks
<1>9. LoopOK(u, n)'
  BY <1>4, <1>5, <1>7, <1>8 DEF LoopOK
<1> QED
  BY <1>1, <1>7, <1>8, <1>9, LoopFields, LoopStep DEF Typed

LEMMA CycleFailsStep ==
    ASSUME Coordinated, NEW u \in Tabs, NEW n \in Networks, CycleFails(u, n)
    PROVE  GoodStep(u)
<1>1. /\ runner[u][n].pc = "cycle" /\ Paused(u, n, "failed", "failure")
      /\ holder' = holder /\ session' = session /\ tab' = tab
  BY DEF CycleFails, AtLoop
<1>2. PICK failed \in SUBSET TargetsOf(n) \ {{}} :
          /\ failed # TargetsOf(n) => Answers(u)
          /\ \E blocks \in [TargetsOf(n) \ failed -> 1 .. Head] :
                Advances(blocks) /\ mark' = Reached(blocks)
  BY DEF CycleFails
<1> DEFINE S == TargetsOf(n) \ failed
<1>3. PICK blocks \in [S -> 1 .. Head] : Advances(blocks) /\ mark' = Reached(blocks)
  BY <1>2
<1>4. S \in SUBSET TargetsOf(n) /\ (S # {} => Answers(u))
  BY <1>2
<1> HIDE DEF S
<1>5. PICK r \in RunnerType :
        /\ runner' = [runner EXCEPT ![u][n] = r] /\ runner'[u][n] = r
        /\ r.pc = "pause" /\ r.status = "failure"
        /\ r.failures > 0 => r.delay = next_cycle_delay_ms(r.failures)
  BY <1>1, PausedRunner
<1>6. mark' \in [Targets -> 0 .. Head] /\ Writes(u) /\ HeadsStay
  BY <1>1, <1>3, <1>4, CycleMarks
<1>7. LoopOK(u, n)'
  BY <1>5 DEF LoopOK
<1> QED
  BY <1>1, <1>5, <1>6, <1>7, LoopFields, LoopStep DEF Typed

LEMMA LoopStopsStep ==
    ASSUME Coordinated, NEW u \in Tabs, NEW n \in Networks, LoopStops(u, n)
    PROVE  GoodStep(u)
<1>1. /\ runner[u][n].pc = "pause" /\ runner' = [runner EXCEPT ![u][n] = NewRunner]
      /\ holder' = Released(u, {n})
      /\ mark' = mark /\ session' = session /\ tab' = tab
  BY DEF LoopStops, AtLoop
<1>2. Typed /\ n \in Locks
  BY LoopFields
<1>3. runner'[u][n] = NewRunner
  BY <1>1, <1>2 DEF Typed
<1>4. LoopOK(u, n)'
  BY <1>3, NewTabOK DEF LoopOK
<1>5. /\ holder' \in [Locks -> Tabs \cup {None}]
      /\ \A l \in Locks, t \in Tabs : holder[l] = t => (l = n /\ t = u) \/ holder'[l] = t
  BY <1>1, <1>2 DEF Typed, Released
<1> QED
  BY <1>1, <1>2, <1>4, <1>5, NewTabOK, MarksAlone, LoopStep DEF Typed

-----------------------------------------------------------------------------
(* The theorems.                                                           *)

LEMMA InitCoordinated == Init => Coordinated
<1> SUFFICES ASSUME Init PROVE Coordinated
  OBVIOUS
<1>1. PICK warm \in Warm : mark = [x \in Targets |-> IF x \in warm THEN Head ELSE 0]
  BY DEF Init
<1>2. Typed
  BY <1>1, Constants, NewTabOK DEF Init, Typed
<1>3. ASSUME NEW t \in Tabs PROVE TabOK(t)
  BY Constants DEF Init, TabOK, NewTab, NewRunner, Booting
<1>4. ASSUME NEW t \in Tabs, NEW n \in Networks PROVE LoopOK(t, n)
  BY NewTabOK DEF Init, LoopOK
<1> QED
  BY <1>2, <1>3, <1>4 DEF Coordinated

LEMMA NextCoordinated == Coordinated /\ [Next]_vars => Coordinated'
<1> SUFFICES ASSUME Coordinated, [Next]_vars PROVE Coordinated'
  OBVIOUS
<1>1. CASE UNCHANGED vars
  BY <1>1 DEF vars, Coordinated, Typed, TabOK, LoopOK
<1>2. ASSUME NEW u \in Tabs, Provision(u) PROVE GoodStep(u)
  BY <1>2, PreflightStep, AcquireBootstrapStep, RecheckPopulatedStep,
     AcquireNetworkBootstrapStep, FindMissingStep, DownloadSeedsStep, BeginImportStep,
     FinishImportStep, CancelStep, EndOrphanStep DEF Provision
<1>3. ASSUME NEW u \in Tabs, NEW n \in Networks, Loop(u, n) \/ CycleFails(u, n)
      PROVE  GoodStep(u)
  BY <1>3, RunNotLeaderStep, RunLeaderStep, CycleEndsStep, LoopStopsStep, CycleFailsStep DEF Loop
<1>4. ASSUME NEW u \in Tabs, ProvisioningFails(u) \/ SchemaFails(u) \/ Stop(u) \/ Kill(u)
      PROVE  GoodStep(u)
  BY <1>4, ProvisioningFailsStep, SchemaFailsStep, StopStep, KillStep
<1> QED
  BY <1>1, <1>2, <1>3, <1>4, GoodStepKeeps DEF Next

\* Whatever the tabs do, and whenever they are stopped or killed, the memory of
\* each agrees with the locks, the worker's session and the watermarks.
THEOREM TabsCoordinated == Spec => []Coordinated
  BY InitCoordinated, NextCoordinated, PTL DEF Spec

\* The transaction that imports a cohort's seeds never meets a row that is there
\* already: from reading the watermarks to its commit, through a stop, a kill and
\* the worker's expiry of the import, nobody else can have written one.
THEOREM SeedsMeetNoRow == Spec => []SeedOnce
<1>1. Coordinated => SeedOnce
  BY DEF Coordinated, TabOK, SeedOnce
<1> QED
  BY <1>1, TabsCoordinated, PTL

\* A leader that reports a chain as active has every raindex of it at the block
\* it was asked to reach, and no later step of any tab takes that back.
THEOREM LeadersCaughtUp == Spec => []LeaderCaughtUp
<1>1. Coordinated => LeaderCaughtUp
  BY DEF Coordinated, LoopOK, LeaderCaughtUp
<1> QED
  BY <1>1, TabsCoordinated, PTL

\* What the action property says of one step.
PacedStep ==
    \A t \in Tabs, n \in Networks :
        LET now == runner'[t][n]  before == runner[t][n]
        IN  AtLoop(t, n, "cycle") /\ now.pc = "pause" =>
              IF now.status = "failure"
              THEN /\ Interval <= now.delay
                   /\ now.delay <= MaxBackoff \/ now.delay = Interval
                   /\ before.failures > 0 => before.delay <= now.delay
              ELSE now.delay <= Interval

LEMMA SameLoopsPaced ==
    ASSUME Coordinated, NEW u \in Tabs,
           \A t \in Tabs \ {u} : runner'[t] = runner[t],
           runner'[u] = runner[u] \/ \A n \in Networks : runner[u][n].pc # "cycle"
    PROVE  PacedStep
  BY DEF PacedStep, AtLoop

LEMMA OneLoopPaced ==
    ASSUME Coordinated, NEW u \in Tabs, NEW n \in Networks, NEW r \in RunnerType,
           runner' = [runner EXCEPT ![u][n] = r],
           runner[u][n].pc = "cycle" /\ r.pc = "pause" =>
              IF r.status = "failure"
              THEN /\ Interval <= r.delay
                   /\ r.delay <= MaxBackoff \/ r.delay = Interval
                   /\ runner[u][n].failures > 0 => runner[u][n].delay <= r.delay
              ELSE r.delay <= Interval
    PROVE  PacedStep
<1> SUFFICES ASSUME NEW t \in Tabs, NEW k \in Networks,
                    runner[t][k].pc = "cycle", runner'[t][k].pc = "pause"
             PROVE  IF runner'[t][k].status = "failure"
                    THEN /\ Interval <= runner'[t][k].delay
                         /\ runner'[t][k].delay <= MaxBackoff \/ runner'[t][k].delay = Interval
                         /\ runner[t][k].failures > 0 => runner[t][k].delay <= runner'[t][k].delay
                    ELSE runner'[t][k].delay <= Interval
  BY DEF PacedStep, AtLoop
<1>1. runner'[t][k] = IF t = u /\ k = n THEN r ELSE runner[t][k]
  BY DEF Coordinated, Typed
<1>2. t = u /\ k = n
  BY <1>1
<1>3. runner'[t][k] = r
  BY <1>1, <1>2
<1> QED
  BY <1>2, <1>3

LEMMA CycleEndsPaced ==
    ASSUME Coordinated, NEW u \in Tabs, NEW n \in Networks, CycleEnds(u, n)
    PROVE  PacedStep
<1>1. PICK blocks \in [TargetsOf(n) -> 1 .. Head] :
        Paused(u, n, CycleResult(blocks),
               IF CycleResult(blocks) = "caught_up" THEN "leader" ELSE "syncing")
  BY DEF CycleEnds
<1> DEFINE result == CycleResult(blocks)
           status == IF result = "caught_up" THEN "leader" ELSE "syncing"
<1>2. result \in {"caught_up", "behind"} /\ status \in {"leader", "syncing"}
  BY DEF CycleResult
<1>3. Paused(u, n, result, status)
  BY <1>1
<1> HIDE DEF result, status
<1>4. PICK r \in RunnerType :
        /\ runner' = [runner EXCEPT ![u][n] = r] /\ r.status = status
        /\ r.failures = IF result = "failed" THEN runner[u][n].failures + 1 ELSE 0
        /\ r.delay = IF result = "behind" THEN 0 ELSE next_cycle_delay_ms(r.failures)
  BY <1>2, <1>3, PausedRunner
<1>5. r.delay <= Interval /\ r.status # "failure"
  BY <1>2, <1>4, SchedulerAssumption DEF next_cycle_delay_ms
<1> QED
  BY <1>4, <1>5, OneLoopPaced

LEMMA CycleFailsPaced ==
    ASSUME Coordinated, NEW u \in Tabs, NEW n \in Networks, CycleFails(u, n)
    PROVE  PacedStep
<1> DEFINE f == runner[u][n].failures
           d == next_cycle_delay_ms(f + 1)
<1>1. Paused(u, n, "failed", "failure")
  BY DEF CycleFails
<1>2. PICK r \in RunnerType :
        /\ runner' = [runner EXCEPT ![u][n] = r] /\ r.status = "failure"
        /\ r.failures = f + 1 /\ r.delay = next_cycle_delay_ms(r.failures)
  BY <1>1, PausedRunner
<1>3. f \in Nat /\ LoopOK(u, n)
  BY LoopFields
<1>4. Interval <= d /\ (d <= MaxBackoff \/ d = Interval)
  BY <1>3, DelayBounds
<1>5. f > 0 => next_cycle_delay_ms(f) <= d
  BY <1>3, DelayGrows
<1>6. f > 0 => runner[u][n].delay = next_cycle_delay_ms(f)
  BY <1>3 DEF LoopOK
<1>7. r.delay = d
  BY <1>2
<1> HIDE DEF d
<1> QED
  BY <1>2, <1>4, <1>5, <1>6, <1>7, OneLoopPaced

LEMMA NextPaced ==
    ASSUME Coordinated, [Next]_vars
    PROVE  PacedStep
<1>0. runner \in [Tabs -> [Networks -> RunnerType]]
  BY DEF Coordinated, Typed
<1>1. CASE UNCHANGED vars
  BY <1>1 DEF vars, PacedStep, AtLoop
<1>2. ASSUME NEW u \in Tabs, tab[u].pc # "running", Spawned(u)
      PROVE  PacedStep
  <2>1. \A n \in Networks : runner[u][n].pc # "cycle"
    BY <1>2, TabFields DEF TabOK
  <2>2. \A t \in Tabs \ {u} : runner'[t] = runner[t]
    BY <1>0, <1>2 DEF Spawned
  <2> QED
    BY <2>1, <2>2, SameLoopsPaced
<1>3. ASSUME NEW u \in Tabs, Provision(u) \/ ProvisioningFails(u) \/ SchemaFails(u) \/ Stop(u)
      PROVE  PacedStep
  <2>1. runner' = runner \/ (tab[u].pc # "running" /\ Spawned(u))
    BY <1>3 DEF Provision, Preflight, AcquireBootstrap, RecheckPopulated,
       AcquireNetworkBootstrap, FindMissing, DownloadSeeds, BeginImport, FinishImport,
       Cancel, EndOrphan, ProvisioningFails, SchemaFails, Stop, At
  <2> QED
    BY <1>2, <2>1, SameLoopsPaced
<1>4. ASSUME NEW u \in Tabs, Kill(u) PROVE PacedStep
  <2>1. \A t \in Tabs : runner'[t] = IF t = u THEN [n \in Networks |-> NewRunner] ELSE runner[t]
    BY <1>0, <1>4 DEF Kill
  <2>2. \A t \in Tabs, n \in Networks :
           runner'[t][n].pc = "off" \/ runner'[t][n] = runner[t][n]
    BY <2>1, NewTabOK
  <2> QED
    BY <2>2 DEF PacedStep, AtLoop
<1>5. ASSUME NEW u \in Tabs, NEW n \in Networks, Loop(u, n) \/ CycleFails(u, n)
      PROVE  PacedStep
  <2>1. CASE CycleEnds(u, n)
    BY <2>1, CycleEndsPaced
  <2>2. CASE CycleFails(u, n)
    BY <2>2, CycleFailsPaced
  <2>3. CASE RunNotLeader(u, n)
    <3>1. runner[u][n].pc = "pause" /\ Paused(u, n, "caught_up", "follower")
      BY <2>3 DEF RunNotLeader, AtLoop
    <3>2. PICK r \in RunnerType : runner' = [runner EXCEPT ![u][n] = r]
      BY <3>1, PausedRunner
    <3> QED
      BY <3>1, <3>2, OneLoopPaced
  <2>4. CASE LoopStops(u, n)
    BY <2>4, NewTabOK, OneLoopPaced DEF LoopStops, AtLoop
  <2>5. CASE RunLeader(u, n)
    <3>1. \A t \in Tabs, k \in Networks :
             runner'[t][k] = runner[t][k] \/ runner'[t][k].pc = "cycle"
      BY <1>0, <2>5 DEF RunLeader, RunnerType
    <3> QED
      BY <3>1 DEF PacedStep, AtLoop
  <2> QED
    BY <1>5, <2>1, <2>2, <2>3, <2>4, <2>5 DEF Loop
<1> QED
  BY <1>1, <1>3, <1>4, <1>5 DEF Next

\* While a network keeps failing the wait between its cycles stays between the
\* interval and the ceiling and never shrinks, for every interval, ceiling and
\* number of failures; a cycle without failures ends the backoff.
THEOREM BackoffPaced == Spec => Paced
<1> DEFINE P == \A t \in Tabs, n \in Networks :
          LET now == runner'[t][n]  before == runner[t][n]
          IN  AtLoop(t, n, "cycle") /\ now.pc = "pause" =>
                IF now.status = "failure"
                THEN /\ Interval <= now.delay
                     /\ now.delay <= MaxBackoff \/ now.delay = Interval
                     /\ before.failures > 0 => before.delay <= now.delay
                ELSE now.delay <= Interval
<1>1. Coordinated /\ [Next]_vars => [P]_vars
  BY NextPaced DEF PacedStep
<1> QED
  BY <1>1, TabsCoordinated, PTL DEF Spec, Paced
=============================================================================
