-------------------------- MODULE LocalDbSyncProofs --------------------------
(***************************************************************************)
(* The local DB is a faithful copy of the final part of the chain: proofs  *)
(* about LocalDbSync for every number of clients, height, finality depth,  *)
(* cap per cycle, dump and threshold, when every client gets its Web Lock, *)
(* the chain never replaces a block that is Depth deep, and the window has *)
(* no start override.                                                      *)
(***************************************************************************)
EXTENDS LocalDbSync, SequenceTheorems, TLAPS

-----------------------------------------------------------------------------
(* The windows of consecutive cycles                                       *)

\* A watermark: none, or the last block of a window.
Marks == {0} \cup {n \in Nat : n >= Deployment}

\* safe_head stays at or above the deployment block, and never passes a block
\* that has fewer than Depth blocks on top of it unless that is the deployment's.
THEOREM SafeHeadFinal ==
    ASSUME NEW latest \in Nat
    PROVE  /\ safe_head(latest) \in Nat
           /\ safe_head(latest) >= Deployment
           /\ safe_head(latest) > Deployment => safe_head(latest) + Depth <= latest
PROOF
    BY WindowAssumption DEF safe_head, Most

\* A window that is not empty starts at a new block, stays within what was asked
\* for and within the cap, and its target is a watermark.
THEOREM WindowBounds ==
    ASSUME NEW mark \in Marks, NEW latest \in Nat,
           window_start(mark) <= window_target(window_start(mark), latest)
    PROVE  /\ window_start(mark) > mark
           /\ window_start(mark) >= Deployment
           /\ window_target(window_start(mark), latest) \in Marks
           /\ window_target(window_start(mark), latest) <= requested_end_block(latest)
           /\ MaxBlocks > 0
                => window_target(window_start(mark), latest) - window_start(mark) < MaxBlocks
PROOF
<1> DEFINE start == window_start(mark)
           end == requested_end_block(latest)
<1>1. /\ start \in Nat
      /\ start > mark
      /\ start >= Deployment
    BY WindowAssumption DEF window_start, base_start, Most, Marks, NoBlock
<1>2. end \in Nat
    BY SafeHeadFinal, WindowAssumption DEF requested_end_block, Least, NoBlock
<1>3. window_target(start, latest) \in Nat
    BY <1>1, <1>2, WindowAssumption DEF window_target, Least
<1>4. /\ window_target(start, latest) <= end
      /\ MaxBlocks > 0 => window_target(start, latest) - start < MaxBlocks
    BY <1>1, <1>2, WindowAssumption DEF window_target, Least
<1> QED
    BY <1>1, <1>3, <1>4, WindowAssumption DEF Marks

\* A window is empty only when the watermark has reached what was asked for, so a
\* target that is behind always has blocks to read, whatever the cap.
THEOREM WindowProgress ==
    ASSUME NEW mark \in Marks, NEW latest \in Nat, StartBlock = NoBlock,
           mark < requested_end_block(latest),
           Deployment <= requested_end_block(latest)
    PROVE  window_start(mark) <= window_target(window_start(mark), latest)
PROOF
<1> DEFINE start == window_start(mark)
           end == requested_end_block(latest)
<1>1. end \in Nat
    BY SafeHeadFinal, WindowAssumption DEF requested_end_block, Least, NoBlock
<1>2. start \in Nat /\ start <= end
    BY <1>1, WindowAssumption DEF window_start, base_start, Marks
<1> QED
    BY <1>1, <1>2, WindowAssumption DEF window_target, Least
-----------------------------------------------------------------------------

Sound == Lockless = {} /\ ReorgDepth <= Depth /\ StartBlock = NoBlock

-----------------------------------------------------------------------------
(* The logs of a chain                                                     *)

LogsIn(ch, kind, from, to) ==
    {[block |-> n, hash |-> SubSeq(ch, 1, n)] :
        n \in {m \in DOMAIN ch : from <= m /\ m <= to /\ ch[m] = kind}}

LogType == [block : Nat, hash : Seq(Kinds)]

\* Two chains agree up to a height that both have.
Agree(ch, other, n) ==
    /\ n <= Len(ch)
    /\ n <= Len(other)
    /\ \A m \in 1 .. n : ch[m] = other[m]

\* A prefix of a chain is a chain.
LEMMA PrefixType ==
    ASSUME NEW ch \in Seq(Kinds), NEW n \in 0 .. Len(ch)
    PROVE  /\ SubSeq(ch, 1, n) \in Seq(Kinds)
           /\ Len(SubSeq(ch, 1, n)) = n
           /\ \A m \in 1 .. n : SubSeq(ch, 1, n)[m] = ch[m]
PROOF
<1>1. CASE n = 0
    BY <1>1, SubSeqProperties
<1>2. CASE n # 0
    BY <1>2, SubSeqProperties
<1> QED
    BY <1>1, <1>2

\* Logs have the type that the cycles keep.
LEMMA LogsType ==
    ASSUME NEW ch \in Seq(Kinds), NEW k, NEW from, NEW to
    PROVE  LogsIn(ch, k, from, to) \subseteq LogType
PROOF
<1> SUFFICES ASSUME NEW n \in DOMAIN ch
             PROVE  [block |-> n, hash |-> SubSeq(ch, 1, n)] \in LogType
    BY DEF LogsIn
<1>1. n \in 1 .. Len(ch)
    OBVIOUS
<1> QED
    BY <1>1, PrefixType DEF LogType

\* Chains that agree up to a height have the same hashes up to it.
LEMMA AgreeHash ==
    ASSUME NEW ch \in Seq(Kinds), NEW other \in Seq(Kinds), NEW n \in Nat,
           Agree(ch, other, n), NEW m \in 0 .. n
    PROVE  SubSeq(ch, 1, m) = SubSeq(other, 1, m)
PROOF
<1>1. m \in 0 .. Len(ch) /\ m \in 0 .. Len(other)
    BY DEF Agree
<1> DEFINE p == SubSeq(ch, 1, m)
           q == SubSeq(other, 1, m)
<1>2. p \in Seq(Kinds) /\ q \in Seq(Kinds) /\ Len(p) = m /\ Len(q) = m
    BY <1>1, PrefixType
<1>3. \A i \in 1 .. m : p[i] = ch[i] /\ q[i] = other[i]
    BY <1>1, PrefixType
<1>4. \A i \in 1 .. m : p[i] = q[i]
    BY <1>3 DEF Agree
<1> QED
    BY <1>2, <1>4, SeqEqual

\* ... and the same logs.
LEMMA AgreeLogs ==
    ASSUME NEW ch \in Seq(Kinds), NEW other \in Seq(Kinds), NEW n \in Nat,
           Agree(ch, other, n), NEW k, NEW from \in Int, NEW to \in Nat, to <= n
    PROVE  LogsIn(ch, k, from, to) = LogsIn(other, k, from, to)
PROOF
<1>1. \A m \in Nat : m <= n => SubSeq(ch, 1, m) = SubSeq(other, 1, m)
    BY AgreeHash
<1>2. {m \in DOMAIN ch : from <= m /\ m <= to /\ ch[m] = k}
        = {m \in DOMAIN other : from <= m /\ m <= to /\ other[m] = k}
    BY DEF Agree
<1>3. \A m \in {i \in DOMAIN ch : from <= i /\ i <= to /\ ch[i] = k} : m \in Nat /\ m <= n
    OBVIOUS
<1> QED
    BY <1>1, <1>2, <1>3 DEF LogsIn

\* The logs of two adjacent ranges are the logs of both together.
LEMMA LogsUnion ==
    ASSUME NEW ch \in Seq(Kinds), NEW k, NEW from \in Int, NEW mid \in Int, NEW to \in Int,
           from <= mid + 1, mid <= to
    PROVE  LogsIn(ch, k, from, mid) \cup LogsIn(ch, k, mid + 1, to) = LogsIn(ch, k, from, to)
PROOF
<1>1. {m \in DOMAIN ch : from <= m /\ m <= to /\ ch[m] = k}
        = {m \in DOMAIN ch : from <= m /\ m <= mid /\ ch[m] = k}
            \cup {m \in DOMAIN ch : mid + 1 <= m /\ m <= to /\ ch[m] = k}
    OBVIOUS
<1> QED
    BY <1>1 DEF LogsIn

\* There are no logs up to block 0.
LEMMA NoLogs ==
    ASSUME NEW ch \in Seq(Kinds), NEW k
    PROVE  LogsIn(ch, k, Deployment, 0) = {}
PROOF
    BY WindowAssumption DEF LogsIn

\* The Set events that follow an order.
StoreIn(ch, to) ==
    {[block |-> n, hash |-> SubSeq(ch, 1, n)] :
        n \in {m \in Deployment .. to :
            m \in DOMAIN ch /\ ch[m] = "set" /\ \E o \in Deployment .. m : ch[o] = "order"}}

\* ... are the same on chains that agree.
LEMMA AgreeStore ==
    ASSUME NEW ch \in Seq(Kinds), NEW other \in Seq(Kinds), NEW n \in Nat,
           Agree(ch, other, n), NEW to \in Nat, to <= n
    PROVE  StoreIn(ch, to) = StoreIn(other, to)
PROOF
<1>1. \A m \in Nat : m <= n => SubSeq(ch, 1, m) = SubSeq(other, 1, m)
    BY AgreeHash
<1>2. {m \in Deployment .. to :
          m \in DOMAIN ch /\ ch[m] = "set" /\ \E o \in Deployment .. m : ch[o] = "order"}
        = {m \in Deployment .. to :
          m \in DOMAIN other /\ other[m] = "set" /\ \E o \in Deployment .. m : other[o] = "order"}
    BY WindowAssumption DEF Agree
<1>3. \A m \in Deployment .. to : m \in Nat /\ m <= n
    BY WindowAssumption
<1> QED
    BY <1>1, <1>2, <1>3 DEF StoreIn

\* A window that knows the stores reads every Set event that it must.
LEMMA StoreGrows ==
    ASSUME NEW ch \in Seq(Kinds), NEW mid \in Nat, NEW from \in Nat, NEW to \in Nat,
           from = IF mid = 0 THEN Deployment ELSE mid + 1,
           mid = 0 \/ mid >= Deployment, from <= to,
           NEW sets,
           LogsIn(ch, "order", Deployment, to) # {} => sets = LogsIn(ch, "set", from, to)
    PROVE  StoreIn(ch, to) \subseteq StoreIn(ch, mid) \cup sets
PROOF
<1> SUFFICES ASSUME NEW n \in Deployment .. to, n \in DOMAIN ch, ch[n] = "set",
                    NEW o \in Deployment .. n, ch[o] = "order"
             PROVE  [block |-> n, hash |-> SubSeq(ch, 1, n)] \in StoreIn(ch, mid) \cup sets
    BY DEF StoreIn
<1> USE WindowAssumption
<1>1. o \in DOMAIN ch /\ Deployment <= o /\ o <= to
    OBVIOUS
<1>2. LogsIn(ch, "order", Deployment, to) # {}
    BY <1>1 DEF LogsIn
<1>3. CASE n >= from
    BY <1>2, <1>3 DEF LogsIn
<1>4. CASE n < from
    <2>1. n \in Deployment .. mid
        BY <1>4
    <2> QED
        BY <2>1 DEF StoreIn
<1> QED
    BY <1>3, <1>4

-----------------------------------------------------------------------------
(* The inductive invariant                                                 *)

CycleType ==
    [dump : BOOLEAN, seen : Nat, latest : Nat, start : Nat, target : Nat,
     logs : SUBSET LogType, sets : SUBSET LogType, hash : Seq(Kinds)]

ClientType ==
    [pc : Steps, guard : {"none", "lock", "noop"}, loaded : BOOLEAN, manifest : Nat,
     provisioned : BOOLEAN, failed : Nat, cycle : CycleType]

\* No mark, or a block that the chain keeps.
FinalAt(top, n) == n = 0 \/ (Deployment <= n /\ n + Depth <= top)

ChainOK ==
    /\ chain \in Seq(Kinds)
    /\ peak \in Nat
    /\ Deployment + Depth <= peak
    /\ Len(chain) <= peak
    /\ peak <= Len(chain) + ReorgDepth

ClientOK ==
    /\ client \in [Clients -> ClientType]
    /\ \A c \in Clients : FinalAt(peak, client[c].manifest)

\* Only the holder of the lock is in a run.
LockOK ==
    \A c \in Clients :
        /\ client[c].guard # "noop"
        /\ client[c].pc # "idle" => client[c].guard = "lock"
        /\ \A d \in Clients : client[c].guard = "lock" /\ client[d].guard = "lock" => c = d

\* The database is a copy of the chain up to its mark.
Copies(ch, top, d) ==
    /\ d.block \in Nat
    /\ FinalAt(top, d.block)
    /\ d.rows = LogsIn(ch, "order", Deployment, d.block)
    /\ d.block # 0 => d.hash = SubSeq(ch, 1, d.block)
    /\ StoreIn(ch, d.block) \subseteq d.sets

\* What a cycle has read is the chain's, and continues the database.
Continues(ch, top, d, pc, cycle) ==
    /\ cycle.latest <= top
    /\ pc \in {"fetch", "stores", "hash", "persist"} =>
          /\ cycle.start = window_start(d.block)
          /\ cycle.start <= cycle.target
          /\ Deployment <= cycle.target
          /\ cycle.target + Depth <= top
    /\ pc \in {"stores", "hash", "persist"} =>
          cycle.logs = LogsIn(ch, "order", cycle.start, cycle.target)
    /\ pc \in {"hash", "persist"} =>
          StoreIn(ch, cycle.target) \subseteq StoreIn(ch, d.block) \cup cycle.sets
    /\ pc = "persist" => cycle.hash = SubSeq(ch, 1, cycle.target)

CyclesOK == \A c \in Clients : Continues(chain, peak, db, client[c].pc, client[c].cycle)

IInv == ChainOK /\ ClientOK /\ LockOK /\ Copies(chain, peak, db) /\ CyclesOK

-----------------------------------------------------------------------------
(* The chain moves                                                         *)

\* No step of the chain touches a block that is Depth deep.
LEMMA ChainStep ==
    ASSUME ReorgDepth <= Depth, ChainOK, ChainNext
    PROVE  /\ ChainOK'
           /\ peak <= peak'
           /\ Agree(chain, chain', peak - Depth)
PROOF
<1> USE WindowAssumption, ChainAssumption DEF ChainOK
<1>1. CASE Grow
    <2>1. PICK k \in Kinds : chain' = Append(chain, k)
        BY <1>1 DEF Grow
    <2>2. /\ chain' \in Seq(Kinds)
          /\ Len(chain') = Len(chain) + 1
          /\ \A m \in 1 .. Len(chain) : chain'[m] = chain[m]
        BY <2>1
    <2>3. peak' = IF Len(chain) + 1 > peak THEN Len(chain) + 1 ELSE peak
        BY <1>1 DEF Grow
    <2> QED
        BY <2>2, <2>3 DEF Agree
<1>2. CASE Reorg
    <2>1. PICK m \in Deployment .. Len(chain) - 1, k \in Kinds :
              m >= peak - ReorgDepth /\ chain' = Append(SubSeq(chain, 1, m), k)
        BY <1>2 DEF Reorg
    <2>2. m \in 0 .. Len(chain)
        BY <2>1
    <2>3. /\ SubSeq(chain, 1, m) \in Seq(Kinds)
          /\ Len(SubSeq(chain, 1, m)) = m
          /\ \A i \in 1 .. m : SubSeq(chain, 1, m)[i] = chain[i]
        BY <2>2, PrefixType
    <2>4. /\ chain' \in Seq(Kinds)
          /\ Len(chain') = m + 1
          /\ \A i \in 1 .. m : chain'[i] = chain[i]
        BY <2>1, <2>3
    <2>5. peak' = peak
        BY <1>2 DEF Reorg
    <2> QED
        BY <2>1, <2>2, <2>4, <2>5 DEF Agree
<1> QED
    BY <1>1, <1>2 DEF ChainNext

\* A copy of the chain, and a cycle that continues it, stay so when the chain
\* changes above them.
LEMMA AgreeKeeps ==
    ASSUME NEW ch \in Seq(Kinds), NEW other \in Seq(Kinds), NEW top \in Nat, NEW top2 \in Nat,
           top <= top2, Depth <= top, Agree(ch, other, top - Depth),
           NEW d, Copies(ch, top, d)
    PROVE  /\ Copies(other, top2, d)
           /\ \A pc \in Steps, cycle \in CycleType :
                 Continues(ch, top, d, pc, cycle) => Continues(other, top2, d, pc, cycle)
PROOF
<1> USE WindowAssumption
<1> DEFINE n == top - Depth
<1>1. n \in Nat /\ Agree(ch, other, n)
    OBVIOUS
<1>2. d.block \in Nat /\ d.block <= n
    BY DEF Copies, FinalAt
<1>3. StoreIn(ch, d.block) = StoreIn(other, d.block)
    BY <1>1, <1>2, AgreeStore
<1> HIDE DEF n
<1>4. \A m \in Nat : m <= n => SubSeq(ch, 1, m) = SubSeq(other, 1, m)
    BY <1>1, AgreeHash
<1> USE DEF n
<1>5. Copies(other, top2, d)
    <2>1. LogsIn(ch, "order", Deployment, d.block) = LogsIn(other, "order", Deployment, d.block)
        BY <1>1, <1>2, AgreeLogs
    <2>2. SubSeq(ch, 1, d.block) = SubSeq(other, 1, d.block)
        BY <1>2, <1>4
    <2> QED
        BY <1>3, <2>1, <2>2 DEF Copies, FinalAt
<1>6. ASSUME NEW pc \in Steps, NEW cycle \in CycleType, Continues(ch, top, d, pc, cycle)
      PROVE  Continues(other, top2, d, pc, cycle)
    <2>1. /\ cycle.start \in Nat /\ cycle.target \in Nat /\ cycle.latest \in Nat
        BY DEF CycleType
    <2>2. CASE pc \in {"fetch", "stores", "hash", "persist"}
        <3>1. cycle.target <= n
            BY <1>6, <2>1, <2>2 DEF Continues
        <3>2. LogsIn(ch, "order", cycle.start, cycle.target)
                = LogsIn(other, "order", cycle.start, cycle.target)
            BY <1>1, <2>1, <3>1, AgreeLogs
        <3>3. StoreIn(ch, cycle.target) = StoreIn(other, cycle.target)
            BY <1>1, <2>1, <3>1, AgreeStore
        <3>4. SubSeq(ch, 1, cycle.target) = SubSeq(other, 1, cycle.target)
            BY <1>4, <2>1, <3>1
        <3>5. cycle.latest <= top2 /\ cycle.target + Depth <= top2
            BY <1>6, <2>1, <2>2 DEF Continues
        <3> QED
            BY <1>3, <1>6, <2>2, <3>2, <3>3, <3>4, <3>5, Zenon DEF Continues
    <2>3. CASE pc \notin {"fetch", "stores", "hash", "persist"}
        BY <1>6, <2>1, <2>3 DEF Continues
    <2> QED
        BY <2>2, <2>3
<1> QED
    BY <1>5, <1>6

LEMMA ChainKeeps ==
    ASSUME Sound, IInv, ChainNext, UNCHANGED <<db, client, faults>>
    PROVE  IInv'
PROOF
<1> USE WindowAssumption
<1>1. ChainOK' /\ peak <= peak' /\ Agree(chain, chain', peak - Depth)
    BY ChainStep DEF IInv, Sound
<1>2. /\ chain \in Seq(Kinds) /\ chain' \in Seq(Kinds) /\ peak \in Nat /\ peak' \in Nat
      /\ Depth <= peak
    BY <1>1 DEF IInv, ChainOK
<1>3. Copies(chain', peak', db)
    BY <1>1, <1>2, AgreeKeeps DEF IInv
<1>4. \A c \in Clients : Continues(chain', peak', db, client[c].pc, client[c].cycle)
    <2> SUFFICES ASSUME NEW c \in Clients
                 PROVE  Continues(chain', peak', db, client[c].pc, client[c].cycle)
        OBVIOUS
    <2>1. client[c].pc \in Steps /\ client[c].cycle \in CycleType
        BY DEF IInv, ClientOK, ClientType
    <2>2. Continues(chain, peak, db, client[c].pc, client[c].cycle)
        BY DEF IInv, CyclesOK
    <2> QED
        BY <1>1, <1>2, <2>1, <2>2, AgreeKeeps DEF IInv
<1>5. ClientOK'
    <2> SUFFICES ASSUME NEW c \in Clients
                 PROVE  FinalAt(peak', client[c].manifest)
        BY DEF IInv, ClientOK
    <2>1. client[c].manifest \in Nat
        BY DEF IInv, ClientOK, ClientType
    <2> QED
        BY <1>1, <1>2, <2>1 DEF IInv, ClientOK, FinalAt
<1>6. LockOK'
    BY DEF IInv, LockOK
<1> QED
    BY <1>1, <1>3, <1>4, <1>5, <1>6 DEF IInv, CyclesOK

-----------------------------------------------------------------------------
(* A client moves                                                          *)

\* What a step of one client must show of its new memory when neither the chain
\* nor the database changes.
LEMMA ReadKeeps ==
    ASSUME IInv, NEW c \in Clients, NEW new \in ClientType,
           client' = [client EXCEPT ![c] = new],
           UNCHANGED <<chain, peak, db>>,
           FinalAt(peak, new.manifest),
           \/ new.guard = client[c].guard
           \/ new.guard = "none"
           \/ new.guard = "lock" /\ LockFree,
           new.pc # "idle" => new.guard = "lock",
           Continues(chain, peak, db, new.pc, new.cycle)
    PROVE  IInv'
PROOF
<1>1. /\ client' \in [Clients -> ClientType]
      /\ client'[c] = new
      /\ \A d \in Clients : d # c => client'[d] = client[d]
    BY DEF IInv, ClientOK
<1>2. ClientOK'
    BY <1>1 DEF IInv, ClientOK
<1>3. LockOK'
    BY <1>1 DEF IInv, LockOK, LockFree
<1>4. CyclesOK'
    BY <1>1 DEF IInv, CyclesOK
<1>5. ChainOK' /\ Copies(chain, peak, db)'
    BY DEF IInv, ChainOK
<1> QED
    BY <1>2, <1>3, <1>4, <1>5 DEF IInv

\* ... and when the holder of the lock writes: the others are not in a run.
LEMMA WriteKeeps ==
    ASSUME IInv, NEW c \in Clients, NEW new \in ClientType,
           client[c].pc # "idle",
           client' = [client EXCEPT ![c] = new],
           UNCHANGED <<chain, peak>>,
           Copies(chain, peak, db'),
           new.manifest = client[c].manifest,
           new.guard = client[c].guard,
           new.pc \in {"idle", "import", "window"},
           new.cycle.latest <= peak
    PROVE  IInv'
PROOF
<1>1. /\ client' \in [Clients -> ClientType]
      /\ client'[c] = new
      /\ \A d \in Clients : d # c => client'[d] = client[d]
    BY DEF IInv, ClientOK
<1>2. ClientOK'
    BY <1>1 DEF IInv, ClientOK
<1>3. LockOK'
    BY <1>1 DEF IInv, LockOK
<1>4. CyclesOK'
    <2> SUFFICES ASSUME NEW d \in Clients
                 PROVE  Continues(chain, peak, db', client'[d].pc, client'[d].cycle)
        BY DEF CyclesOK
    <2>1. CASE d = c
        BY <1>1, <2>1 DEF Continues
    <2>2. CASE d # c
        <3>1. client[d].pc = "idle"
            BY <2>2 DEF IInv, LockOK
        <3>2. client'[d] = client[d]
            BY <1>1, <2>2
        <3>3. client[d].cycle.latest <= peak
            BY DEF IInv, CyclesOK, Continues
        <3> QED
            BY <3>1, <3>2, <3>3 DEF Continues
    <2> QED
        BY <2>1, <2>2
<1>5. ChainOK' /\ Copies(chain, peak, db)'
    BY DEF IInv, ChainOK
<1> QED
    BY <1>2, <1>3, <1>4, <1>5 DEF IInv

\* The memory of a client that ends a run, or goes to another step of it.
LEMMA MemoryTypes ==
    /\ NoCycle \in CycleType
    /\ NewClient \in ClientType
PROOF
<1>1. NoCycle \in CycleType
    BY DEF NoCycle, CycleType, LogType
<1> QED
    BY <1>1 DEF NewClient, ClientType, Steps

LEMMA EndedKeeps ==
    ASSUME IInv, NEW c \in Clients, client' = Ended(c), UNCHANGED <<chain, peak, db>>
    PROVE  IInv'
PROOF
<1> DEFINE new == [client[c] EXCEPT !.pc = "idle", !.cycle = NoCycle, !.provisioned = TRUE]
<1>1. client[c] \in ClientType
    BY DEF IInv, ClientOK
<1>2. client' = [client EXCEPT ![c] = new]
    BY <1>1 DEF Ended, IInv, ClientOK
<1>3. /\ new \in ClientType
      /\ new.pc = "idle" /\ new.cycle = NoCycle
      /\ new.guard = client[c].guard /\ new.manifest = client[c].manifest
    BY <1>1, MemoryTypes DEF ClientType, Steps
<1>4. Continues(chain, peak, db, "idle", NoCycle)
    BY DEF IInv, ChainOK, Continues, NoCycle
<1>5. FinalAt(peak, client[c].manifest)
    BY DEF IInv, ClientOK
<1> HIDE DEF new
<1> QED
    BY <1>2, <1>3, <1>4, <1>5, ReadKeeps

\* A run goes on to another step.
LEMMA GotoKeeps ==
    ASSUME IInv, NEW c \in Clients, NEW pc \in Steps, NEW cycle \in CycleType,
           client[c].guard = "lock", Goto(c, pc, cycle), UNCHANGED <<chain, peak, db>>,
           Continues(chain, peak, db, pc, cycle)
    PROVE  IInv'
PROOF
<1> DEFINE new == [client[c] EXCEPT !.pc = pc, !.cycle = cycle]
<1>1. client[c] \in ClientType
    BY DEF IInv, ClientOK
<1>2. client' = [client EXCEPT ![c] = new]
    BY <1>1 DEF Goto, IInv, ClientOK
<1>3. /\ new \in ClientType
      /\ new.pc = pc /\ new.cycle = cycle
      /\ new.guard = client[c].guard /\ new.manifest = client[c].manifest
    BY <1>1 DEF ClientType
<1>4. FinalAt(peak, client[c].manifest)
    BY DEF IInv, ClientOK
<1> HIDE DEF new
<1> QED
    BY <1>2, <1>3, <1>4, ReadKeeps

-----------------------------------------------------------------------------
(* The steps of the runner                                                 *)

LEMMA AcquireKeeps ==
    ASSUME Sound, IInv, NEW c \in Clients, Acquire(c)
    PROVE  IInv'
PROOF
<1> DEFINE new == [client[c] EXCEPT !.guard = "lock"]
<1>1. client[c] \in ClientType
    BY DEF IInv, ClientOK
<1>2. LockFree /\ client' = [client EXCEPT ![c].guard = "lock"]
    BY DEF Acquire, Sound
<1>3. client' = [client EXCEPT ![c] = new]
    BY <1>1, <1>2 DEF IInv, ClientOK
<1>4. /\ new \in ClientType
      /\ new.pc = client[c].pc /\ new.cycle = client[c].cycle
      /\ new.guard = "lock" /\ new.manifest = client[c].manifest
    BY <1>1 DEF ClientType
<1>5. /\ FinalAt(peak, client[c].manifest)
      /\ Continues(chain, peak, db, client[c].pc, client[c].cycle)
      /\ UNCHANGED <<chain, peak, db>>
    BY DEF IInv, ClientOK, CyclesOK, Acquire
<1> HIDE DEF new
<1> QED
    BY <1>2, <1>3, <1>4, <1>5, ReadKeeps

LEMMA LoadManifestKeeps ==
    ASSUME IInv, NEW c \in Clients, LoadManifest(c)
    PROVE  IInv'
PROOF
<1>1. client[c] \in ClientType
    BY DEF IInv, ClientOK
<1>2. PICK end \in {0} \cup {n \in DumpEnds : n <= peak - Depth} :
          client' = [client EXCEPT ![c].loaded = TRUE, ![c].manifest = end]
    BY DEF LoadManifest
<1> DEFINE new == [client[c] EXCEPT !.loaded = TRUE, !.manifest = end]
<1>3. client' = [client EXCEPT ![c] = new]
    BY <1>1, <1>2 DEF IInv, ClientOK
<1>4. end \in Nat /\ FinalAt(peak, end)
    BY <1>2, SyncAssumption, WindowAssumption DEF FinalAt, IInv, ChainOK
<1>5. /\ new \in ClientType
      /\ new.pc = client[c].pc /\ new.cycle = client[c].cycle
      /\ new.guard = client[c].guard /\ new.manifest = end
    BY <1>1, <1>4 DEF ClientType
<1>6. /\ client[c].pc = "idle"
      /\ Continues(chain, peak, db, client[c].pc, client[c].cycle)
      /\ UNCHANGED <<chain, peak, db>>
    BY DEF IInv, CyclesOK, LoadManifest, At
<1> HIDE DEF new
<1> QED
    BY <1>3, <1>4, <1>5, <1>6, ReadKeeps

LEMMA RunKeeps ==
    ASSUME IInv, NEW c \in Clients, Run(c)
    PROVE  IInv'
PROOF
<1>1. client[c] \in ClientType
    BY DEF IInv, ClientOK
<1>2. client[c].guard = "lock"
    BY <1>1 DEF Run, IInv, LockOK, ClientType
<1>3. PICK dump \in BOOLEAN : Goto(c, "latest", [NoCycle EXCEPT !.dump = dump])
    BY DEF Run
<1> DEFINE cycle == [NoCycle EXCEPT !.dump = dump]
<1>4. cycle \in CycleType /\ cycle.latest = 0
    BY MemoryTypes DEF CycleType, NoCycle
<1>5. Continues(chain, peak, db, "latest", cycle)
    BY <1>4 DEF Continues, IInv, ChainOK
<1>6. UNCHANGED <<chain, peak, db>>
    BY DEF Run
<1> HIDE DEF cycle
<1> QED
    BY <1>2, <1>3, <1>4, <1>5, <1>6, GotoKeeps DEF Steps, cycle

-----------------------------------------------------------------------------
(* The steps of the engine that read                                       *)

\* What is known of a client in a run.
LEMMA InRun ==
    ASSUME IInv, NEW c \in Clients, client[c].pc # "idle"
    PROVE  /\ client[c].guard = "lock"
           /\ client[c].cycle \in CycleType
           /\ client[c].cycle.latest <= peak
           /\ client[c].manifest \in Nat
           /\ FinalAt(peak, client[c].manifest)
           /\ Continues(chain, peak, db, client[c].pc, client[c].cycle)
           /\ chain \in Seq(Kinds) /\ peak \in Nat /\ Len(chain) <= peak
           /\ db.block \in Nat /\ FinalAt(peak, db.block)
PROOF
<1>1. client[c] \in ClientType
    BY DEF IInv, ClientOK
<1>2. client[c].cycle \in CycleType /\ client[c].manifest \in Nat
    BY <1>1 DEF ClientType
<1>3. Continues(chain, peak, db, client[c].pc, client[c].cycle)
    BY DEF IInv, CyclesOK
<1> QED
    BY <1>2, <1>3 DEF IInv, ClientOK, LockOK, Continues, ChainOK, Copies

LEMMA LatestBlockKeeps ==
    ASSUME IInv, NEW c \in Clients, LatestBlock(c)
    PROVE  IInv'
PROOF
<1> DEFINE cycle == [client[c].cycle EXCEPT !.latest = Len(chain)]
           pc == IF client[c].cycle.dump THEN "inspect" ELSE "window"
<1>1. client[c].pc # "idle" /\ Goto(c, pc, cycle) /\ UNCHANGED <<chain, peak, db>>
    BY DEF LatestBlock, At, Cycle
<1>2. cycle \in CycleType /\ cycle.latest = Len(chain)
    <2>1. client[c].cycle \in CycleType /\ Len(chain) \in Nat
        BY <1>1, InRun
    <2> QED
        BY <2>1 DEF CycleType
<1>3. pc \in Steps /\ pc \in {"inspect", "window"}
    BY DEF Steps
<1> HIDE DEF cycle, pc
<1>4. Continues(chain, peak, db, pc, cycle)
    BY <1>1, <1>2, <1>3, InRun DEF Continues
<1> QED
    BY <1>1, <1>2, <1>3, <1>4, InRun, GotoKeeps

LEMMA InspectStateKeeps ==
    ASSUME IInv, NEW c \in Clients, InspectState(c)
    PROVE  IInv'
PROOF
<1> DEFINE cycle == [client[c].cycle EXCEPT !.seen = db.block]
<1>1. client[c].pc # "idle" /\ Goto(c, "bootstrap", cycle) /\ UNCHANGED <<chain, peak, db>>
    BY DEF InspectState, At, Cycle
<1>2. cycle \in CycleType /\ cycle.latest = client[c].cycle.latest
    BY <1>1, InRun DEF CycleType
<1> HIDE DEF cycle
<1>3. Continues(chain, peak, db, "bootstrap", cycle)
    BY <1>1, <1>2, InRun DEF Continues
<1> QED
    BY <1>1, <1>2, <1>3, InRun, GotoKeeps DEF Steps

LEMMA CheckThresholdKeeps ==
    ASSUME IInv, NEW c \in Clients, CheckThreshold(c)
    PROVE  IInv'
PROOF
<1>1. client[c].pc # "idle" /\ UNCHANGED <<chain, peak, db>>
    BY DEF CheckThreshold, At
<1>2. PICK pc \in {"import", "clear", "window"} : Goto(c, pc, client[c].cycle)
    BY DEF CheckThreshold, Cycle
<1>3. Continues(chain, peak, db, pc, client[c].cycle)
    BY <1>1, <1>2, InRun DEF Continues
<1> QED
    BY <1>1, <1>2, <1>3, InRun, GotoKeeps DEF Steps

\* The window of a cycle continues the database and ends at a final block.
LEMMA ComputeWindowKeeps ==
    ASSUME IInv, NEW c \in Clients, ComputeWindow(c)
    PROVE  IInv'
PROOF
<1> DEFINE start == window_start(db.block)
           target == window_target(start, client[c].cycle.latest)
           cycle == [client[c].cycle EXCEPT !.start = start, !.target = target]
<1>1. client[c].pc # "idle" /\ UNCHANGED <<chain, peak, db>>
    BY DEF ComputeWindow, At
<1>2. CASE start > target
    <2>1. client' = Ended(c)
        BY <1>2 DEF ComputeWindow, Cycle
    <2> QED
        BY <1>1, <2>1, EndedKeeps
<1>3. CASE ~(start > target)
    <2>1. Goto(c, "fetch", cycle)
        BY <1>3 DEF ComputeWindow, Cycle
    <2>2. db.block \in Marks /\ client[c].cycle.latest \in Nat
        BY <1>1, InRun DEF Marks, FinalAt, CycleType
    <2>3. start \in Nat /\ target \in Int
        BY <2>2, SafeHeadFinal, WindowAssumption
        DEF window_start, base_start, Most, Marks, NoBlock, window_target, Least,
            requested_end_block
    <2>4. /\ start <= target
          /\ target \in Marks
          /\ target <= requested_end_block(client[c].cycle.latest)
          /\ start >= Deployment
        BY <1>3, <2>2, <2>3, WindowBounds
    <2>5. /\ requested_end_block(client[c].cycle.latest) \in Nat
          /\ requested_end_block(client[c].cycle.latest) <= safe_head(client[c].cycle.latest)
        BY <2>2, SafeHeadFinal, WindowAssumption DEF requested_end_block, Least, NoBlock
    <2>6. safe_head(client[c].cycle.latest) + Depth <= peak
        <3> DEFINE latest == client[c].cycle.latest
        <3>1. latest <= peak /\ peak \in Nat /\ Deployment + Depth <= peak
            BY <1>1, InRun DEF IInv, ChainOK
        <3>2. latest \in Nat
            BY <2>2
        <3> HIDE DEF latest
        <3>3. safe_head(latest) + Depth <= peak
            BY <3>1, <3>2, SafeHeadFinal, WindowAssumption
        <3> QED
            BY <3>3 DEF latest
    <2>7. target \in Nat /\ Deployment <= target /\ target + Depth <= peak
        <3>1. target \in Nat /\ Deployment <= target
            BY <2>3, <2>4, WindowAssumption DEF Marks
        <3>2. safe_head(client[c].cycle.latest) \in Nat
            BY <2>2, SafeHeadFinal
        <3> HIDE DEF target
        <3> QED
            BY <1>1, <2>4, <2>5, <2>6, <3>1, <3>2, InRun, WindowAssumption
    <2>8. /\ cycle \in CycleType /\ cycle.start = start /\ cycle.target = target
          /\ cycle.latest = client[c].cycle.latest
        <3> HIDE DEF start, target
        <3> QED
            BY <1>1, <2>3, <2>7, InRun DEF CycleType
    <2>9. Continues(chain, peak, db, "fetch", cycle)
        <3> HIDE DEF cycle, target
        <3> QED
            BY <1>1, <2>4, <2>7, <2>8, InRun DEF Continues
    <2> HIDE DEF cycle
    <2> QED
        BY <1>1, <2>1, <2>8, <2>9, InRun, GotoKeeps DEF Steps
<1> QED
    BY <1>2, <1>3

LEMMA FetchRaindexKeeps ==
    ASSUME IInv, NEW c \in Clients, FetchRaindex(c)
    PROVE  IInv'
PROOF
<1> DEFINE logs == LogsIn(chain, "order", client[c].cycle.start, client[c].cycle.target)
           cycle == [client[c].cycle EXCEPT !.logs = logs]
<1>1. client[c].pc = "fetch" /\ Goto(c, "stores", cycle) /\ UNCHANGED <<chain, peak, db>>
    BY DEF FetchRaindex, At, Cycle, LogsOf, LogsIn, Log, Hash
<1>2. logs \subseteq LogType
    BY <1>1, InRun, LogsType
<1>3. /\ cycle \in CycleType /\ cycle.logs = logs
      /\ cycle.latest = client[c].cycle.latest
      /\ cycle.start = client[c].cycle.start /\ cycle.target = client[c].cycle.target
    <2> HIDE DEF logs
    <2> QED
        BY <1>1, <1>2, InRun DEF CycleType
<1> HIDE DEF cycle
<1>4. Continues(chain, peak, db, "stores", cycle)
    BY <1>1, <1>3, InRun DEF Continues
<1> QED
    BY <1>1, <1>3, <1>4, InRun, GotoKeeps DEF Steps

\* The logs of a window complete those of the database.
LEMMA WindowUnion ==
    ASSUME NEW ch \in Seq(Kinds), NEW k \in Kinds, NEW mark \in Marks, NEW to \in Nat,
           NEW from, from = IF mark = 0 THEN Deployment ELSE mark + 1, from <= to
    PROVE  LogsIn(ch, k, Deployment, mark) \cup LogsIn(ch, k, from, to)
                = LogsIn(ch, k, Deployment, to)
PROOF
<1> USE WindowAssumption
<1>1. CASE mark = 0
    <2>1. LogsIn(ch, k, Deployment, 0) = {}
        BY NoLogs
    <2> QED
        BY <1>1, <2>1
<1>2. CASE mark # 0
    <2>1. mark \in Nat /\ Deployment <= mark /\ mark + 1 <= to /\ from = mark + 1
        BY <1>2 DEF Marks
    <2> QED
        BY <2>1, LogsUnion
<1> QED
    BY <1>1, <1>2

LEMMA FetchStoresKeeps ==
    ASSUME Sound, IInv, NEW c \in Clients, FetchStores(c)
    PROVE  IInv'
PROOF
<1> DEFINE start == client[c].cycle.start
           target == client[c].cycle.target
           sets == IF KnownStores(c) THEN LogsIn(chain, "set", start, target) ELSE {}
           cycle == [client[c].cycle EXCEPT !.sets = sets]
<1>1. client[c].pc = "stores" /\ Goto(c, "hash", cycle) /\ UNCHANGED <<chain, peak, db>>
    BY DEF FetchStores, At, Cycle, LogsOf, LogsIn, Log, Hash
<1>2. sets \subseteq LogType
    BY <1>1, InRun, LogsType
<1>3. /\ cycle \in CycleType /\ cycle.sets = sets
      /\ cycle.latest = client[c].cycle.latest /\ cycle.logs = client[c].cycle.logs
      /\ cycle.start = start /\ cycle.target = target
    <2> HIDE DEF sets
    <2> QED
        BY <1>1, <1>2, InRun DEF CycleType
<1>4. /\ start = window_start(db.block) /\ start <= target
      /\ client[c].cycle.logs = LogsIn(chain, "order", start, target)
    BY <1>1, InRun DEF Continues
<1>5. start \in Nat /\ target \in Nat /\ db.block \in Marks /\ chain \in Seq(Kinds)
    BY <1>1, InRun DEF CycleType, Marks, FinalAt
<1>6. /\ start = IF db.block = 0 THEN Deployment ELSE db.block + 1
      /\ LogsIn(chain, "order", Deployment, db.block) \cup client[c].cycle.logs
            = LogsIn(chain, "order", Deployment, target)
    <2>1. start = IF db.block = 0 THEN Deployment ELSE db.block + 1
        BY <1>4 DEF Sound, window_start, base_start
    <2> HIDE DEF start, target
    <2>2. LogsIn(chain, "order", Deployment, db.block) \cup LogsIn(chain, "order", start, target)
            = LogsIn(chain, "order", Deployment, target)
        BY <1>4, <1>5, <2>1, WindowUnion DEF Kinds
    <2> QED
        BY <1>4, <2>1, <2>2
<1>7. LogsIn(chain, "order", Deployment, target) # {} => sets = LogsIn(chain, "set", start, target)
    <2>1. db.rows = LogsIn(chain, "order", Deployment, db.block)
        BY DEF IInv, Copies
    <2> QED
        BY <1>6, <2>1 DEF KnownStores, Cycle
<1>8. StoreIn(chain, target) \subseteq StoreIn(chain, db.block) \cup sets
    <2>1. db.block \in Nat /\ (db.block = 0 \/ db.block >= Deployment)
        BY <1>5, WindowAssumption DEF Marks
    <2> HIDE DEF start, target, sets
    <2> QED
        BY <1>4, <1>5, <1>6, <1>7, <2>1, StoreGrows
<1> HIDE DEF cycle, sets
<1>9. Continues(chain, peak, db, "hash", cycle)
    BY <1>1, <1>3, <1>8, InRun DEF Continues
<1> QED
    BY <1>1, <1>3, <1>9, InRun, GotoKeeps DEF Steps

LEMMA BlockHashKeeps ==
    ASSUME Sound, IInv, NEW c \in Clients, BlockHash(c)
    PROVE  IInv'
PROOF
<1> DEFINE target == client[c].cycle.target
           hash == SubSeq(chain, 1, target)
           cycle == [client[c].cycle EXCEPT !.hash = hash]
<1>1. client[c].pc = "hash" /\ UNCHANGED <<chain, peak, db>>
    BY DEF BlockHash, At
<1>2. CASE target \in DOMAIN chain
    <2>1. Goto(c, "persist", cycle)
        BY <1>2 DEF BlockHash, Cycle, Hash
    <2>2. hash \in Seq(Kinds)
        <3>1. chain \in Seq(Kinds)
            BY <1>1, InRun
        <3>2. target \in 0 .. Len(chain)
            BY <1>2, <3>1
        <3> HIDE DEF target
        <3> QED
            BY <3>1, <3>2, PrefixType
    <2>3. /\ cycle \in CycleType /\ cycle.hash = hash
          /\ cycle.latest = client[c].cycle.latest /\ cycle.logs = client[c].cycle.logs
          /\ cycle.sets = client[c].cycle.sets
          /\ cycle.start = client[c].cycle.start /\ cycle.target = target
        <3> HIDE DEF hash
        <3> QED
            BY <1>1, <2>2, InRun DEF CycleType
    <2> HIDE DEF cycle
    <2>4. Continues(chain, peak, db, "persist", cycle)
        BY <1>1, <2>3, InRun DEF Continues
    <2> QED
        BY <1>1, <2>1, <2>3, <2>4, InRun, GotoKeeps DEF Steps
<1>3. CASE target \notin DOMAIN chain
    <2>1. client' = Ended(c)
        BY <1>3 DEF BlockHash, Cycle
    <2> QED
        BY <1>1, <2>1, EndedKeeps
<1> QED
    BY <1>2, <1>3

-----------------------------------------------------------------------------
(* The transactions                                                        *)

\* An emptied database is a copy of nothing.
LEMMA ClearedCopies ==
    ASSUME IInv, Cleared
    PROVE  Copies(chain, peak, db')
PROOF
<1>1. db'.block = 0 /\ db'.rows = {} /\ db'.sets = {}
    BY DEF Cleared, EmptyDb
<1>2. LogsIn(chain, "order", Deployment, 0) = {}
    BY NoLogs DEF IInv, ChainOK
<1>3. StoreIn(chain, 0) = {}
    BY WindowAssumption DEF StoreIn
<1> QED
    BY <1>1, <1>2, <1>3 DEF Copies, FinalAt

\* A dump that is imported into an empty database is a copy of the chain.
LEMMA ImportedCopies ==
    ASSUME IInv, NEW c \in Clients, Imported(c)
    PROVE  Copies(chain, peak, db') /\ db'.block > db.block
PROOF
<1>1. PICK end \in {n \in DumpEnds : client[c].manifest <= n /\ n <= peak - Depth} :
          db' = [DumpOf(end) EXCEPT !.rows = @ \cup db.rows, !.sets = @ \cup db.sets]
    BY DEF Imported
<1>2. end \in Nat /\ end > 0 /\ FinalAt(peak, end)
    BY <1>1, SyncAssumption, WindowAssumption DEF FinalAt, IInv, ChainOK
<1>3. /\ db'.block = end
      /\ db'.hash = SubSeq(chain, 1, end)
      /\ db'.rows = LogsIn(chain, "order", Deployment, end) \cup db.rows
      /\ db'.sets = StoreIn(chain, end) \cup db.sets
    BY <1>1 DEF DumpOf, LogsOf, StoreLogs, LogsIn, StoreIn, Log, Hash
<1>4. db.block = 0 /\ db.rows = {}
    <2>1. db.block = 0 /\ db.rows = LogsIn(chain, "order", Deployment, 0)
        BY DEF IInv, Copies, Imported
    <2> QED
        BY <2>1, NoLogs DEF IInv, ChainOK
<1> QED
    BY <1>2, <1>3, <1>4 DEF Copies

\* A batch extends the copy to its target.
LEMMA WrittenCopies ==
    ASSUME Sound, IInv, NEW c \in Clients, client[c].pc = "persist", Written(c)
    PROVE  Copies(chain, peak, db')
PROOF
<1> DEFINE start == client[c].cycle.start
           target == client[c].cycle.target
<1>1. /\ start = window_start(db.block) /\ start <= target
      /\ Deployment <= target /\ target + Depth <= peak
      /\ client[c].cycle.logs = LogsIn(chain, "order", start, target)
      /\ StoreIn(chain, target) \subseteq StoreIn(chain, db.block) \cup client[c].cycle.sets
      /\ client[c].cycle.hash = SubSeq(chain, 1, target)
    BY InRun DEF Continues
<1>2. target \in Nat /\ db.block \in Marks /\ chain \in Seq(Kinds)
    BY InRun DEF CycleType, Marks, FinalAt
<1>3. /\ db.rows = LogsIn(chain, "order", Deployment, db.block)
      /\ StoreIn(chain, db.block) \subseteq db.sets
    BY DEF IInv, Copies
<1>4. /\ db'.block = target /\ db'.hash = client[c].cycle.hash
      /\ db'.rows = db.rows \cup client[c].cycle.logs
      /\ db'.sets = db.sets \cup client[c].cycle.sets
    BY DEF Written, Cycle
<1>5. LogsIn(chain, "order", Deployment, db.block) \cup LogsIn(chain, "order", start, target)
        = LogsIn(chain, "order", Deployment, target)
    <2>1. start = IF db.block = 0 THEN Deployment ELSE db.block + 1
        BY <1>1 DEF Sound, window_start, base_start
    <2> HIDE DEF start, target
    <2> QED
        BY <1>1, <1>2, <2>1, WindowUnion DEF Kinds
<1> HIDE DEF start, target
<1> QED
    BY <1>1, <1>2, <1>3, <1>4, <1>5 DEF Copies, FinalAt

\* A transaction after which the run goes on.
LEMMA GotoWrites ==
    ASSUME IInv, NEW c \in Clients, client[c].pc # "idle", NEW pc \in {"import", "window"},
           Goto(c, pc, client[c].cycle), UNCHANGED <<chain, peak>>,
           Copies(chain, peak, db')
    PROVE  IInv'
PROOF
<1> DEFINE new == [client[c] EXCEPT !.pc = pc, !.cycle = client[c].cycle]
<1>1. client[c] \in ClientType
    BY DEF IInv, ClientOK
<1>2. client' = [client EXCEPT ![c] = new]
    BY <1>1 DEF Goto, IInv, ClientOK
<1>3. /\ new \in ClientType
      /\ new.pc = pc /\ new.cycle = client[c].cycle
      /\ new.guard = client[c].guard /\ new.manifest = client[c].manifest
    BY <1>1 DEF ClientType, Steps
<1>4. client[c].cycle.latest <= peak
    BY InRun
<1> HIDE DEF new
<1> QED
    BY <1>2, <1>3, <1>4, WriteKeeps

\* A transaction after which the run ends.
LEMMA EndedWrites ==
    ASSUME IInv, NEW c \in Clients, client[c].pc # "idle",
           client' = Ended(c), UNCHANGED <<chain, peak>>,
           Copies(chain, peak, db')
    PROVE  IInv'
PROOF
<1> DEFINE new == [client[c] EXCEPT !.pc = "idle", !.cycle = NoCycle, !.provisioned = TRUE]
<1>1. client[c] \in ClientType
    BY DEF IInv, ClientOK
<1>2. client' = [client EXCEPT ![c] = new]
    BY <1>1 DEF Ended, IInv, ClientOK
<1>3. /\ new \in ClientType
      /\ new.pc = "idle" /\ new.cycle = NoCycle
      /\ new.guard = client[c].guard /\ new.manifest = client[c].manifest
    BY <1>1, MemoryTypes DEF ClientType, Steps
<1>4. NoCycle.latest <= peak
    BY DEF NoCycle, IInv, ChainOK
<1> HIDE DEF new
<1> QED
    BY <1>2, <1>3, <1>4, WriteKeeps

\* A failed import ends the run too; it may leave the client without its dump.
LEMMA ImportFailedEnds ==
    ASSUME IInv, NEW c \in Clients
    PROVE  \E new \in ClientType :
              /\ ImportFailed(c) = [client EXCEPT ![c] = new]
              /\ new.pc = "idle" /\ new.cycle = NoCycle
              /\ new.guard = client[c].guard /\ new.manifest = client[c].manifest
PROOF
<1> DEFINE end == [client[c] EXCEPT !.pc = "idle", !.cycle = NoCycle, !.provisioned = TRUE]
           tries == client[c].failed + 1
           enough == tries >= MaxImports
           counted == [end EXCEPT !.failed = tries, !.provisioned = enough]
<1>1. client[c] \in ClientType /\ client \in [Clients -> ClientType]
    BY DEF IInv, ClientOK
<1>2. Ended(c) = [client EXCEPT ![c] = end]
    BY <1>1 DEF Ended
<1>3. /\ end \in ClientType
      /\ end.pc = "idle" /\ end.cycle = NoCycle /\ end.failed = client[c].failed
      /\ end.guard = client[c].guard /\ end.manifest = client[c].manifest
    BY <1>1, MemoryTypes DEF ClientType, Steps
<1>4. tries \in Nat /\ enough \in BOOLEAN
    BY <1>1 DEF ClientType
<1> HIDE DEF end
<1>5. /\ counted \in ClientType
      /\ counted.pc = "idle" /\ counted.cycle = NoCycle
      /\ counted.guard = client[c].guard /\ counted.manifest = client[c].manifest
    <2> HIDE DEF tries, enough
    <2> QED
        BY <1>3, <1>4 DEF ClientType
<1>6. CASE Browser
    <2>1. ImportFailed(c) = [[client EXCEPT ![c] = end] EXCEPT ![c] = counted]
        BY <1>1, <1>2, <1>3, <1>6 DEF ImportFailed, ClientType
    <2>2. ImportFailed(c) = [client EXCEPT ![c] = counted]
        BY <1>1, <2>1
    <2> QED
        BY <1>5, <2>2
<1>7. CASE ~Browser
    BY <1>2, <1>3, <1>7 DEF ImportFailed
<1> QED
    BY <1>6, <1>7

LEMMA ImportFailKeeps ==
    ASSUME IInv, NEW c \in Clients, ImportFail(c)
    PROVE  IInv'
PROOF
<1>1. PICK new \in ClientType :
          /\ client' = [client EXCEPT ![c] = new]
          /\ new.pc = "idle" /\ new.cycle = NoCycle
          /\ new.guard = client[c].guard /\ new.manifest = client[c].manifest
    BY ImportFailedEnds DEF ImportFail
<1>2. /\ Continues(chain, peak, db, "idle", NoCycle)
      /\ FinalAt(peak, client[c].manifest)
      /\ UNCHANGED <<chain, peak, db>>
    BY DEF IInv, ChainOK, ClientOK, Continues, NoCycle, ImportFail
<1> QED
    BY <1>1, <1>2, ReadKeeps

-----------------------------------------------------------------------------
(* Every step of a client, and the faults                                  *)

LEMMA ClientKeeps ==
    ASSUME Sound, IInv, NEW c \in Clients, ClientStep(c)
    PROVE  IInv'
PROOF
<1>1. CASE ClearRaindexData(c)
    <2>1. client[c].pc = "clear" /\ Goto(c, "import", client[c].cycle) /\ UNCHANGED <<chain, peak>>
        BY <1>1 DEF ClearRaindexData, At, Cycle
    <2>2. Copies(chain, peak, db')
        BY <1>1, ClearedCopies DEF ClearRaindexData
    <2> QED
        BY <2>1, <2>2, GotoWrites
<1>2. CASE ImportDump(c)
    <2>1. client[c].pc = "import" /\ Goto(c, "window", client[c].cycle) /\ UNCHANGED <<chain, peak>>
        BY <1>2 DEF ImportDump, At, Cycle
    <2>2. Copies(chain, peak, db')
        BY <1>2, <2>1, ImportedCopies DEF ImportDump
    <2> QED
        BY <2>1, <2>2, GotoWrites
<1>3. CASE Persist(c)
    <2>1. client[c].pc = "persist" /\ client' = Ended(c) /\ UNCHANGED <<chain, peak>>
        BY <1>3 DEF Persist, At
    <2>2. Copies(chain, peak, db')
        BY <1>3, <2>1, WrittenCopies DEF Persist
    <2> QED
        BY <2>1, <2>2, EndedWrites
<1>4. CASE PersistConflict(c)
    BY <1>4, EndedKeeps DEF PersistConflict
<1> QED
    BY <1>1, <1>2, <1>3, <1>4, AcquireKeeps, LoadManifestKeeps, RunKeeps, LatestBlockKeeps,
       InspectStateKeeps, CheckThresholdKeeps, ImportFailKeeps, ComputeWindowKeeps,
       FetchRaindexKeeps, FetchStoresKeeps, BlockHashKeeps
    DEF ClientStep

LEMMA CommitUnknownKeeps ==
    ASSUME Sound, IInv, NEW c \in Clients, CommitUnknown(c)
    PROVE  IInv'
PROOF
<1>1. UNCHANGED <<chain, peak>>
    BY DEF CommitUnknown
<1>2. CASE At(c, "clear") /\ Cleared /\ client' = Ended(c)
    <2>1. client[c].pc = "clear" /\ Copies(chain, peak, db')
        BY <1>2, ClearedCopies DEF At
    <2> QED
        BY <1>1, <1>2, <2>1, EndedWrites
<1>3. CASE At(c, "import") /\ Imported(c) /\ client' = ImportFailed(c)
    <2>1. client[c].pc = "import" /\ Copies(chain, peak, db')
        BY <1>3, ImportedCopies DEF At
    <2>2. PICK new \in ClientType :
              /\ client' = [client EXCEPT ![c] = new]
              /\ new.pc = "idle" /\ new.cycle = NoCycle
              /\ new.guard = client[c].guard /\ new.manifest = client[c].manifest
        BY <1>3, ImportFailedEnds
    <2>3. NoCycle.latest <= peak
        BY DEF NoCycle, IInv, ChainOK
    <2> QED
        BY <1>1, <2>1, <2>2, <2>3, WriteKeeps
<1>4. CASE At(c, "persist") /\ Written(c) /\ client' = Ended(c)
    <2>1. client[c].pc = "persist" /\ Copies(chain, peak, db')
        BY <1>4, WrittenCopies DEF At
    <2> QED
        BY <1>1, <1>4, <2>1, EndedWrites
<1> QED
    BY <1>2, <1>3, <1>4 DEF CommitUnknown

LEMMA RestartKeeps ==
    ASSUME IInv, NEW c \in Clients, Restart(c)
    PROVE  IInv'
PROOF
<1>1. client' = [client EXCEPT ![c] = NewClient] /\ UNCHANGED <<chain, peak, db>>
    BY DEF Restart
<1>2. NewClient.pc = "idle" /\ NewClient.guard = "none" /\ NewClient.manifest = 0
      /\ NewClient.cycle = NoCycle
    BY DEF NewClient
<1>3. Continues(chain, peak, db, "idle", NoCycle) /\ FinalAt(peak, 0)
    BY DEF IInv, ChainOK, Continues, NoCycle, FinalAt
<1> QED
    BY <1>1, <1>2, <1>3, MemoryTypes, ReadKeeps

LEMMA InitKeeps ==
    ASSUME Init
    PROVE  IInv
PROOF
<1> USE WindowAssumption, ChainAssumption
<1>1. PICK s \in [1 .. InitHeight -> Kinds] : chain = s
    BY DEF Init, ChainInit
<1>2. chain \in Seq(Kinds) /\ Len(chain) = InitHeight
    BY <1>1
<1>3. ChainOK
    BY <1>2 DEF Init, ChainInit, ChainOK
<1>4. client = [c \in Clients |-> NewClient]
    BY DEF Init
<1>5. /\ NewClient.pc = "idle" /\ NewClient.guard = "none" /\ NewClient.manifest = 0
      /\ NewClient.cycle = NoCycle /\ NoCycle.latest = 0
    BY DEF NewClient, NoCycle
<1>6. ClientOK
    BY <1>4, <1>5, MemoryTypes DEF ClientOK, FinalAt
<1>7. LockOK
    BY <1>4, <1>5 DEF LockOK
<1>8. CyclesOK
    BY <1>3, <1>4, <1>5 DEF CyclesOK, Continues, ChainOK
<1>9. Copies(chain, peak, db)
    <2>1. db.block = 0 /\ db.rows = {} /\ db.sets = {}
        BY DEF Init, EmptyDb
    <2>2. LogsIn(chain, "order", Deployment, 0) = {} /\ StoreIn(chain, 0) = {}
        BY <1>2, NoLogs DEF StoreIn
    <2> QED
        BY <2>1, <2>2 DEF Copies, FinalAt
<1> QED
    BY <1>3, <1>6, <1>7, <1>8, <1>9 DEF IInv

\* The invariant is kept by every step.
LEMMA NextKeeps ==
    ASSUME Sound, IInv, [Next]_vars
    PROVE  IInv'
PROOF
<1>1. CASE ChainNext /\ UNCHANGED <<db, client, faults>>
    BY <1>1, ChainKeeps
<1>2. ASSUME NEW c \in Clients, ClientStep(c)
      PROVE  IInv'
    BY <1>2, ClientKeeps
<1>3. ASSUME NEW c \in Clients, EngineFail(c)
      PROVE  IInv'
    BY <1>3, EndedKeeps DEF EngineFail
<1>4. ASSUME NEW c \in Clients, CommitUnknown(c)
      PROVE  IInv'
    BY <1>4, CommitUnknownKeeps
<1>5. ASSUME NEW c \in Clients, Restart(c)
      PROVE  IInv'
    BY <1>5, RestartKeeps
<1>6. CASE UNCHANGED vars
    BY <1>6 DEF vars, IInv, ChainOK, ClientOK, LockOK, CyclesOK
<1> QED
    BY <1>1, <1>2, <1>3, <1>4, <1>5, <1>6 DEF Next

-----------------------------------------------------------------------------
(* Theorems                                                                *)

\* The inductive invariant holds of every behaviour: the database copies the
\* final chain and every cycle in flight continues it.
THEOREM AlwaysInductive ==
    ASSUME Sound
    PROVE  Spec => []IInv
PROOF
<1>1. Init => IInv
    BY InitKeeps
<1>2. IInv /\ [Next]_vars => IInv'
    BY NextKeeps
<1> QED
    BY <1>1, <1>2, PTL DEF Spec

\* The database holds exactly the raindex's logs of the chain up to its watermark,
\* through failed runs, lost answers, closed clients, dumps and reorganisations.
THEOREM AlwaysFaithful ==
    ASSUME Sound
    PROVE  Spec => []Faithful
PROOF
<1>1. IInv => Faithful
    BY DEF IInv, Copies, Faithful, LogsOf, LogsIn, Log, Hash
<1> QED
    BY <1>1, AlwaysInductive, PTL

\* The watermark is a block of the chain, with the hash that it has there.
THEOREM AlwaysMarkOnChain ==
    ASSUME Sound
    PROVE  Spec => []MarkOnChain
PROOF
<1>1. IInv => MarkOnChain
    <2> SUFFICES ASSUME IInv, db.block # 0
                 PROVE  db.block \in DOMAIN chain /\ db.hash = Hash(db.block)
        BY DEF MarkOnChain
    <2>1. db.hash = SubSeq(chain, 1, db.block)
        BY DEF IInv, Copies
    <2>2. /\ db.block \in Nat /\ Deployment <= db.block /\ db.block + Depth <= peak
          /\ chain \in Seq(Kinds) /\ peak <= Len(chain) + ReorgDepth /\ peak \in Nat
        BY DEF IInv, Copies, FinalAt, ChainOK
    <2>3. db.block \in 1 .. Len(chain)
        BY <2>2, WindowAssumption, ChainAssumption DEF Sound
    <2> QED
        BY <2>1, <2>2, <2>3 DEF Hash
<1> QED
    BY <1>1, AlwaysInductive, PTL

\* No Set event that follows an order is missing from the database.
THEOREM AlwaysStoreSetsComplete ==
    ASSUME Sound
    PROVE  Spec => []StoreSetsComplete
PROOF
<1>1. IInv => StoreSetsComplete
    BY DEF IInv, Copies, StoreSetsComplete, StoreLogs, StoreIn, Log, Hash
<1> QED
    BY <1>1, AlwaysInductive, PTL

\* With Web Locks, every batch is written over the watermark that it was made for.
THEOREM AlwaysSingleWriter ==
    ASSUME Sound
    PROVE  Spec => []SingleWriter
PROOF
<1>1. IInv => SingleWriter
    BY DEF IInv, CyclesOK, Continues, SingleWriter, Cycle
<1> QED
    BY <1>1, AlwaysInductive, PTL

-----------------------------------------------------------------------------
(* The refinement of LocalDbReplica                                        *)

\* A transaction that leaves a copy with a greater mark is an Advance.
LEMMA AdvanceRefines ==
    ASSUME IInv, Copies(chain, peak, db'), db'.block > db.block,
           UNCHANGED <<chain, peak, reorgs>>
    PROVE  Replica!Next
PROOF
<1>1. /\ db'.rows = LogsOf("order", Deployment, db'.block)
      /\ db'.block \in Nat /\ db.block \in Nat
      /\ FinalAt(peak, db'.block) /\ peak \in Nat
    BY DEF IInv, ChainOK, Copies, LogsOf, LogsIn, Log, Hash
<1>2. db'.block \in Deployment .. (peak - Depth)
    BY <1>1, WindowAssumption DEF FinalAt
<1>3. db'.rows = Replica!LogsOf("order", Deployment, db'.block)
    BY <1>1 DEF LogsOf, Log, Hash, Replica!LogsOf, Replica!Log, Replica!Hash
<1> QED
    BY <1>2, <1>3 DEF Replica!Next, Replica!Advance, Replica!chainVars

LEMMA ClearRefines ==
    ASSUME Cleared, UNCHANGED <<chain, peak, reorgs>>
    PROVE  Replica!Next
PROOF
    BY DEF Cleared, EmptyDb, Replica!Next, Replica!Drop, Replica!chainVars

LEMMA ImportRefines ==
    ASSUME IInv, NEW c \in Clients, Imported(c), UNCHANGED <<chain, peak, reorgs>>
    PROVE  Replica!Next
PROOF
    BY ImportedCopies, AdvanceRefines

LEMMA WriteRefines ==
    ASSUME Sound, IInv, NEW c \in Clients, client[c].pc = "persist", Written(c),
           UNCHANGED <<chain, peak, reorgs>>
    PROVE  Replica!Next
PROOF
<1> DEFINE start == client[c].cycle.start
           target == client[c].cycle.target
<1>1. Copies(chain, peak, db')
    BY WrittenCopies
<1>2. db'.block = target
    BY DEF Written, Cycle
<1>3. start = window_start(db.block) /\ start <= target
    BY InRun DEF Continues
<1>4. start \in Nat /\ target \in Nat /\ db.block \in Nat /\ FinalAt(peak, db.block)
    BY InRun DEF CycleType
<1>5. start > db.block
    BY <1>3, <1>4, WindowAssumption DEF Sound, window_start, base_start
<1>6. db'.block > db.block
    BY <1>2, <1>3, <1>4, <1>5
<1> QED
    BY <1>1, <1>6, AdvanceRefines

\* Whatever the clients do, their database is a replica of the final chain whose
\* watermark only moves forward, or that is dropped as a whole.
THEOREM RefinesReplica ==
    ASSUME Sound
    PROVE  Spec => ImplementsReplica
PROOF
<1>1. Init => Replica!Init
    BY DEF Init, EmptyDb, ChainInit, Kinds, Replica!Init, Replica!ChainInit, Replica!Kinds
<1>2. IInv /\ [Next]_vars => [Replica!Next]_(Replica!replicaVars)
    <2> SUFFICES ASSUME IInv, [Next]_vars
                 PROVE  [Replica!Next]_(Replica!replicaVars)
        OBVIOUS
    <2>1. CASE ChainNext /\ UNCHANGED <<db, client, faults>>
        BY <2>1 DEF ChainNext, Grow, Reorg, Kinds, Replica!Next, Replica!ChainNext,
                    Replica!Grow, Replica!Reorg, Replica!Kinds
    <2>2. CASE UNCHANGED <<chain, peak, reorgs, db>>
        BY <2>2 DEF Replica!replicaVars
    <2>3. ASSUME NEW c \in Clients, ClientStep(c)
          PROVE  [Replica!Next]_(Replica!replicaVars)
        <3>1. CASE ClearRaindexData(c)
            BY <3>1, ClearRefines DEF ClearRaindexData
        <3>2. CASE ImportDump(c)
            BY <3>2, ImportRefines DEF ImportDump, At
        <3>3. CASE Persist(c)
            BY <3>3, WriteRefines DEF Persist, At
        <3>4. CASE ~(ClearRaindexData(c) \/ ImportDump(c) \/ Persist(c))
            BY <2>2, <2>3, <3>4
            DEF ClientStep, Acquire, LoadManifest, Run, LatestBlock, InspectState,
                CheckThreshold, ImportFail, ComputeWindow, FetchRaindex, FetchStores,
                BlockHash, PersistConflict
        <3> QED
            BY <3>1, <3>2, <3>3, <3>4
    <2>4. ASSUME NEW c \in Clients, CommitUnknown(c)
          PROVE  [Replica!Next]_(Replica!replicaVars)
        BY <2>4, ClearRefines, ImportRefines, WriteRefines DEF CommitUnknown, At
    <2>5. ASSUME NEW c \in Clients, EngineFail(c) \/ Restart(c)
          PROVE  [Replica!Next]_(Replica!replicaVars)
        BY <2>2, <2>5 DEF EngineFail, Restart
    <2>6. CASE UNCHANGED vars
        BY <2>2, <2>6 DEF vars
    <2> QED
        BY <2>1, <2>3, <2>4, <2>5, <2>6 DEF Next
<1> QED
    BY <1>1, <1>2, AlwaysInductive, PTL DEF Spec, ImplementsReplica, Replica!Spec

-----------------------------------------------------------------------------
(* Types, for every set of clients, dump, override and depth of reorgs     *)

Reading == {"fetch", "stores", "hash", "persist"}

\* What the memory of a client knows at each step: a dump is only on the way while
\* imports are left, and a window ends at a block that was final.
Flow(top, m) ==
    /\ m.failed <= MaxImports
    /\ m.cycle.dump => m.failed < MaxImports
    /\ m.pc \in {"inspect", "bootstrap", "clear", "import"} => m.cycle.dump
    /\ m.cycle.latest <= top
    /\ m.pc \in Reading =>
          /\ Deployment <= m.cycle.start
          /\ m.cycle.start <= m.cycle.target
          /\ m.cycle.target + Depth <= top

Typing ==
    /\ chain \in Seq(Kinds) /\ Len(chain) <= peak
    /\ peak \in Nat /\ peak <= MaxHeight /\ Deployment + Depth <= peak
    /\ reorgs \in Nat /\ faults \in 0 .. MaxFaults
    /\ db.block \in Marks /\ db.block <= MaxHeight
    /\ client \in [Clients -> ClientType]
    /\ \A c \in Clients : Flow(peak, client[c])

LEMMA ClientFields ==
    ASSUME Typing, NEW c \in Clients
    PROVE  /\ client[c] \in ClientType /\ client[c].cycle \in CycleType
           /\ client[c].failed \in Nat /\ client[c].manifest \in Nat
           /\ client[c].cycle.latest \in Nat /\ client[c].cycle.start \in Nat
           /\ client[c].cycle.target \in Nat /\ client[c].cycle.dump \in BOOLEAN
           /\ Flow(peak, client[c])
PROOF
<1>1. client[c] \in ClientType
    BY DEF Typing
<1>2. client[c].cycle \in CycleType /\ client[c].failed \in Nat /\ client[c].manifest \in Nat
    BY <1>1 DEF ClientType
<1>3. /\ client[c].cycle.latest \in Nat /\ client[c].cycle.start \in Nat
      /\ client[c].cycle.target \in Nat /\ client[c].cycle.dump \in BOOLEAN
    BY <1>2 DEF CycleType
<1> QED
    BY <1>1, <1>2, <1>3 DEF Typing

\* A step of one client.
LEMMA MemoryStep ==
    ASSUME Typing, NEW c \in Clients, NEW new \in ClientType, Flow(peak, new),
           client' = [client EXCEPT ![c] = new], UNCHANGED <<chain, peak, reorgs>>,
           db'.block \in Marks, db'.block <= MaxHeight, faults' \in 0 .. MaxFaults
    PROVE  Typing'
PROOF
<1>1. client' \in [Clients -> ClientType]
    BY DEF Typing
<1>2. \A d \in Clients : client'[d] = IF d = c THEN new ELSE client[d]
    BY DEF Typing
<1>3. \A d \in Clients : Flow(peak, client'[d])
    BY <1>2 DEF Typing
<1> QED
    BY <1>1, <1>3 DEF Typing

\* The memory that Goto and Ended leave.
LEMMA GotoMemory ==
    ASSUME Typing, NEW c \in Clients, NEW pc \in Steps, NEW cycle \in CycleType,
           Goto(c, pc, cycle)
    PROVE  \E new \in ClientType :
              /\ client' = [client EXCEPT ![c] = new]
              /\ new.pc = pc /\ new.cycle = cycle /\ new.failed = client[c].failed
              /\ new.manifest = client[c].manifest
PROOF
<1> DEFINE new == [client[c] EXCEPT !.pc = pc, !.cycle = cycle]
<1>1. client[c] \in ClientType
    BY ClientFields
<1>2. client' = [client EXCEPT ![c] = new]
    BY <1>1 DEF Goto, Typing
<1>3. /\ new \in ClientType /\ new.pc = pc /\ new.cycle = cycle
      /\ new.failed = client[c].failed /\ new.manifest = client[c].manifest
    BY <1>1 DEF ClientType
<1> HIDE DEF new
<1> QED
    BY <1>2, <1>3

LEMMA EndedMemory ==
    ASSUME Typing, NEW c \in Clients
    PROVE  \E new \in ClientType :
              /\ Ended(c) = [client EXCEPT ![c] = new]
              /\ new.pc = "idle" /\ new.cycle = NoCycle /\ new.failed = client[c].failed
              /\ new.manifest = client[c].manifest
PROOF
<1> DEFINE new == [client[c] EXCEPT !.pc = "idle", !.cycle = NoCycle, !.provisioned = TRUE]
<1>1. client[c] \in ClientType
    BY ClientFields
<1>2. Ended(c) = [client EXCEPT ![c] = new]
    BY <1>1 DEF Ended, Typing
<1>3. /\ new \in ClientType /\ new.pc = "idle" /\ new.cycle = NoCycle
      /\ new.failed = client[c].failed /\ new.manifest = client[c].manifest
    BY <1>1, MemoryTypes DEF ClientType, Steps
<1> HIDE DEF new
<1> QED
    BY <1>2, <1>3

LEMMA GotoTyped ==
    ASSUME Typing, NEW c \in Clients, NEW pc \in Steps, NEW cycle \in CycleType,
           Goto(c, pc, cycle), UNCHANGED <<chain, peak, reorgs, faults>>,
           db'.block \in Marks, db'.block <= MaxHeight,
           cycle.latest <= peak,
           cycle.dump = client[c].cycle.dump,
           pc \in {"inspect", "bootstrap", "clear", "import"} => cycle.dump,
           pc \in Reading => /\ Deployment <= cycle.start /\ cycle.start <= cycle.target
                             /\ cycle.target + Depth <= peak
    PROVE  Typing'
PROOF
<1>1. PICK new \in ClientType :
          /\ client' = [client EXCEPT ![c] = new]
          /\ new.pc = pc /\ new.cycle = cycle /\ new.failed = client[c].failed
    BY GotoMemory
<1>2. Flow(peak, new)
    BY <1>1, ClientFields DEF Flow
<1>3. faults' \in 0 .. MaxFaults
    BY DEF Typing
<1> QED
    BY <1>1, <1>2, <1>3, MemoryStep

LEMMA EndedTyped ==
    ASSUME Typing, NEW c \in Clients, client' = Ended(c), UNCHANGED <<chain, peak, reorgs>>,
           db'.block \in Marks, db'.block <= MaxHeight, faults' \in 0 .. MaxFaults
    PROVE  Typing'
PROOF
<1>1. PICK new \in ClientType :
          /\ client' = [client EXCEPT ![c] = new]
          /\ new.pc = "idle" /\ new.cycle = NoCycle /\ new.failed = client[c].failed
    BY EndedMemory
<1>2. NoCycle.latest = 0 /\ NoCycle.dump = FALSE
    BY DEF NoCycle
<1>3. Flow(peak, new)
    BY <1>1, <1>2, ClientFields DEF Flow, Reading, Typing
<1> QED
    BY <1>1, <1>3, MemoryStep

\* A failed import is counted, and was the last of MaxImports at most.
LEMMA ImportFailedTyped ==
    ASSUME Typing, NEW c \in Clients, client[c].pc = "import", client' = ImportFailed(c),
           UNCHANGED <<chain, peak, reorgs>>,
           db'.block \in Marks, db'.block <= MaxHeight, faults' \in 0 .. MaxFaults
    PROVE  Typing'
PROOF
<1>1. CASE ~Browser
    BY <1>1, EndedTyped DEF ImportFailed
<1>2. CASE Browser
    <2>1. PICK end \in ClientType :
              /\ Ended(c) = [client EXCEPT ![c] = end]
              /\ end.pc = "idle" /\ end.cycle = NoCycle /\ end.failed = client[c].failed
        BY EndedMemory
    <2>2. client[c].failed \in Nat /\ client[c].failed < MaxImports
        BY ClientFields DEF Flow
    <2> DEFINE tries == client[c].failed + 1
               enough == tries >= MaxImports
               new == [end EXCEPT !.failed = tries, !.provisioned = enough]
    <2>3. tries \in Nat /\ tries <= MaxImports /\ enough \in BOOLEAN
        BY <2>2, SyncAssumption
    <2>4. client' = [[client EXCEPT ![c] = end] EXCEPT ![c].failed = tries,
                                                      ![c].provisioned = enough]
        BY <1>2, <2>1 DEF ImportFailed, Typing, ClientType
    <2> HIDE DEF tries, enough
    <2>5. client' = [client EXCEPT ![c] = new]
        BY <2>1, <2>4 DEF Typing, ClientType
    <2>6. new \in ClientType /\ new.pc = "idle" /\ new.cycle = NoCycle /\ new.failed = tries
        BY <2>1, <2>3 DEF ClientType
    <2> HIDE DEF new
    <2>7. NoCycle.latest = 0 /\ NoCycle.dump = FALSE
        BY DEF NoCycle
    <2>8. Flow(peak, new)
        BY <2>3, <2>6, <2>7 DEF Flow, Reading, Typing
    <2> QED
        BY <2>5, <2>6, <2>8, MemoryStep
<1> QED
    BY <1>1, <1>2

\* The window that a cycle computes is typed, whatever the overrides.
LEMMA WindowTyped ==
    ASSUME Typing, NEW latest \in Nat, latest <= peak,
           NEW start, start = window_start(db.block),
           NEW target, target = window_target(start, latest), ~(start > target)
    PROVE  /\ start \in Nat /\ Deployment <= start /\ start <= target
           /\ target \in Nat /\ target + Depth <= peak
PROOF
<1> USE WindowAssumption
<1>1. db.block \in Marks /\ peak \in Nat /\ Deployment + Depth <= peak
    BY DEF Typing
<1>2. start \in Nat /\ target \in Int
    BY <1>1, SafeHeadFinal DEF window_start, base_start, Most, Marks, NoBlock, window_target,
       Least, requested_end_block
<1>3. start <= target
    BY <1>2
<1>4. /\ target \in Marks /\ start >= Deployment
      /\ target <= requested_end_block(latest)
    BY <1>1, <1>3, WindowBounds
<1>5. /\ safe_head(latest) \in Nat /\ requested_end_block(latest) \in Nat
      /\ requested_end_block(latest) <= safe_head(latest)
    BY SafeHeadFinal DEF requested_end_block, Least, NoBlock
<1>6. safe_head(latest) + Depth <= peak
    BY <1>1, SafeHeadFinal
<1>7. target \in Nat
    BY <1>4 DEF Marks
<1> QED
    BY <1>1, <1>2, <1>3, <1>4, <1>5, <1>6, <1>7

\* The databases that transactions leave are typed.
LEMMA WritesTyped ==
    ASSUME Typing, NEW c \in Clients
    PROVE  /\ Cleared => db'.block = 0
           /\ Imported(c) => db'.block \in Marks /\ db'.block <= MaxHeight
           /\ Written(c) => db'.block = client[c].cycle.target
           /\ client[c].pc = "persist" =>
                client[c].cycle.target \in Marks /\ client[c].cycle.target <= MaxHeight
           /\ 0 \in Marks /\ 0 <= MaxHeight
PROOF
<1> USE WindowAssumption, ChainAssumption
<1>1. Cleared => db'.block = 0
    BY DEF Cleared, EmptyDb
<1>2. ASSUME Imported(c)
      PROVE  db'.block \in Marks /\ db'.block <= MaxHeight
    <2>1. PICK end \in {n \in DumpEnds : client[c].manifest <= n /\ n <= peak - Depth} :
              db' = [DumpOf(end) EXCEPT !.rows = @ \cup db.rows, !.sets = @ \cup db.sets]
        BY <1>2 DEF Imported
    <2>2. db'.block = end
        BY <2>1 DEF DumpOf
    <2>3. end \in Nat /\ end >= Deployment /\ end <= peak - Depth
        BY <2>1, SyncAssumption
    <2>4. peak \in Nat /\ peak <= MaxHeight
        BY DEF Typing
    <2> QED
        BY <2>2, <2>3, <2>4 DEF Marks
<1>3. Written(c) => db'.block = client[c].cycle.target
    BY DEF Written, Cycle
<1>4. ASSUME client[c].pc = "persist"
      PROVE  client[c].cycle.target \in Marks /\ client[c].cycle.target <= MaxHeight
    <2>1. /\ client[c].cycle.target \in Nat /\ client[c].cycle.start \in Nat
          /\ Deployment <= client[c].cycle.start
          /\ client[c].cycle.start <= client[c].cycle.target
          /\ client[c].cycle.target + Depth <= peak
        BY <1>4, ClientFields DEF Flow, Reading
    <2>2. peak \in Nat /\ peak <= MaxHeight
        BY DEF Typing
    <2> QED
        BY <2>1, <2>2 DEF Marks
<1>5. 0 \in Marks /\ 0 <= MaxHeight
    BY DEF Marks
<1> QED
    BY <1>1, <1>2, <1>3, <1>4, <1>5

LEMMA ChainTyped ==
    ASSUME Typing, ChainNext, UNCHANGED <<db, client, faults>>
    PROVE  Typing'
PROOF
<1> USE WindowAssumption, ChainAssumption
<1>1. /\ chain' \in Seq(Kinds) /\ Len(chain') <= peak' /\ peak <= peak' /\ peak' \in Nat
      /\ peak' <= MaxHeight /\ reorgs' \in Nat
    <2>1. CASE Grow
        <3>1. PICK k \in Kinds : chain' = Append(chain, k)
            BY <2>1 DEF Grow
        <3>2. chain' \in Seq(Kinds) /\ Len(chain') = Len(chain) + 1
            BY <3>1 DEF Typing
        <3> QED
            BY <2>1, <3>2 DEF Grow, Typing
    <2>2. CASE Reorg
        <3>1. PICK m \in Deployment .. Len(chain) - 1, k \in Kinds :
                  chain' = Append(SubSeq(chain, 1, m), k)
            BY <2>2 DEF Reorg
        <3>2. m \in 0 .. Len(chain) /\ chain \in Seq(Kinds)
            BY <3>1 DEF Typing
        <3>3. SubSeq(chain, 1, m) \in Seq(Kinds) /\ Len(SubSeq(chain, 1, m)) = m
            BY <3>2, PrefixType
        <3>4. chain' \in Seq(Kinds) /\ Len(chain') = m + 1
            BY <3>1, <3>3
        <3> QED
            BY <2>2, <3>1, <3>4 DEF Reorg, Typing
    <2> QED
        BY <2>1, <2>2 DEF ChainNext
<1>2. \A c \in Clients : Flow(peak', client[c])
    <2> SUFFICES ASSUME NEW c \in Clients
                 PROVE  Flow(peak', client[c])
        OBVIOUS
    <2> QED
        BY <1>1, ClientFields DEF Flow, Typing
<1> QED
    BY <1>1, <1>2 DEF Typing

LEMMA RunnerTyped ==
    ASSUME Typing, NEW c \in Clients, Acquire(c) \/ LoadManifest(c) \/ Run(c)
    PROVE  Typing'
PROOF
<1>1. client[c] \in ClientType /\ client \in [Clients -> ClientType] /\ Flow(peak, client[c])
    BY ClientFields DEF Typing
<1>2. db.block \in Marks /\ db.block <= MaxHeight /\ faults \in 0 .. MaxFaults
    BY DEF Typing
<1>3. CASE Acquire(c)
    <2>1. PICK g \in {"none", "lock", "noop"} : client' = [client EXCEPT ![c].guard = g]
        BY <1>3 DEF Acquire
    <2> DEFINE new == [client[c] EXCEPT !.guard = g]
    <2>2. client' = [client EXCEPT ![c] = new]
        BY <1>1, <2>1
    <2>3. /\ new \in ClientType /\ new.pc = client[c].pc /\ new.cycle = client[c].cycle
          /\ new.failed = client[c].failed
        BY <1>1 DEF ClientType
    <2> HIDE DEF new
    <2>4. Flow(peak, new)
        BY <1>1, <2>3 DEF Flow
    <2> QED
        BY <1>2, <1>3, <2>2, <2>3, <2>4, MemoryStep DEF Acquire
<1>4. CASE LoadManifest(c)
    <2>1. PICK end \in {0} \cup {n \in DumpEnds : n <= peak - Depth} :
              client' = [client EXCEPT ![c].loaded = TRUE, ![c].manifest = end]
        BY <1>4 DEF LoadManifest
    <2>2. end \in Nat
        BY <2>1, SyncAssumption
    <2> DEFINE new == [client[c] EXCEPT !.loaded = TRUE, !.manifest = end]
    <2>3. client' = [client EXCEPT ![c] = new]
        BY <1>1, <2>1
    <2>4. /\ new \in ClientType /\ new.pc = client[c].pc /\ new.cycle = client[c].cycle
          /\ new.failed = client[c].failed
        BY <1>1, <2>2 DEF ClientType
    <2> HIDE DEF new
    <2>5. Flow(peak, new)
        BY <1>1, <2>4 DEF Flow
    <2> QED
        BY <1>2, <1>4, <2>3, <2>4, <2>5, MemoryStep DEF LoadManifest
<1>5. CASE Run(c)
    <2> DEFINE wanted == /\ ~client[c].provisioned /\ client[c].manifest # 0
                         /\ should_download_dump(c) /\ client[c].failed < MaxImports
    <2>1. wanted \in BOOLEAN
        BY DEF should_download_dump
    <2> DEFINE cycle == [NoCycle EXCEPT !.dump = wanted]
    <2>2. Goto(c, "latest", cycle)
        BY <1>5 DEF Run
    <2>3. wanted => client[c].failed < MaxImports
        OBVIOUS
    <2> HIDE DEF wanted
    <2>4. cycle \in CycleType /\ cycle.latest = 0 /\ cycle.dump = wanted
        BY <2>1, MemoryTypes DEF CycleType, NoCycle
    <2> HIDE DEF cycle
    <2>5. PICK new \in ClientType :
              /\ client' = [client EXCEPT ![c] = new]
              /\ new.pc = "latest" /\ new.cycle = cycle /\ new.failed = client[c].failed
        BY <2>2, <2>4, GotoMemory DEF Steps
    <2>6. Flow(peak, new)
        BY <1>1, <2>3, <2>4, <2>5 DEF Flow, Reading, Typing
    <2> QED
        BY <1>2, <1>5, <2>5, <2>6, MemoryStep DEF Run
<1> QED
    BY <1>3, <1>4, <1>5

\* The steps of the engine that only read.
LEMMA EngineReadsTyped ==
    ASSUME Typing, NEW c \in Clients,
           \/ LatestBlock(c) \/ InspectState(c) \/ CheckThreshold(c) \/ ComputeWindow(c)
           \/ FetchRaindex(c) \/ FetchStores(c) \/ BlockHash(c)
    PROVE  Typing'
PROOF
<1> DEFINE m == client[c].cycle
<1>1. /\ m \in CycleType /\ m.latest \in Nat /\ m.start \in Nat /\ m.target \in Nat
      /\ m.dump \in BOOLEAN /\ Flow(peak, client[c])
    BY ClientFields
<1>2. /\ db.block \in Marks /\ db.block <= MaxHeight /\ faults \in 0 .. MaxFaults
      /\ chain \in Seq(Kinds) /\ Len(chain) <= peak /\ db.block \in Nat
    BY DEF Typing, Marks
<1>3. UNCHANGED <<chain, peak, reorgs, db, faults>>
    BY DEF LatestBlock, InspectState, CheckThreshold, ComputeWindow, FetchRaindex, FetchStores,
           BlockHash
<1>4. CASE LatestBlock(c)
    <2> DEFINE cycle == [m EXCEPT !.latest = Len(chain)]
               pc == IF m.dump THEN "inspect" ELSE "window"
    <2>1. Goto(c, pc, cycle)
        BY <1>4 DEF LatestBlock, Cycle
    <2>2. cycle \in CycleType /\ cycle.latest = Len(chain) /\ cycle.dump = m.dump
        <3>1. Len(chain) \in Nat
            BY <1>2
        <3> QED
            BY <1>1, <3>1 DEF CycleType
    <2>3. pc \in Steps /\ pc \in {"inspect", "window"} /\ (pc = "inspect" => m.dump)
        BY DEF Steps
    <2> HIDE DEF cycle, pc
    <2> QED
        BY <1>2, <1>3, <2>1, <2>2, <2>3, GotoTyped DEF Reading
<1>5. CASE InspectState(c)
    <2> DEFINE cycle == [m EXCEPT !.seen = db.block]
    <2>1. Goto(c, "bootstrap", cycle) /\ client[c].pc = "inspect"
        BY <1>5 DEF InspectState, Cycle, At
    <2>2. cycle \in CycleType /\ cycle.latest = m.latest /\ cycle.dump = m.dump
        BY <1>1, <1>2 DEF CycleType
    <2>3. m.dump /\ m.latest <= peak
        BY <1>1, <2>1 DEF Flow
    <2> HIDE DEF cycle
    <2> QED
        BY <1>2, <1>3, <2>1, <2>2, <2>3, GotoTyped DEF Reading, Steps
<1>6. CASE CheckThreshold(c)
    <2>1. client[c].pc = "bootstrap" /\ \E pc \in {"import", "clear", "window"} : Goto(c, pc, m)
        BY <1>6 DEF CheckThreshold, Cycle, At
    <2>2. PICK pc \in {"import", "clear", "window"} : Goto(c, pc, m)
        BY <2>1
    <2>3. m.dump /\ m.latest <= peak
        BY <1>1, <2>1 DEF Flow
    <2> QED
        BY <1>1, <1>2, <1>3, <2>2, <2>3, GotoTyped DEF Reading, Steps
<1>7. CASE ComputeWindow(c)
    <2> DEFINE start == window_start(db.block)
               target == window_target(start, m.latest)
               cycle == [m EXCEPT !.start = start, !.target = target]
    <2>1. m.latest <= peak
        BY <1>1 DEF Flow
    <2>2. CASE start > target
        <3>1. client' = Ended(c)
            BY <1>7, <2>2 DEF ComputeWindow, Cycle
        <3> QED
            BY <1>2, <1>3, <3>1, EndedTyped
    <2>3. CASE ~(start > target)
        <3>1. Goto(c, "fetch", cycle)
            BY <1>7, <2>3 DEF ComputeWindow, Cycle
        <3>2. /\ start \in Nat /\ Deployment <= start /\ start <= target
              /\ target \in Nat /\ target + Depth <= peak
            BY <1>1, <2>1, <2>3, WindowTyped
        <3> HIDE DEF start, target
        <3>3. /\ cycle \in CycleType /\ cycle.latest = m.latest /\ cycle.dump = m.dump
              /\ cycle.start = start /\ cycle.target = target
            BY <1>1, <3>2 DEF CycleType
        <3> HIDE DEF cycle
        <3> QED
            BY <1>2, <1>3, <2>1, <3>1, <3>2, <3>3, GotoTyped DEF Steps
    <2> QED
        BY <2>2, <2>3
<1>8. CASE FetchRaindex(c)
    <2> DEFINE logs == LogsIn(chain, "order", m.start, m.target)
               cycle == [m EXCEPT !.logs = logs]
    <2>1. client[c].pc = "fetch" /\ Goto(c, "stores", cycle)
        BY <1>8 DEF FetchRaindex, At, Cycle, LogsOf, LogsIn, Log, Hash
    <2>2. logs \subseteq LogType
        BY <1>2, LogsType
    <2> HIDE DEF logs
    <2>3. /\ cycle \in CycleType /\ cycle.latest = m.latest /\ cycle.dump = m.dump
          /\ cycle.start = m.start /\ cycle.target = m.target
        BY <1>1, <2>2 DEF CycleType
    <2> HIDE DEF cycle
    <2>4. m.latest <= peak /\ Deployment <= m.start /\ m.start <= m.target /\ m.target + Depth <= peak
        BY <1>1, <2>1 DEF Flow, Reading
    <2> QED
        BY <1>2, <1>3, <2>1, <2>3, <2>4, GotoTyped DEF Steps
<1>9. CASE FetchStores(c)
    <2> DEFINE sets == IF KnownStores(c) THEN LogsIn(chain, "set", m.start, m.target) ELSE {}
               cycle == [m EXCEPT !.sets = sets]
    <2>1. client[c].pc = "stores" /\ Goto(c, "hash", cycle)
        BY <1>9 DEF FetchStores, At, Cycle, LogsOf, LogsIn, Log, Hash
    <2>2. sets \subseteq LogType
        BY <1>2, LogsType
    <2> HIDE DEF sets
    <2>3. /\ cycle \in CycleType /\ cycle.latest = m.latest /\ cycle.dump = m.dump
          /\ cycle.start = m.start /\ cycle.target = m.target
        BY <1>1, <2>2 DEF CycleType
    <2> HIDE DEF cycle
    <2>4. m.latest <= peak /\ Deployment <= m.start /\ m.start <= m.target /\ m.target + Depth <= peak
        BY <1>1, <2>1 DEF Flow, Reading
    <2> QED
        BY <1>2, <1>3, <2>1, <2>3, <2>4, GotoTyped DEF Steps
<1>10. CASE BlockHash(c)
    <2> DEFINE hash == SubSeq(chain, 1, m.target)
               cycle == [m EXCEPT !.hash = hash]
    <2>1. CASE m.target \notin DOMAIN chain
        <3>1. client' = Ended(c)
            BY <1>10, <2>1 DEF BlockHash, Cycle
        <3> QED
            BY <1>2, <1>3, <3>1, EndedTyped
    <2>2. CASE m.target \in DOMAIN chain
        <3>1. client[c].pc = "hash" /\ Goto(c, "persist", cycle)
            BY <1>10, <2>2 DEF BlockHash, At, Cycle, Hash
        <3>2. hash \in Seq(Kinds)
            <4>1. m.target \in 0 .. Len(chain)
                BY <1>2, <2>2
            <4> HIDE DEF m
            <4> QED
                BY <1>2, <4>1, PrefixType
        <3> HIDE DEF hash
        <3>3. /\ cycle \in CycleType /\ cycle.latest = m.latest /\ cycle.dump = m.dump
              /\ cycle.start = m.start /\ cycle.target = m.target
            BY <1>1, <3>2 DEF CycleType
        <3> HIDE DEF cycle
        <3>4. m.latest <= peak /\ Deployment <= m.start /\ m.start <= m.target /\ m.target + Depth <= peak
            BY <1>1, <3>1 DEF Flow, Reading
        <3> QED
            BY <1>2, <1>3, <3>1, <3>3, <3>4, GotoTyped DEF Steps
    <2> QED
        BY <2>1, <2>2
<1> QED
    BY <1>4, <1>5, <1>6, <1>7, <1>8, <1>9, <1>10

\* The steps that write, fail or close a client.
LEMMA EngineWritesTyped ==
    ASSUME Typing, NEW c \in Clients,
           \/ ClearRaindexData(c) \/ ImportDump(c) \/ ImportFail(c) \/ Persist(c)
           \/ PersistConflict(c) \/ EngineFail(c) \/ CommitUnknown(c) \/ Restart(c)
    PROVE  Typing'
PROOF
<1> DEFINE m == client[c].cycle
<1>1. m \in CycleType /\ m.dump \in BOOLEAN /\ m.latest <= peak /\ Flow(peak, client[c])
    BY ClientFields DEF Flow
<1>2. db.block \in Marks /\ db.block <= MaxHeight /\ faults \in 0 .. MaxFaults
    BY DEF Typing
<1>3. UNCHANGED <<chain, peak, reorgs>>
    BY DEF ClearRaindexData, ImportDump, ImportFail, Persist, PersistConflict, EngineFail,
           CommitUnknown, Restart
<1>4. faults < MaxFaults => faults + 1 \in 0 .. MaxFaults
    BY <1>2, SyncAssumption
<1>5. CASE ClearRaindexData(c)
    <2>1. /\ client[c].pc = "clear" /\ Cleared /\ Goto(c, "import", m) /\ UNCHANGED faults
        BY <1>5 DEF ClearRaindexData, At, Cycle
    <2>2. m.dump /\ db'.block \in Marks /\ db'.block <= MaxHeight
        BY <1>1, <2>1, WritesTyped DEF Flow
    <2> QED
        BY <1>1, <1>3, <2>1, <2>2, GotoTyped DEF Reading, Steps
<1>6. CASE ImportDump(c)
    <2>1. /\ Imported(c) /\ Goto(c, "window", m) /\ UNCHANGED faults
        BY <1>6 DEF ImportDump, At, Cycle
    <2>2. db'.block \in Marks /\ db'.block <= MaxHeight
        BY <2>1, WritesTyped
    <2> QED
        BY <1>1, <1>3, <2>1, <2>2, GotoTyped DEF Reading, Steps
<1>7. CASE ImportFail(c)
    BY <1>2, <1>3, <1>7, ImportFailedTyped DEF ImportFail, At
<1>8. CASE Persist(c)
    <2>1. client[c].pc = "persist" /\ Written(c) /\ client' = Ended(c) /\ UNCHANGED faults
        BY <1>8 DEF Persist, At
    <2>2. db'.block \in Marks /\ db'.block <= MaxHeight
        BY <2>1, WritesTyped
    <2> QED
        BY <1>2, <1>3, <2>1, <2>2, EndedTyped
<1>9. CASE PersistConflict(c)
    BY <1>2, <1>3, <1>9, EndedTyped DEF PersistConflict
<1>10. CASE EngineFail(c)
    BY <1>2, <1>3, <1>4, <1>10, EndedTyped DEF EngineFail
<1>11. CASE CommitUnknown(c)
    <2>1. faults' \in 0 .. MaxFaults
        BY <1>4, <1>11 DEF CommitUnknown
    <2>2. CASE At(c, "clear") /\ Cleared /\ client' = Ended(c)
        BY <1>3, <2>1, <2>2, WritesTyped, EndedTyped
    <2>3. CASE At(c, "import") /\ Imported(c) /\ client' = ImportFailed(c)
        BY <1>3, <2>1, <2>3, WritesTyped, ImportFailedTyped DEF At
    <2>4. CASE At(c, "persist") /\ Written(c) /\ client' = Ended(c)
        BY <1>3, <2>1, <2>4, WritesTyped, EndedTyped DEF At
    <2> QED
        BY <1>11, <2>2, <2>3, <2>4 DEF CommitUnknown
<1>12. CASE Restart(c)
    <2>1. /\ client' = [client EXCEPT ![c] = NewClient] /\ UNCHANGED db
          /\ faults' \in 0 .. MaxFaults
        BY <1>4, <1>12 DEF Restart
    <2>2. NewClient \in ClientType /\ Flow(peak, NewClient)
        BY MemoryTypes, SyncAssumption DEF NewClient, NoCycle, Flow, Reading, Typing
    <2> QED
        BY <1>2, <1>3, <2>1, <2>2, MemoryStep
<1> QED
    BY <1>5, <1>6, <1>7, <1>8, <1>9, <1>10, <1>11, <1>12

LEMMA InitTyped == Init => Typing
PROOF
<1> SUFFICES ASSUME Init
             PROVE  Typing
    OBVIOUS
<1> USE WindowAssumption, ChainAssumption, SyncAssumption
<1>1. chain \in Seq(Kinds) /\ Len(chain) = InitHeight
    <2>1. PICK s \in [1 .. InitHeight -> Kinds] : chain = s
        BY DEF Init, ChainInit
    <2> QED
        BY <2>1
<1>2. NewClient \in ClientType /\ Flow(peak, NewClient)
    BY MemoryTypes DEF NewClient, NoCycle, Flow, Reading, Init, ChainInit
<1>3. client = [c \in Clients |-> NewClient] /\ db.block = 0 /\ faults = 0
    BY DEF Init, EmptyDb
<1>4. peak = InitHeight /\ reorgs = 0
    BY DEF Init, ChainInit
<1> QED
    BY <1>1, <1>2, <1>3, <1>4 DEF Typing, Marks

LEMMA NextTyped == Typing /\ [Next]_vars => Typing'
PROOF
<1> SUFFICES ASSUME Typing, [Next]_vars
             PROVE  Typing'
    OBVIOUS
<1>1. CASE UNCHANGED vars
    BY <1>1 DEF vars, Typing
<1>2. CASE ChainNext /\ UNCHANGED <<db, client, faults>>
    BY <1>2, ChainTyped
<1>3. ASSUME NEW c \in Clients, ClientStep(c) \/ EngineFail(c) \/ CommitUnknown(c) \/ Restart(c)
      PROVE  Typing'
    BY <1>3, RunnerTyped, EngineReadsTyped, EngineWritesTyped DEF ClientStep
<1> QED
    BY <1>1, <1>2, <1>3 DEF Next

\* Types, whoever holds a lock and however deep the reorganisations: no more
\* imports fail than the code allows, and no watermark lies beyond the chain's
\* greatest height.
THEOREM AlwaysTyped == Spec => []TypeOK
PROOF
<1>1. Typing => TypeOK
    <2> SUFFICES ASSUME Typing
                 PROVE  TypeOK
        OBVIOUS
    <2>1. \A c \in Clients : /\ client[c].pc \in Steps
                             /\ client[c].guard \in {"none", "lock", "noop"}
                             /\ client[c].failed \in 0 .. MaxImports
        BY ClientFields, SyncAssumption DEF ClientType, Flow
    <2>2. db.block \in 0 .. MaxHeight
        BY ChainAssumption DEF Typing, Marks
    <2> QED
        BY <2>1, <2>2 DEF TypeOK, Typing
<1> QED
    BY <1>1, InitTyped, NextTyped, PTL DEF Spec

-----------------------------------------------------------------------------
(* Writers without a lock                                                  *)

\* No dump is published, no final block is replaced, the window has no start
\* override; any client may be without its lock.
FromChain == DumpEnds = {} /\ ReorgDepth <= Depth /\ StartBlock = NoBlock

\* A window starts where rows that were there when it was computed end, and rows
\* are only ever added.
Builds(ch, rows, m) ==
    /\ m.manifest = 0 /\ ~m.cycle.dump
    /\ m.pc \in Reading =>
          LogsIn(ch, "order", Deployment, m.cycle.start - 1) \subseteq rows
    /\ m.pc \in Reading \ {"fetch"} =>
          m.cycle.logs = LogsIn(ch, "order", m.cycle.start, m.cycle.target)

Filled ==
    /\ ChainOK
    /\ FinalAt(peak, db.block)
    /\ LogsIn(chain, "order", Deployment, db.block) \subseteq db.rows
    /\ \A c \in Clients : Builds(chain, db.rows, client[c])

\* A chain that changes above the final blocks.
LEMMA ChainFills ==
    ASSUME FromChain, Typing, Filled, ChainNext, UNCHANGED <<db, client, faults>>
    PROVE  Filled'
PROOF
<1> USE WindowAssumption
<1>1. ChainOK' /\ peak <= peak' /\ Agree(chain, chain', peak - Depth)
    BY ChainStep DEF Filled, FromChain
<1>2. /\ chain \in Seq(Kinds) /\ chain' \in Seq(Kinds) /\ peak \in Nat /\ peak' \in Nat
      /\ peak - Depth \in Nat
    BY <1>1 DEF Filled, ChainOK
<1>3. db.block \in Nat /\ db.block <= peak - Depth
    BY <1>2 DEF Filled, FinalAt, Typing, Marks
<1>4. LogsIn(chain, "order", Deployment, db.block) = LogsIn(chain', "order", Deployment, db.block)
    BY <1>1, <1>2, <1>3, AgreeLogs
<1>5. FinalAt(peak', db.block)
    BY <1>1, <1>2, <1>3 DEF Filled, FinalAt
<1>6. ASSUME NEW c \in Clients
      PROVE  Builds(chain', db.rows, client[c])
    <2> DEFINE start == client[c].cycle.start
               target == client[c].cycle.target
    <2>1. Builds(chain, db.rows, client[c])
        BY DEF Filled
    <2>2. start \in Nat /\ target \in Nat /\ Flow(peak, client[c])
        BY ClientFields
    <2>3. CASE client[c].pc \in Reading
        <3>1. Deployment <= start /\ start <= target /\ target <= peak - Depth
            BY <1>2, <2>2, <2>3 DEF Flow
        <3>2. start - 1 \in Nat /\ start - 1 <= peak - Depth
            BY <1>2, <2>2, <3>1
        <3> HIDE DEF start, target
        <3>3. LogsIn(chain, "order", Deployment, start - 1)
                = LogsIn(chain', "order", Deployment, start - 1)
            BY <1>1, <1>2, <3>2, AgreeLogs
        <3>4. LogsIn(chain, "order", start, target) = LogsIn(chain', "order", start, target)
            BY <1>1, <1>2, <2>2, <3>1, AgreeLogs
        <3> QED
            BY <2>1, <3>3, <3>4 DEF Builds, start, target
    <2>4. CASE client[c].pc \notin Reading
        BY <2>1, <2>4 DEF Builds
    <2> QED
        BY <2>3, <2>4
<1> QED
    BY <1>1, <1>4, <1>5, <1>6 DEF Filled

\* A step of one client that keeps every row.
LEMMA MemoryFills ==
    ASSUME Typing, Filled, NEW c \in Clients, NEW new, client' = [client EXCEPT ![c] = new],
           UNCHANGED <<chain, peak>>, db.rows \subseteq db'.rows, Builds(chain, db'.rows, new),
           FinalAt(peak, db'.block),
           LogsIn(chain, "order", Deployment, db'.block) \subseteq db'.rows
    PROVE  Filled'
PROOF
<1>1. \A d \in Clients : client'[d] = IF d = c THEN new ELSE client[d]
    BY DEF Typing
<1>2. \A d \in Clients : Builds(chain, db'.rows, client'[d])
    <2> SUFFICES ASSUME NEW d \in Clients, d # c
                 PROVE  Builds(chain, db'.rows, client[d])
        BY <1>1
    <2> QED
        BY DEF Filled, Builds
<1>3. ChainOK'
    BY DEF Filled, ChainOK
<1> QED
    BY <1>2, <1>3 DEF Filled

LEMMA ReadFills ==
    ASSUME Typing, Filled, NEW c \in Clients, NEW new, client' = [client EXCEPT ![c] = new],
           UNCHANGED <<chain, peak, db>>, Builds(chain, db.rows, new)
    PROVE  Filled'
PROOF
    BY MemoryFills DEF Filled

LEMMA EndedFills ==
    ASSUME Typing, Filled, NEW c \in Clients, client' = Ended(c), UNCHANGED <<chain, peak>>,
           db.rows \subseteq db'.rows, FinalAt(peak, db'.block),
           LogsIn(chain, "order", Deployment, db'.block) \subseteq db'.rows
    PROVE  Filled'
PROOF
<1>1. PICK new \in ClientType :
          /\ client' = [client EXCEPT ![c] = new]
          /\ new.pc = "idle" /\ new.cycle = NoCycle /\ new.manifest = client[c].manifest
    BY EndedMemory
<1>2. Builds(chain, db'.rows, new)
    BY <1>1 DEF Filled, Builds, Reading, NoCycle
<1> QED
    BY <1>1, <1>2, MemoryFills

LEMMA GotoFills ==
    ASSUME Typing, Filled, NEW c \in Clients, NEW pc \in Steps, NEW cycle \in CycleType,
           Goto(c, pc, cycle), UNCHANGED <<chain, peak, db>>, ~cycle.dump,
           pc \in Reading => LogsIn(chain, "order", Deployment, cycle.start - 1) \subseteq db.rows,
           pc \in Reading \ {"fetch"} =>
              cycle.logs = LogsIn(chain, "order", cycle.start, cycle.target)
    PROVE  Filled'
PROOF
<1>1. PICK new \in ClientType :
          /\ client' = [client EXCEPT ![c] = new]
          /\ new.pc = pc /\ new.cycle = cycle /\ new.manifest = client[c].manifest
    BY GotoMemory
<1>2. Builds(chain, db.rows, new)
    BY <1>1 DEF Filled, Builds
<1> QED
    BY <1>1, <1>2, ReadFills

\* A batch reaches down to rows that are there, wherever the watermark is by now.
LEMMA WrittenFills ==
    ASSUME Typing, Filled, NEW c \in Clients, client[c].pc = "persist", Written(c),
           UNCHANGED <<chain, peak>>
    PROVE  /\ db.rows \subseteq db'.rows
           /\ FinalAt(peak, db'.block)
           /\ LogsIn(chain, "order", Deployment, db'.block) \subseteq db'.rows
PROOF
<1> DEFINE start == client[c].cycle.start
           target == client[c].cycle.target
<1> USE WindowAssumption
<1>1. /\ LogsIn(chain, "order", Deployment, start - 1) \subseteq db.rows
      /\ client[c].cycle.logs = LogsIn(chain, "order", start, target)
    BY DEF Filled, Builds, Reading
<1>2. /\ start \in Nat /\ target \in Nat /\ Deployment <= start /\ start <= target
      /\ target + Depth <= peak
    BY ClientFields DEF Flow, Reading
<1>3. db'.block = target /\ db'.rows = db.rows \cup client[c].cycle.logs
    BY DEF Written, Cycle
<1>4. chain \in Seq(Kinds)
    BY DEF Typing
<1> HIDE DEF start, target
<1> DEFINE mid == start - 1
<1>5. mid \in Int /\ Deployment <= mid + 1 /\ mid <= target /\ mid + 1 = start
    BY <1>2
<1> HIDE DEF mid
<1>6. LogsIn(chain, "order", Deployment, mid) \cup LogsIn(chain, "order", mid + 1, target)
        = LogsIn(chain, "order", Deployment, target)
    BY <1>2, <1>4, <1>5, LogsUnion
<1> QED
    BY <1>1, <1>2, <1>3, <1>5, <1>6 DEF FinalAt, mid

LEMMA RunnerFills ==
    ASSUME FromChain, Typing, Filled, NEW c \in Clients, Acquire(c) \/ LoadManifest(c) \/ Run(c)
    PROVE  Filled'
PROOF
<1>1. client[c] \in ClientType /\ client \in [Clients -> ClientType]
    BY ClientFields DEF Typing
<1>2. Builds(chain, db.rows, client[c]) /\ client[c].manifest = 0
    BY DEF Filled, Builds
<1>3. CASE Acquire(c)
    <2>1. PICK g \in {"none", "lock", "noop"} : client' = [client EXCEPT ![c].guard = g]
        BY <1>3 DEF Acquire
    <2> DEFINE new == [client[c] EXCEPT !.guard = g]
    <2>2. client' = [client EXCEPT ![c] = new]
        BY <1>1, <2>1
    <2>3. /\ new.pc = client[c].pc /\ new.cycle = client[c].cycle
          /\ new.manifest = client[c].manifest
        BY <1>1 DEF ClientType
    <2> HIDE DEF new
    <2>4. Builds(chain, db.rows, new)
        BY <1>2, <2>3 DEF Builds
    <2> QED
        BY <1>3, <2>2, <2>4, ReadFills DEF Acquire
<1>4. CASE LoadManifest(c)
    <2>1. client' = [client EXCEPT ![c].loaded = TRUE, ![c].manifest = 0]
        BY <1>4 DEF LoadManifest, FromChain
    <2> DEFINE new == [client[c] EXCEPT !.loaded = TRUE, !.manifest = 0]
    <2>2. client' = [client EXCEPT ![c] = new]
        BY <1>1, <2>1
    <2>3. new.pc = client[c].pc /\ new.cycle = client[c].cycle /\ new.manifest = 0
        BY <1>1 DEF ClientType
    <2> HIDE DEF new
    <2>4. Builds(chain, db.rows, new)
        BY <1>2, <2>3 DEF Builds
    <2> QED
        BY <1>4, <2>2, <2>4, ReadFills DEF LoadManifest
<1>5. CASE Run(c)
    <2> DEFINE cycle == [NoCycle EXCEPT !.dump = FALSE]
    <2>1. Goto(c, "latest", cycle)
        BY <1>2, <1>5 DEF Run
    <2>2. cycle \in CycleType /\ ~cycle.dump
        BY MemoryTypes DEF CycleType, NoCycle
    <2> HIDE DEF cycle
    <2> QED
        BY <1>5, <2>1, <2>2, GotoFills DEF Steps, Reading, Run
<1> QED
    BY <1>3, <1>4, <1>5

LEMMA EngineReadsFill ==
    ASSUME FromChain, Typing, Filled, NEW c \in Clients,
           \/ LatestBlock(c) \/ InspectState(c) \/ CheckThreshold(c) \/ ComputeWindow(c)
           \/ FetchRaindex(c) \/ FetchStores(c) \/ BlockHash(c)
    PROVE  Filled'
PROOF
<1> DEFINE m == client[c].cycle
<1>1. /\ m \in CycleType /\ m.latest \in Nat /\ m.start \in Nat /\ m.target \in Nat
      /\ Flow(peak, client[c])
    BY ClientFields
<1>2. Builds(chain, db.rows, client[c]) /\ ~m.dump
    BY DEF Filled, Builds
<1>3. /\ db.block \in Marks /\ chain \in Seq(Kinds)
      /\ FinalAt(peak, db.block)
      /\ LogsIn(chain, "order", Deployment, db.block) \subseteq db.rows
    BY DEF Typing, Filled
<1>4. UNCHANGED <<chain, peak, reorgs, db, faults>>
    BY DEF LatestBlock, InspectState, CheckThreshold, ComputeWindow, FetchRaindex, FetchStores,
           BlockHash
<1>5. CASE LatestBlock(c)
    <2> DEFINE cycle == [m EXCEPT !.latest = Len(chain)]
    <2>1. Goto(c, "window", cycle)
        BY <1>2, <1>5 DEF LatestBlock, Cycle
    <2>2. cycle \in CycleType /\ ~cycle.dump
        <3>1. Len(chain) \in Nat
            BY <1>3
        <3> QED
            BY <1>1, <1>2, <3>1 DEF CycleType
    <2> HIDE DEF cycle
    <2> QED
        BY <1>4, <2>1, <2>2, GotoFills DEF Reading, Steps
<1>6. CASE InspectState(c) \/ CheckThreshold(c)
    <2>1. m.dump
        BY <1>1, <1>6 DEF InspectState, CheckThreshold, At, Flow
    <2> QED
        BY <1>2, <2>1
<1>7. CASE ComputeWindow(c)
    <2> DEFINE start == window_start(db.block)
               target == window_target(start, m.latest)
               cycle == [m EXCEPT !.start = start, !.target = target]
    <2>1. m.latest <= peak
        BY <1>1 DEF Flow
    <2>2. CASE start > target
        <3>1. client' = Ended(c)
            BY <1>7, <2>2 DEF ComputeWindow, Cycle
        <3> QED
            BY <1>3, <1>4, <3>1, EndedFills
    <2>3. CASE ~(start > target)
        <3>1. Goto(c, "fetch", cycle)
            BY <1>7, <2>3 DEF ComputeWindow, Cycle
        <3>2. start \in Nat /\ target \in Nat /\ Deployment <= start
            BY <1>1, <2>1, <2>3, WindowTyped
        <3>3. start = IF db.block = 0 THEN Deployment ELSE db.block + 1
            BY DEF FromChain, window_start, base_start
        <3>4. LogsIn(chain, "order", Deployment, start - 1) \subseteq db.rows
            <4> HIDE DEF start
            <4>1. CASE db.block = 0
                <5>1. start = Deployment
                    BY <3>3, <4>1
                <5>2. \A k \in DOMAIN chain : k \in Nat /\ ~(Deployment <= k /\ k <= start - 1)
                    BY <1>3, <5>1, WindowAssumption
                <5>3. LogsIn(chain, "order", Deployment, start - 1) = {}
                    BY <5>2 DEF LogsIn
                <5> QED
                    BY <5>3
            <4>2. CASE db.block # 0
                <5>1. start - 1 = db.block
                    BY <1>3, <3>3, <4>2 DEF Marks
                <5> QED
                    BY <1>3, <5>1
            <4> QED
                BY <4>1, <4>2
        <3> HIDE DEF start, target
        <3>5. cycle \in CycleType /\ ~cycle.dump /\ cycle.start = start
            BY <1>1, <1>2, <3>2 DEF CycleType
        <3> HIDE DEF cycle
        <3> QED
            BY <1>4, <3>1, <3>4, <3>5, GotoFills DEF Steps
    <2> QED
        BY <2>2, <2>3
<1>8. CASE FetchRaindex(c)
    <2> DEFINE logs == LogsIn(chain, "order", m.start, m.target)
               cycle == [m EXCEPT !.logs = logs]
    <2>1. client[c].pc = "fetch" /\ Goto(c, "stores", cycle)
        BY <1>8 DEF FetchRaindex, At, Cycle, LogsOf, LogsIn, Log, Hash
    <2>2. logs \subseteq LogType
        BY <1>3, LogsType
    <2>3. LogsIn(chain, "order", Deployment, m.start - 1) \subseteq db.rows
        BY <1>2, <2>1 DEF Builds, Reading
    <2>4. /\ cycle \in CycleType /\ ~cycle.dump /\ cycle.logs = logs
          /\ cycle.start = m.start /\ cycle.target = m.target
        <3> HIDE DEF logs
        <3> QED
            BY <1>1, <1>2, <2>2 DEF CycleType
    <2> HIDE DEF cycle
    <2> QED
        BY <1>4, <2>1, <2>3, <2>4, GotoFills DEF Steps
<1>9. CASE FetchStores(c)
    <2> DEFINE sets == IF KnownStores(c) THEN LogsIn(chain, "set", m.start, m.target) ELSE {}
               cycle == [m EXCEPT !.sets = sets]
    <2>1. client[c].pc = "stores" /\ Goto(c, "hash", cycle)
        BY <1>9 DEF FetchStores, At, Cycle, LogsOf, LogsIn, Log, Hash
    <2>2. sets \subseteq LogType
        BY <1>3, LogsType
    <2> HIDE DEF sets
    <2>3. /\ LogsIn(chain, "order", Deployment, m.start - 1) \subseteq db.rows
          /\ m.logs = LogsIn(chain, "order", m.start, m.target)
        BY <1>2, <2>1 DEF Builds, Reading
    <2>4. /\ cycle \in CycleType /\ ~cycle.dump /\ cycle.logs = m.logs
          /\ cycle.start = m.start /\ cycle.target = m.target
        BY <1>1, <1>2, <2>2 DEF CycleType
    <2> HIDE DEF cycle
    <2> QED
        BY <1>4, <2>1, <2>3, <2>4, GotoFills DEF Steps
<1>10. CASE BlockHash(c)
    <2> DEFINE hash == SubSeq(chain, 1, m.target)
               cycle == [m EXCEPT !.hash = hash]
    <2>1. CASE m.target \notin DOMAIN chain
        <3>1. client' = Ended(c)
            BY <1>10, <2>1 DEF BlockHash, Cycle
        <3> QED
            BY <1>3, <1>4, <3>1, EndedFills
    <2>2. CASE m.target \in DOMAIN chain
        <3>1. client[c].pc = "hash" /\ Goto(c, "persist", cycle)
            BY <1>10, <2>2 DEF BlockHash, At, Cycle, Hash
        <3>2. hash \in Seq(Kinds)
            <4>1. m.target \in 0 .. Len(chain)
                BY <1>3, <2>2
            <4> HIDE DEF m
            <4> QED
                BY <1>3, <4>1, PrefixType
        <3> HIDE DEF hash
        <3>3. /\ LogsIn(chain, "order", Deployment, m.start - 1) \subseteq db.rows
              /\ m.logs = LogsIn(chain, "order", m.start, m.target)
            BY <1>2, <3>1 DEF Builds, Reading
        <3>4. /\ cycle \in CycleType /\ ~cycle.dump /\ cycle.logs = m.logs
              /\ cycle.start = m.start /\ cycle.target = m.target
            BY <1>1, <1>2, <3>2 DEF CycleType
        <3> HIDE DEF cycle
        <3> QED
            BY <1>4, <3>1, <3>3, <3>4, GotoFills DEF Steps
    <2> QED
        BY <2>1, <2>2
<1> QED
    BY <1>5, <1>6, <1>7, <1>8, <1>9, <1>10

LEMMA EngineWritesFill ==
    ASSUME FromChain, Typing, Filled, NEW c \in Clients,
           \/ ClearRaindexData(c) \/ ImportDump(c) \/ ImportFail(c) \/ Persist(c)
           \/ PersistConflict(c) \/ EngineFail(c) \/ CommitUnknown(c) \/ Restart(c)
    PROVE  Filled'
PROOF
<1>1. client[c].pc \notin {"clear", "import"}
    <2>1. ~client[c].cycle.dump /\ Flow(peak, client[c])
        BY ClientFields DEF Filled, Builds
    <2> QED
        BY <2>1 DEF Flow
<1>2. FinalAt(peak, db.block) /\ LogsIn(chain, "order", Deployment, db.block) \subseteq db.rows
    BY DEF Filled
<1>3. ~(ClearRaindexData(c) \/ ImportDump(c) \/ ImportFail(c))
    BY <1>1 DEF ClearRaindexData, ImportDump, ImportFail, At
<1>4. CASE PersistConflict(c) \/ EngineFail(c)
    BY <1>2, <1>4, EndedFills DEF PersistConflict, EngineFail
<1>5. CASE Persist(c)
    <2>1. client[c].pc = "persist" /\ Written(c) /\ client' = Ended(c) /\ UNCHANGED <<chain, peak>>
        BY <1>5 DEF Persist, At
    <2> QED
        BY <2>1, WrittenFills, EndedFills
<1>6. CASE CommitUnknown(c)
    <2>1. client[c].pc = "persist" /\ Written(c) /\ client' = Ended(c) /\ UNCHANGED <<chain, peak>>
        BY <1>1, <1>6 DEF CommitUnknown, At
    <2> QED
        BY <2>1, WrittenFills, EndedFills
<1>7. CASE Restart(c)
    <2>1. client' = [client EXCEPT ![c] = NewClient] /\ UNCHANGED <<chain, peak, db>>
        BY <1>7 DEF Restart
    <2>2. Builds(chain, db.rows, NewClient)
        BY DEF Builds, NewClient, NoCycle, Reading
    <2> QED
        BY <2>1, <2>2, ReadFills
<1> QED
    BY <1>3, <1>4, <1>5, <1>6, <1>7

\* Whoever writes, with a lock or without, and wherever a slower writer leaves the
\* watermark: a database that is filled from the chain alone holds every log of the
\* raindex up to its watermark.
THEOREM NeverMissesALog ==
    ASSUME FromChain
    PROVE  Spec => []NoLogMissed
PROOF
<1>1. Init => Filled
    <2> SUFFICES ASSUME Init
                 PROVE  Filled
        OBVIOUS
    <2>1. ChainOK
        BY InitKeeps DEF IInv
    <2>2. db.block = 0 /\ client = [c \in Clients |-> NewClient]
        BY DEF Init, EmptyDb
    <2>3. LogsIn(chain, "order", Deployment, 0) = {}
        BY <2>1, NoLogs DEF ChainOK
    <2>4. Builds(chain, db.rows, NewClient)
        BY DEF Builds, NewClient, NoCycle, Reading
    <2> QED
        BY <2>1, <2>2, <2>3, <2>4 DEF Filled, FinalAt
<1>2. Typing /\ Filled /\ [Next]_vars => Filled'
    <2> SUFFICES ASSUME Typing, Filled, [Next]_vars
                 PROVE  Filled'
        OBVIOUS
    <2>1. CASE UNCHANGED vars
        BY <2>1 DEF vars, Filled, ChainOK
    <2>2. CASE ChainNext /\ UNCHANGED <<db, client, faults>>
        BY <2>2, ChainFills
    <2>3. ASSUME NEW c \in Clients, ClientStep(c) \/ EngineFail(c) \/ CommitUnknown(c) \/ Restart(c)
          PROVE  Filled'
        BY <2>3, RunnerFills, EngineReadsFill, EngineWritesFill DEF ClientStep
    <2> QED
        BY <2>1, <2>2, <2>3 DEF Next
<1>3. Filled => NoLogMissed
    BY DEF Filled, NoLogMissed, LogsOf, LogsIn, Log, Hash
<1> QED
    BY <1>1, <1>2, <1>3, InitTyped, NextTyped, PTL DEF Spec
=============================================================================
