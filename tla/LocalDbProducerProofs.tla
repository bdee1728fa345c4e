------------------------ MODULE LocalDbProducerProofs ------------------------
(***************************************************************************)
(* What the producer publishes is consistent and is never lost, for every  *)
(* set of targets, finality depth, chain length and lag of the RPCs.       *)
(***************************************************************************)
EXTENDS LocalDbProducer, TLAPS

\* While jobs run, the manifest they fetched is the published one: only one
\* producer runs, and it publishes after its run.
PrevCurrent == phase = "jobs" => prev = remote.entry

\* A dump file that lies in out_root is at least as recent as the published one
\* of a target that has an entry.
OutNotBehind ==
    \A t \in Target :
        remote.entry[t] # NoEntry /\ out.dump[t] # NoDump => out.dump[t] >= remote.dump[t]

\* What a job knows of its database at each of its steps.
JobSound(t) ==
    /\ job[t].pc \in {"engine", "export", "watermark", "done"} /\ prev[t] # NoEntry
          => job[t].mark >= remote.dump[t]
    /\ job[t].pc \in {"export", "watermark", "done"}
          => job[t].end <= job[t].mark /\ job[t].mark > 0
    /\ job[t].pc \in {"watermark", "done"} => out.dump[t] = job[t].mark

JobsSound == phase = "jobs" => \A t \in Target : JobSound(t)

\* The manifest that waits for publication states what the dumps beside it, or
\* the published ones where there are none, hold, and loses no entry.
ReadySound(t) ==
    /\ out.entry[t] # NoEntry =>
          /\ out.entry[t].end <= out.entry[t].hash
          /\ IF out.dump[t] # NoDump THEN out.entry[t].hash <= out.dump[t]
                                     ELSE out.entry[t].hash <= remote.dump[t]
    /\ remote.entry[t] # NoEntry => out.entry[t] # NoEntry

Ready == phase = "publish" => \A t \in Target : ReadySound(t)

IInv == TypeOK /\ EndNotAhead /\ PrevCurrent /\ OutNotBehind /\ JobsSound /\ Ready

\* One cycle never ends before the mark it started from, reports no block past
\* the mark it leaves, and always leaves one.
LEMMA CycleSound ==
    ASSUME NEW mark \in Nat, NEW latest \in Nat
    PROVE  LET start  == window_start(mark)
               target == window_target(start, latest)
               after  == IF start > target THEN mark ELSE target
           IN  /\ CycleEnd(start, latest) \in Nat
               /\ after \in Nat /\ after >= mark /\ after > 0
               /\ CycleEnd(start, latest) <= after
PROOF
<1> DEFINE start == window_start(mark)
           target == window_target(start, latest)
<1>1. target = safe_head(latest) /\ target \in Nat /\ target >= Deployment
    BY WindowAssumption, ProducerAssumption
       DEF window_target, requested_end_block, safe_head, Most, NoBlock
<1>2. start = IF mark = 0 THEN Deployment ELSE mark + 1
    BY ProducerAssumption DEF window_start, base_start
<1> QED
    BY <1>1, <1>2, WindowAssumption DEF CycleEnd

LEMMA InitIInv == Init => IInv
PROOF
    BY DEF Init, IInv, TypeOK, Files, Entry, NoFiles, NoEntry, NoDump, IdleJob,
           Job, Running, EndNotAhead, PrevCurrent, OutNotBehind, JobsSound, Ready

LEMMA GrowIInv == IInv /\ Grow => IInv'
PROOF
    BY DEF Grow, IInv, TypeOK, EndNotAhead, PrevCurrent, OutNotBehind, JobsSound,
           JobSound, Ready, ReadySound

LEMMA StartIInv == IInv /\ Start => IInv'
PROOF
<1> SUFFICES ASSUME IInv, Start PROVE IInv'
    OBVIOUS
<1> USE DEF IInv, Start
<1>0. NoFiles \in Files /\ out' \in Files
    BY DEF NoFiles, Files, Entry, NoEntry, NoDump, TypeOK
<1>1. TypeOK'
    BY <1>0 DEF TypeOK, IdleJob, Job, Running, Files
<1>2. EndNotAhead' /\ PrevCurrent' /\ Ready'
    BY DEF EndNotAhead, PrevCurrent, Ready
<1>3. OutNotBehind'
    BY DEF OutNotBehind, NoFiles, NoDump
<1>4. JobsSound'
    BY DEF JobsSound, JobSound, IdleJob
<1> QED
    BY <1>1, <1>2, <1>3, <1>4

LEMMA DownloadIInv == ASSUME NEW t \in Target PROVE IInv /\ Download(t) => IInv'
PROOF
<1> SUFFICES ASSUME IInv, Download(t) PROVE IInv'
    OBVIOUS
<1> USE DEF IInv, Download
<1>0. job[t] \in Job /\ remote.dump[t] \in Nat
    BY DEF TypeOK, Files
<1>a. [job[t] EXCEPT !.pc = "engine",
                     !.mark = IF prev[t] = NoEntry THEN 0 ELSE remote.dump[t]] \in Job
    BY <1>0 DEF Job, Running
<1>1. TypeOK'
    BY <1>a DEF TypeOK
<1>2. EndNotAhead' /\ PrevCurrent' /\ OutNotBehind' /\ Ready'
    BY DEF EndNotAhead, PrevCurrent, OutNotBehind, Ready
<1>3. ASSUME NEW u \in Target PROVE JobSound(u)'
    BY <1>3 DEF JobsSound, JobSound, TypeOK, Job, Files
<1> QED
    BY <1>1, <1>2, <1>3 DEF JobsSound

LEMMA RunEngineIInv == ASSUME NEW t \in Target PROVE IInv /\ RunEngine(t) => IInv'
PROOF
<1> SUFFICES ASSUME IInv, RunEngine(t) PROVE IInv'
    OBVIOUS
<1> USE DEF IInv
<1>1. PICK latest \in Most(head - Lag, 0)..head :
          job' = [job EXCEPT
             ![t].pc = "export",
             ![t].end = CycleEnd(window_start(job[t].mark), latest),
             ![t].mark = IF window_start(job[t].mark)
                              > window_target(window_start(job[t].mark), latest)
                         THEN @
                         ELSE window_target(window_start(job[t].mark), latest)]
    BY DEF RunEngine
<1>2. latest \in Nat /\ job[t].mark \in Nat
    BY ProducerAssumption DEF Most, TypeOK, Job
<1>3. PICK end \in Nat, after \in Nat :
          /\ after >= job[t].mark /\ after > 0 /\ end <= after
          /\ job' = [job EXCEPT ![t].pc = "export", ![t].end = end, ![t].mark = after]
    BY <1>1, <1>2, CycleSound
<1>4. phase = "jobs" /\ job[t].pc = "engine" /\ UNCHANGED <<head, remote, out, prev, phase>>
    BY DEF RunEngine
<1>a. job[t] \in Job
    BY DEF TypeOK
<1>b. \A e, m \in Nat :
         [job[t] EXCEPT !.pc = "export", !.end = e, !.mark = m] \in Job
    BY <1>a DEF Job, Running
<1>5. TypeOK'
    BY <1>3, <1>4, <1>b DEF TypeOK
<1>6. EndNotAhead' /\ PrevCurrent' /\ OutNotBehind' /\ Ready'
    BY <1>4 DEF EndNotAhead, PrevCurrent, OutNotBehind, Ready
<1>7. ASSUME NEW u \in Target PROVE JobSound(u)'
    BY <1>3, <1>4 DEF JobsSound, JobSound, TypeOK, Job, Files
<1> QED
    BY <1>5, <1>6, <1>7 DEF JobsSound

LEMMA ExportIInv == ASSUME NEW t \in Target PROVE IInv /\ Export(t) => IInv'
PROOF
<1> SUFFICES ASSUME IInv, Export(t) PROVE IInv'
    OBVIOUS
<1> USE DEF IInv, Export
<1>1. TypeOK'
    BY DEF TypeOK, Job, Running, Files
<1>2. EndNotAhead' /\ PrevCurrent' /\ Ready'
    BY DEF EndNotAhead, PrevCurrent, Ready
<1>3. OutNotBehind'
    BY DEF OutNotBehind, TypeOK, Job, Files, JobsSound, JobSound, PrevCurrent
<1>4. ASSUME NEW u \in Target PROVE JobSound(u)'
    BY DEF JobsSound, JobSound, TypeOK, Job, Files
<1> QED
    BY <1>1, <1>2, <1>3, <1>4 DEF JobsSound

LEMMA MovesIInv ==
    ASSUME NEW t \in Target
    PROVE  IInv /\ (ReadWatermark(t) \/ JobFails(t)) => IInv'
PROOF
<1> SUFFICES ASSUME IInv, ReadWatermark(t) \/ JobFails(t) PROVE IInv'
    OBVIOUS
<1> USE DEF IInv
<1>1. PICK pc \in {"done", "failed"} :
          /\ job' = [job EXCEPT ![t].pc = pc]
          /\ pc = "done" => job[t].pc = "watermark"
          /\ UNCHANGED <<head, remote, out, prev, phase>>
    BY DEF ReadWatermark, JobFails
<1>2. TypeOK'
    BY <1>1 DEF TypeOK, Job, Running
<1>3. EndNotAhead' /\ PrevCurrent' /\ OutNotBehind' /\ Ready'
    BY <1>1 DEF EndNotAhead, PrevCurrent, OutNotBehind, Ready, ReadySound
<1>4. ASSUME NEW u \in Target, phase = "jobs" PROVE JobSound(u)'
    <2>1. JobSound(u)
        BY <1>4 DEF JobsSound
    <2>2. /\ job'[u].mark = job[u].mark /\ job'[u].end = job[u].end
          /\ job'[u].pc = job[u].pc \/ job'[u].pc = "failed"
             \/ (job'[u].pc = "done" /\ job[u].pc = "watermark")
        BY <1>1 DEF TypeOK, Job
    <2> QED
        BY <1>1, <2>1, <2>2 DEF JobSound
<1> QED
    BY <1>1, <1>2, <1>3, <1>4 DEF JobsSound

LEMMA CrashIInv == IInv /\ Crash => IInv'
PROOF
    BY DEF Crash, IInv, TypeOK, EndNotAhead, PrevCurrent, OutNotBehind, JobsSound, Ready

LEMMA BuildManifestIInv == IInv /\ BuildManifest => IInv'
PROOF
<1> SUFFICES ASSUME IInv, BuildManifest PROVE IInv'
    OBVIOUS
<1> DEFINE entries == [t \in Target |-> ManifestEntry(t)]
<1> USE DEF IInv
<1>1. /\ phase = "jobs" /\ phase' # "jobs" /\ phase' \in {"idle", "publish"}
      /\ \A t \in Target : job[t].pc \in {"done", "failed"}
      /\ UNCHANGED <<head, remote, prev, job>>
      /\ out'.dump = out.dump
      /\ phase' = "publish" => out'.entry = entries
      /\ out' = out \/ out' = [out EXCEPT !.entry = entries]
    BY DEF BuildManifest, TypeOK, Files
<1>2. entries \in [Target -> Entry]
    BY DEF ManifestEntry, TypeOK, Job, Entry
<1>3. TypeOK'
    BY <1>1, <1>2 DEF TypeOK, Files
<1>4. EndNotAhead' /\ PrevCurrent' /\ OutNotBehind' /\ JobsSound'
    BY <1>1 DEF EndNotAhead, PrevCurrent, OutNotBehind, JobsSound
<1>5. ASSUME NEW t \in Target, phase' = "publish" PROVE ReadySound(t)'
    <2>1. out'.entry[t] = ManifestEntry(t) /\ JobSound(t) /\ prev[t] = remote.entry[t]
        BY <1>1, <1>5 DEF JobsSound, PrevCurrent
    <2>2. CASE job[t].pc = "done"
        BY <1>1, <2>1, <2>2 DEF ManifestEntry, JobSound, ReadySound, NoEntry, NoDump, TypeOK, Job
    <2>3. CASE job[t].pc = "failed"
        <3>1. out'.entry[t] = remote.entry[t]
            BY <2>1, <2>3 DEF ManifestEntry
        <3>2. remote.dump[t] \in Nat /\ out.dump[t] \in Nat /\ remote.entry[t] \in Entry
            BY DEF TypeOK, Files
        <3> QED
            BY <1>1, <3>1, <3>2 DEF ReadySound, EndNotAhead, OutNotBehind, Entry
    <2> QED
        BY <1>1, <2>2, <2>3
<1> QED
    BY <1>3, <1>4, <1>5 DEF Ready

LEMMA UploadDumpIInv == ASSUME NEW t \in Target PROVE IInv /\ UploadDump(t) => IInv'
PROOF
<1> SUFFICES ASSUME IInv, UploadDump(t) PROVE IInv'
    OBVIOUS
<1> USE DEF IInv, UploadDump
<1>1. TypeOK'
    BY DEF TypeOK, Files
<1>2. EndNotAhead'
    BY DEF EndNotAhead, OutNotBehind, TypeOK, Files, Entry
<1>3. PrevCurrent' /\ JobsSound'
    BY DEF PrevCurrent, JobsSound
<1>4. OutNotBehind'
    BY DEF OutNotBehind, TypeOK, Files
<1>5. ASSUME NEW u \in Target PROVE ReadySound(u)'
    BY DEF Ready, ReadySound, TypeOK, Files, Entry
<1> QED
    BY <1>1, <1>2, <1>3, <1>4, <1>5 DEF Ready

LEMMA UploadManifestIInv == IInv /\ UploadManifest => IInv'
PROOF
<1> SUFFICES ASSUME IInv, UploadManifest PROVE IInv'
    OBVIOUS
<1> USE DEF IInv, UploadManifest
<1>1. TypeOK'
    BY DEF TypeOK, Files
<1>2. EndNotAhead'
    BY DEF EndNotAhead, Ready, ReadySound, TypeOK, Files, Entry
<1>3. PrevCurrent' /\ JobsSound' /\ Ready'
    BY DEF PrevCurrent, JobsSound, Ready
<1>4. OutNotBehind'
    BY DEF OutNotBehind, TypeOK, Files
<1> QED
    BY <1>1, <1>2, <1>3, <1>4

LEMMA NextIInv == IInv /\ [Next]_vars => IInv'
PROOF
<1>1. IInv /\ UNCHANGED vars => IInv'
    BY DEF IInv, vars, TypeOK, EndNotAhead, PrevCurrent, OutNotBehind, JobsSound,
           JobSound, Ready, ReadySound
<1> QED
    BY <1>1, GrowIInv, StartIInv, CrashIInv, DownloadIInv, RunEngineIInv, ExportIInv,
       MovesIInv, BuildManifestIInv, UploadDumpIInv, UploadManifestIInv DEF Next

\* The inductive invariant holds throughout.
THEOREM ProducerInvariant == Spec => []IInv
PROOF
    BY InitIInv, NextIInv, PTL DEF Spec

\* The published manifest never states more of a dump than the dump holds
\* (export.rs, manifest.rs), whatever fails and however uploads interleave.
THEOREM ProducerEndNotAhead == Spec => []EndNotAhead
PROOF
<1>1. IInv => EndNotAhead
    BY DEF IInv
<1> QED
    BY <1>1, ProducerInvariant, PTL

\* No run takes an entry away or publishes an older dump for one (build_manifest).
THEOREM ProducerPublishedKept == Spec => PublishedKept
PROOF
<1> DEFINE Kept == \A t \in Target :
              remote.entry[t] # NoEntry =>
                 remote'.entry[t] # NoEntry /\ remote'.dump[t] >= remote.dump[t]
<1>1. IInv /\ [Next]_vars => [Kept]_vars
    <2> SUFFICES ASSUME IInv, Next PROVE Kept
        OBVIOUS
    <2>0. remote \in Files
        BY DEF IInv, TypeOK
    <2>1. CASE \E t \in Target : UploadDump(t)
        BY <2>1 DEF UploadDump, IInv, TypeOK, Files, OutNotBehind
    <2>2. CASE UploadManifest
        BY <2>2 DEF UploadManifest, IInv, TypeOK, Files, Ready, ReadySound
    <2>3. CASE UNCHANGED remote
        BY <2>0, <2>3 DEF Files
    <2> QED
        BY <2>1, <2>2, <2>3
           DEF Next, Grow, Start, BuildManifest, Crash, Download, RunEngine, Export,
               ReadWatermark, JobFails
<1> QED
    BY <1>1, ProducerInvariant, PTL DEF Spec, PublishedKept
=============================================================================
