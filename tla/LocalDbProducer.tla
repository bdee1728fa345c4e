--------------------------- MODULE LocalDbProducer ---------------------------
(***************************************************************************)
(* The producer of the local DB's dumps (crates/cli/src/commands/local_db):*)
(* a run of `local-db sync` fetches the published manifest, runs one job   *)
(* per target (download the dump the manifest names, import it into a      *)
(* clean database, run one cycle of the sync engine, export a dump) and    *)
(* writes a manifest that lays the new dumps over the old entries.  The    *)
(* files are then published, dumps first, as the command's README asks.    *)
(*                                                                         *)
(* A dump is the watermark it holds, 0 when there is no file.  An entry    *)
(* of the manifest is the end block it states and the block whose hash it  *)
(* states.  One producer runs at a time; files are uploaded whole.         *)
(***************************************************************************)
EXTENDS LocalDbWindow

CONSTANTS
    Target,   \* the raindexes of the settings
    MaxHead,  \* bound: blocks of the chain
    Lag       \* bound: blocks an RPC may be behind the chain

\* build_runner_targets gives every target the default overrides and no cap.
ASSUME ProducerAssumption ==
    /\ MaxHead \in Nat \ {0}
    /\ Lag \in Nat
    /\ StartBlock = NoBlock /\ EndBlock = NoBlock /\ MaxBlocks = 0

VARIABLES
    head,    \* latest block of the chain
    remote,  \* what is published: dump[t] and entry[t] of the manifest
    out,     \* the same under out_root
    prev,    \* the entries that the run fetched (ManifestMap)
    job,     \* job[t]: step of run_raindex_job, its database's mark, its outcome
    phase    \* where the run is

vars == <<head, remote, out, prev, job, phase>>

NoEntry == [end |-> 0, hash |-> 0]

NoDump == 0

IdleJob == [pc |-> "idle", mark |-> 0, end |-> 0]

Running == {"download", "engine", "export", "watermark"}

Entry == [end : Nat, hash : Nat]

Files == [dump : [Target -> Nat], entry : [Target -> Entry]]

Job == [pc : Running \cup {"idle", "done", "failed"}, mark : Nat, end : Nat]

TypeOK ==
    /\ head \in Nat
    /\ remote \in Files
    /\ out \in Files
    /\ prev \in [Target -> Entry]
    /\ job \in [Target -> Job]
    /\ phase \in {"idle", "jobs", "publish"}

NoFiles == [dump |-> [t \in Target |-> NoDump], entry |-> [t \in Target |-> NoEntry]]

\* A first manifest without entries is published by hand: one that cannot be
\* fetched and parsed ends every run before its jobs.
Init ==
    /\ head = 1
    /\ remote = NoFiles
    /\ out = NoFiles
    /\ prev = [t \in Target |-> NoEntry]
    /\ job = [t \in Target |-> IdleJob]
    /\ phase = "idle"

Grow ==
    /\ head < MaxHead
    /\ head' = head + 1
    /\ UNCHANGED <<remote, out, prev, job, phase>>

\* A run fetches the manifest and spawns a job per target.  A fetch that fails
\* ends the run with nothing written (no step).  out_root is the directory of
\* the last run or an empty one.  Files of a run that was not published stay.
Start ==
    /\ phase \in {"idle", "publish"}
    /\ prev' = remote.entry
    /\ job' = [t \in Target |-> [IdleJob EXCEPT !.pc = "download"]]
    /\ out' \in {out, NoFiles}
    /\ phase' = "jobs"
    /\ UNCHANGED <<head, remote>>

\* The job imports the dump its entry names into a clean database; without an
\* entry the database stays empty.
Download(t) ==
    /\ phase = "jobs" /\ job[t].pc = "download"
    /\ job' = [job EXCEPT ![t].pc = "engine",
                          ![t].mark = IF prev[t] = NoEntry THEN 0 ELSE remote.dump[t]]
    /\ UNCHANGED <<head, remote, out, prev, phase>>

\* Mutant: the outcome reports the chain's latest block.
CycleEnd_latest(start, latest) == latest

\* SyncOutcome.target_block.
CycleEnd(start, latest) == window_target(start, latest)

\* One cycle of the engine on a view of the chain that may lag: an empty
\* window leaves the watermark, any other moves it to the window's target.
RunEngine(t) ==
    /\ phase = "jobs" /\ job[t].pc = "engine"
    /\ \E latest \in Most(head - Lag, 0)..head :
          LET start  == window_start(job[t].mark)
              target == window_target(start, latest)
          IN  job' = [job EXCEPT
                 ![t].pc = "export",
                 ![t].end = CycleEnd(start, latest),
                 ![t].mark = IF start > target THEN @ ELSE target]
    /\ UNCHANGED <<head, remote, out, prev, phase>>

\* export_dump up to the write of the file; the database has a watermark, so
\* export_data_only finds rows.
Export(t) ==
    /\ phase = "jobs" /\ job[t].pc = "export"
    /\ out' = [out EXCEPT !.dump[t] = job[t].mark]
    /\ job' = [job EXCEPT ![t].pc = "watermark"]
    /\ UNCHANGED <<head, remote, prev, phase>>

\* The rest of export_dump: the watermark's hash is read.
ReadWatermark(t) ==
    /\ phase = "jobs" /\ job[t].pc = "watermark"
    /\ job' = [job EXCEPT ![t].pc = "done"]
    /\ UNCHANGED <<head, remote, out, prev, phase>>

\* Any step of a job may fail: the others go on.
JobFails(t) ==
    /\ phase = "jobs" /\ job[t].pc \in Running
    /\ job' = [job EXCEPT ![t].pc = "failed"]
    /\ UNCHANGED <<head, remote, out, prev, phase>>

\* Mutant: a target that failed is left out of the manifest.
ManifestEntry_fresh(t) ==
    IF job[t].pc = "done" THEN [end |-> job[t].end, hash |-> job[t].mark] ELSE NoEntry

\* The entry of a target: its new dump's, else the one it had.
ManifestEntry(t) ==
    IF job[t].pc = "done" THEN [end |-> job[t].end, hash |-> job[t].mark] ELSE prev[t]

\* The manifest is written once every job has ended, unless it is empty.  The
\* run ends without one when that is so or the write fails.
BuildManifest ==
    LET entries == [t \in Target |-> ManifestEntry(t)]
    IN  /\ phase = "jobs"
        /\ \A t \in Target : job[t].pc \in {"done", "failed"}
        /\ \/ /\ \E t \in Target : entries[t] # NoEntry
              /\ out' = [out EXCEPT !.entry = entries]
              /\ phase' = "publish"
           \/ out' = out /\ phase' = "idle"
        /\ UNCHANGED <<head, remote, prev, job>>

\* The process dies; what it wrote stays.
Crash ==
    /\ phase = "jobs"
    /\ phase' = "idle"
    /\ UNCHANGED <<head, remote, out, prev, job>>

\* A dump file of out_root is uploaded after a run that wrote its manifest.
UploadDump(t) ==
    /\ phase = "publish"
    /\ out.dump[t] # NoDump
    /\ remote' = [remote EXCEPT !.dump[t] = out.dump[t]]
    /\ UNCHANGED <<head, out, prev, job, phase>>

\* The manifest is uploaded after every dump.
UploadManifest ==
    /\ phase = "publish"
    /\ \A t \in Target : out.dump[t] # NoDump => remote.dump[t] = out.dump[t]
    /\ remote' = [remote EXCEPT !.entry = out.entry]
    /\ phase' = "idle"
    /\ UNCHANGED <<head, out, prev, job>>

Next ==
    \/ Grow \/ Start \/ BuildManifest \/ Crash \/ UploadManifest
    \/ \E t \in Target :
          \/ Download(t) \/ RunEngine(t) \/ Export(t) \/ ReadWatermark(t)
          \/ JobFails(t) \/ UploadDump(t)

Spec == Init /\ [][Next]_vars

-----------------------------------------------------------------------------
\* What the published manifest states of a target is in the published dump,
\* also while an upload is half done, after a job failed past the write of its
\* dump and after a cycle that found the RPC behind the dump it imported: the
\* end block (export.rs takes it from the cycle's outcome) is not past the
\* block of the hash (taken from the watermark), and neither is past the dump.
EndNotAhead ==
    \A t \in Target :
        LET e == remote.entry[t]
        IN  e # NoEntry => e.end <= e.hash /\ e.hash <= remote.dump[t]

\* A target that clients can bootstrap from stays so, and its dump never goes
\* back, whichever jobs fail and however far an RPC lags: build_manifest
\* carries the entry of a failed job forward, and a cycle starts from the dump.
PublishedKept ==
    [][\A t \in Target :
         remote.entry[t] # NoEntry =>
            remote'.entry[t] # NoEntry /\ remote'.dump[t] >= remote.dump[t]]_vars
=============================================================================
