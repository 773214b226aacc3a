------------------------------- MODULE Cleaner -------------------------------
(***************************************************************************)
(* The transfer-log cleaner of src/daemon/datalayer.cc and the handshake  *)
(* that coordinates it with reconfiguration.                               *)
(*                                                                         *)
(* Actors:                                                                 *)
(*  - the cleaner thread (datalayer::cleaner);                             *)
(*  - the reconfiguring thread: pause(), reconfigure(), unpause();         *)
(*  - the state transfer manager calling request_wipe(cid);               *)
(*  - foreground writers appending transfer records for captured regions; *)
(*  - the thread calling shutdown().                                       *)
(* Every section run under m_block_cleaner is one atomic action.  The two *)
(* condition variables are modelled by the waiting program counters       *)
(* "waiting": a broadcast or signal moves a waiter to a state from which  *)
(* it re-acquires the mutex and re-checks its loop condition.             *)
(*                                                                         *)
(* A transfer key is <<cid, seq>>, ordered like its big-endian encoding   *)
(* 't' + cid + seq.  The scan's leveldb iterator is created without an    *)
(* explicit snapshot, so it reads the log as of its creation (snap) while *)
(* its deletes go to the live log (tlog).                                 *)
(***************************************************************************)
EXTENDS Naturals, FiniteSets, FiniteSetsExt

CONSTANTS
    Captures,      \* capture ids in play (positive naturals)
    InitCaptured,  \* captures present in the configuration at start-up
    MaxSeq,        \* transfer records appended per capture (bound)
    MaxReconfigs,  \* reconfigurations (bound)
    MaxWipes       \* request_wipe calls (bound)

ASSUME /\ Captures \subseteq Nat \ {0}
       /\ InitCaptured \subseteq Captures
       /\ MaxSeq \in Nat /\ MaxReconfigs \in Nat /\ MaxWipes \in Nat

\* capture_id(): the null capture id, the initial value of cached_cid.
NoCapture == 0
CaptureIds == Captures \cup {NoCapture}
TKeys == Captures \X (1..MaxSeq)
\* it->Valid() is false.
NoKey == <<0, 0>>

VARIABLES
    need_cleaning, shutdown, need_pause, paused,  \* m_need_cleaning, ...
    stcs,        \* m_state_transfer_captures: pending wipe requests
    cleaner,     \* program counter of the cleaner thread
    local,       \* the cleaner's local state_transfer_captures
    snap,        \* transfer keys visible to the scan's iterator
    it,          \* the iterator's current key, NoKey when not Valid()
    cached,      \* cached_cid
    tlog,        \* live transfer-log keys in leveldb
    count,       \* m_counters: next transfer sequence number per capture
    captured,    \* captures of the current configuration
    retired,     \* captures removed by a reconfiguration (never reused)
    recon,       \* program counter of the reconfiguring thread
    reconfigs, wipes,  \* bounded counts of reconfigurations and wipes
    taken,       \* ghost: wipe requests taken at the start of this sweep
    reports,     \* ghost: report_wiped calls per capture in this sweep
    failed       \* ghost: captures a Delete of this sweep failed for

vars == <<need_cleaning, shutdown, need_pause, paused, stcs, cleaner, local,
          snap, it, cached, tlog, count, captured, retired, recon, reconfigs,
          wipes, taken, reports, failed>>
scanVars == <<snap, it, cached, local>>
ghostVars == <<taken, reports, failed>>

TypeOK ==
    /\ {need_cleaning, shutdown, need_pause, paused} \subseteq BOOLEAN
    /\ stcs \subseteq Captures /\ local \subseteq Captures
    /\ cleaner \in {"top", "waiting", "woken", "scan", "report", "done"}
    /\ snap \subseteq TKeys /\ tlog \subseteq TKeys
    /\ it \in TKeys \cup {NoKey}
    /\ cached \in CaptureIds
    /\ count \in [Captures -> 1..(MaxSeq + 1)]
    /\ captured \subseteq Captures /\ retired \subseteq Captures
    /\ recon \in {"idle", "check", "waiting", "mutate", "unpause"}
    /\ reconfigs \in 0..MaxReconfigs /\ wipes \in 0..MaxWipes
    /\ taken \subseteq Captures
    /\ reports \in [CaptureIds -> Nat]
    /\ failed \subseteq Captures

-----------------------------------------------------------------------------
(* Key order and the iterator.                                             *)

KeyLess(a, b) == a[1] < b[1] \/ (a[1] = b[1] /\ a[2] < b[2])
\* The first key of S in key order, NoKey for an exhausted iterator.
Least(S) ==
    IF S = {} THEN NoKey ELSE CHOOSE x \in S : \A y \in S : ~KeyLess(y, x)
\* it->Seek(k): the first visible key at or after k.
Seek(k) == Least({x \in snap : ~KeyLess(x, k)})
\* it->Next()
NextKey(k) == Least({x \in snap : KeyLess(k, x)})

\* m_wakeup_cleaner.broadcast()
WakeCleaner ==
    cleaner' = IF cleaner = "waiting" THEN "woken" ELSE cleaner

\* m_daemon->m_stm.report_wiped(c)
ReportWiped(c) == reports' = [reports EXCEPT ![c] = @ + 1]

-----------------------------------------------------------------------------
(* The reconfiguring thread.                                               *)

\* datalayer::pause().  A thread that has begun shutdown() no longer
\* reconfigures.
Pause ==
    /\ recon = "idle" /\ ~shutdown /\ reconfigs < MaxReconfigs
    /\ ~need_pause
    /\ need_pause' = TRUE
    /\ recon' = "check"
    /\ UNCHANGED <<need_cleaning, shutdown, paused, stcs, cleaner, scanVars,
                   tlog, count, captured, retired, reconfigs, wipes, ghostVars>>

\* datalayer::reconfigure: the "while (!m_paused) wait" loop.
ReconfigureCheck ==
    /\ recon = "check"
    /\ recon' = IF paused THEN "mutate" ELSE "waiting"
    /\ UNCHANGED <<need_cleaning, shutdown, need_pause, paused, stcs, cleaner,
                   scanVars, tlog, count, captured, retired, reconfigs, wipes,
                   ghostVars>>

\* The new configuration installed while the cleaner is paused: a capture
\* is removed, or a fresh one is added.
Reconfigure ==
    /\ recon = "mutate"
    /\ \/ \E c \in captured :
             /\ captured' = captured \ {c}
             /\ retired' = retired \cup {c}
       \/ \E c \in Captures \ (captured \cup retired) :
             /\ captured' = captured \cup {c}
             /\ UNCHANGED retired
    /\ recon' = "unpause"
    /\ UNCHANGED <<need_cleaning, shutdown, need_pause, paused, stcs, cleaner,
                   scanVars, tlog, count, reconfigs, wipes, ghostVars>>

\* Mutant: unpause() that does not ask for a cleaning pass.
UnpauseNoClean ==
    /\ recon = "unpause"
    /\ need_pause
    /\ WakeCleaner
    /\ need_pause' = FALSE
    /\ recon' = "idle"
    /\ reconfigs' = reconfigs + 1
    /\ UNCHANGED <<need_cleaning, shutdown, paused, stcs, scanVars, tlog, count,
                   captured, retired, wipes, ghostVars>>

\* datalayer::unpause()
Unpause ==
    /\ recon = "unpause"
    /\ need_pause
    /\ WakeCleaner
    /\ need_pause' = FALSE
    /\ need_cleaning' = TRUE
    /\ recon' = "idle"
    /\ reconfigs' = reconfigs + 1
    /\ UNCHANGED <<shutdown, paused, stcs, scanVars, tlog, count, captured,
                   retired, wipes, ghostVars>>

-----------------------------------------------------------------------------
(* The environment of the cleaner.                                         *)

\* datalayer::request_wipe(cid)
RequestWipe(c) ==
    /\ wipes < MaxWipes
    /\ stcs' = stcs \cup {c}
    /\ WakeCleaner
    /\ wipes' = wipes + 1
    /\ UNCHANGED <<need_cleaning, shutdown, need_pause, paused, scanVars, tlog,
                   count, captured, retired, recon, reconfigs, ghostVars>>

\* put/del/overput on a region under capture c: the transfer record
\* encode_transfer(cid, count) of the write batch.
AppendTransfer(c) ==
    /\ c \in captured
    /\ count[c] <= MaxSeq
    /\ tlog' = tlog \cup {<<c, count[c]>>}
    /\ count' = [count EXCEPT ![c] = @ + 1]
    /\ UNCHANGED <<need_cleaning, shutdown, need_pause, paused, stcs, cleaner,
                   scanVars, captured, retired, recon, reconfigs, wipes,
                   ghostVars>>

\* datalayer::shutdown(): broadcast and set m_shutdown; the caller then
\* joins the cleaner.
Shutdown ==
    /\ ~shutdown
    /\ shutdown' = TRUE
    /\ WakeCleaner
    /\ UNCHANGED <<need_cleaning, need_pause, paused, stcs, scanVars, tlog,
                   count, captured, retired, recon, reconfigs, wipes, ghostVars>>

-----------------------------------------------------------------------------
(* The cleaner thread.                                                     *)

\* Mutant: the wait loop ignores a pending pause.
CleanerIdleNoPause == ~need_cleaning /\ stcs = {} /\ ~shutdown

\* The condition of the cleaner's wait loop.
CleanerIdle ==
    (~need_cleaning /\ stcs = {} /\ ~shutdown) \/ need_pause

\* Mutant: the shutdown check after the wait loop is missing.
ShouldExitNever == FALSE

\* if (m_shutdown) break;
ShouldExit == shutdown

\* Mutant: the reconfigurer is never signalled.
NoSignal == UNCHANGED recon

\* m_wakeup_reconfigurer.signal(), issued only when a pause is pending.
SignalReconfigurer ==
    recon' = IF need_pause /\ recon = "waiting" THEN "check" ELSE recon

\* Mutant: the requests are copied, m_state_transfer_captures is not cleared.
TakeRequestsKept == local' = stcs /\ UNCHANGED stcs

\* m_state_transfer_captures.swap(state_transfer_captures): the sweep takes
\* the pending wipe requests and leaves none behind.
TakeRequests == local' = stcs /\ stcs' = {}

\* The value cached_cid has when a sweep starts.
CursorAtSweepStart == NoCapture

\* One pass through the locked section at the top of the cleaner loop, on
\* first entry or after a wake-up: wait again (reporting paused), exit, or
\* take the wipe requests and start a sweep.
CleanerCheck ==
    /\ cleaner \in {"top", "woken"}
    /\ \/ /\ CleanerIdle
          /\ paused' = TRUE
          /\ SignalReconfigurer
          /\ cleaner' = "waiting"
          /\ UNCHANGED <<need_cleaning, stcs, scanVars, ghostVars>>
       \/ /\ ~CleanerIdle /\ ShouldExit
          /\ paused' = FALSE
          /\ cleaner' = "done"
          /\ UNCHANGED <<need_cleaning, stcs, recon, scanVars, ghostVars>>
       \/ /\ ~CleanerIdle /\ ~ShouldExit
          /\ paused' = FALSE
          /\ TakeRequests
          /\ need_cleaning' = FALSE
          /\ snap' = tlog
          /\ it' = Least(tlog)
          /\ cached' = CursorAtSweepStart
          /\ cleaner' = "scan"
          /\ taken' = stcs
          /\ reports' = [c \in CaptureIds |-> 0]
          /\ failed' = {}
          /\ UNCHANGED recon
    /\ UNCHANGED <<shutdown, need_pause, tlog, count, captured, retired,
                   reconfigs, wipes>>

\* A key of the capture already classified obsolete: delete it and move on.
ScanDelete ==
    /\ cleaner = "scan" /\ it # NoKey
    /\ it[1] = cached
    /\ tlog' = tlog \ {it}
    /\ it' = NextKey(it)
    /\ UNCHANGED <<need_cleaning, shutdown, need_pause, paused, stcs, cleaner,
                   snap, cached, local, count, captured, retired, recon,
                   reconfigs, wipes, ghostVars>>

\* m_db->Delete on that key returns corruption, an I/O error or another
\* error: the cleaner logs it and moves on, the record stays in the log
\* (spec 7: best-effort, "recoverable on a later pass").
ScanDeleteFails ==
    /\ cleaner = "scan" /\ it # NoKey
    /\ it[1] = cached
    /\ it' = NextKey(it)
    /\ failed' = failed \cup {cached}
    /\ UNCHANGED <<need_cleaning, shutdown, need_pause, paused, stcs, cleaner,
                   snap, cached, local, tlog, count, captured, retired, recon,
                   reconfigs, wipes, taken, reports>>

\* The scan crosses into a new capture id: report the cached one wiped,
\* then classify the new one.  Obsolete (not captured, or requested) makes
\* it the cached id; otherwise the iterator seeks past it.
ScanCross ==
    /\ cleaner = "scan" /\ it # NoKey
    /\ it[1] # cached
    /\ ReportWiped(cached)
    /\ LET c == it[1] IN
       \/ /\ c \notin captured
          /\ cached' = c
          /\ UNCHANGED <<it, local>>
       \/ /\ c \in captured /\ c \in local
          /\ cached' = c
          /\ local' = local \ {c}
          /\ UNCHANGED it
       \/ /\ c \in captured /\ c \notin local
          /\ it' = Seek(<<c + 1, 0>>)
          /\ UNCHANGED <<cached, local>>
    /\ UNCHANGED <<need_cleaning, shutdown, need_pause, paused, stcs, cleaner,
                   snap, tlog, count, captured, retired, recon, reconfigs,
                   wipes, taken, failed>>

ScanEnd ==
    /\ cleaner = "scan" /\ it = NoKey
    /\ cleaner' = "report"
    /\ UNCHANGED <<need_cleaning, shutdown, need_pause, paused, stcs, scanVars,
                   tlog, count, captured, retired, recon, reconfigs, wipes,
                   ghostVars>>

\* Report the wipe requests the scan did not meet, smallest id first.
ReportRemaining ==
    /\ cleaner = "report"
    /\ \/ /\ local # {}
          /\ ReportWiped(Min(local))
          /\ local' = local \ {Min(local)}
          /\ UNCHANGED cleaner
       \/ /\ local = {}
          /\ cleaner' = "top"
          /\ UNCHANGED <<local, reports>>
    /\ UNCHANGED <<need_cleaning, shutdown, need_pause, paused, stcs, snap, it,
                   cached, tlog, count, captured, retired, recon, reconfigs,
                   wipes, taken, failed>>

\* The cleaner has been joined after shutdown and no reconfiguration is in
\* flight: the system has stopped.
Terminated ==
    /\ cleaner = "done" /\ recon = "idle"
    /\ UNCHANGED vars

-----------------------------------------------------------------------------
Init ==
    /\ need_cleaning = FALSE /\ shutdown = FALSE
    /\ need_pause = FALSE /\ paused = FALSE
    /\ stcs = {} /\ cleaner = "top"
    /\ local = {} /\ snap = {} /\ it = NoKey /\ cached = NoCapture
    /\ tlog = {} /\ count = [c \in Captures |-> 1]
    /\ captured = InitCaptured /\ retired = {}
    /\ recon = "idle" /\ reconfigs = 0 /\ wipes = 0
    /\ taken = {} /\ reports = [c \in CaptureIds |-> 0] /\ failed = {}

CleanerStep == CleanerCheck \/ ScanDelete \/ ScanDeleteFails \/ ScanCross \/ ScanEnd \/ ReportRemaining
ReconfigStep == ReconfigureCheck \/ Reconfigure \/ Unpause

Next ==
    \/ CleanerStep
    \/ Pause \/ ReconfigStep
    \/ \E c \in captured \cup retired : RequestWipe(c)
    \/ \E c \in Captures : AppendTransfer(c)
    \/ Shutdown
    \/ Terminated

\* The cleaner is a thread the OS keeps scheduling; a reconfiguration, once
\* begun, runs to unpause.  Writers, wipe requests and shutdown are not
\* obliged to happen.
Spec == Init /\ [][Next]_vars /\ WF_vars(CleanerStep) /\ WF_vars(ReconfigStep)

-----------------------------------------------------------------------------
(* Properties.                                                             *)

\* reconfigure() proceeds only after the cleaner reported itself paused,
\* and the configuration changes while a pause is outstanding: the cleaner
\* (which reads is_captured_region during its sweep) is never sweeping or
\* reporting while the new configuration is being installed.
ReconfigureExcludesSweep ==
    recon = "mutate" => cleaner \notin {"scan", "report"}

\* A reconfigure() that waits for the cleaner to pause is always woken: the
\* cleaner's signal on m_wakeup_reconfigurer is never lost.
ReconfigurationCompletes == recon = "check" ~> recon = "mutate"

\* Once a capture leaves the configuration, unpause() asks for a cleaning
\* pass and every transfer record of that capture is eventually deleted,
\* unless the datalayer shuts down first or a Delete of that capture failed
\* in the last sweep: nothing schedules the "later pass" of spec 7, so such
\* a record stays until the next unpause() or request_wipe.
ObsoleteTransfersCleaned ==
    \A c \in Captures :
        c \in retired ~>
            (shutdown \/ c \in failed \/ \A s \in 1..MaxSeq : <<c, s>> \notin tlog)

\* After shutdown() the cleaner thread exits, so the join returns.
CleanerExits == shutdown ~> cleaner = "done"

\* Every wipe request a sweep took is reported to the state transfer
\* manager by the end of that sweep (spec 4.5: "still reported wiped at the
\* end of the sweep, guaranteeing at-least-once notification").
WipeReportedEachSweep ==
    cleaner = "top" => \A c \in taken : reports[c] >= 1

\* A sweep reports each capture wiped at most once (spec 8, "Cleaner
\* convergence").
ReportedOncePerSweep == \A c \in Captures : reports[c] <= 1

-----------------------------------------------------------------------------
(* Refinement of TransferGC.                                               *)

\* The cleaner owns the capture set while it sweeps or reports; the
\* reconfiguring thread from the moment reconfigure() stops waiting until
\* unpause().
GCOwner ==
    IF cleaner \in {"scan", "report"} THEN "sweep"
    ELSE IF recon \in {"mutate", "unpause"} THEN "config"
    ELSE "none"

GC == INSTANCE TransferGC WITH owner <- GCOwner, requests <- stcs

\* The cleaner and the pause/unpause handshake implement the abstract
\* transfer-log collector: sweeps and configuration installs never overlap,
\* a sweep takes every pending request_wipe and leaves none pending, it
\* deletes only obsolete records, and every sweep and every reconfiguration
\* that has begun ends.
GCSpec == GC!Spec

=============================================================================
