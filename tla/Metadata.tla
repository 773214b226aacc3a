------------------------------- MODULE Metadata -------------------------------
(***************************************************************************)
(* The process metadata of datalayer (src/daemon/datalayer.cc): setup,    *)
(* initialize, save_state, clear_dirty and teardown, across restarts and  *)
(* crashes of the daemon.                                                  *)
(*                                                                         *)
(* The disk holds three literal keys, each written with sync = true:     *)
(* "hyperdex" (the version that created the store), "dirty" and "state"  *)
(* (the packed server id and addresses).  The daemon (outside src/) calls *)
(* setup, then initialize and save_state, runs, and on a clean exit calls *)
(* clear_dirty and teardown; that calling order is modelled from the spec *)
(* (section 5: "durability-on-demand ... used for crash-recovery-critical *)
(* metadata").  A crash, or a failed synchronous Put that makes the       *)
(* daemon exit, may stop the process between any two of these steps; a   *)
(* synchronous write either happened or did not.                          *)
(***************************************************************************)
EXTENDS Naturals

CONSTANTS
    PackageVersion,  \* PACKAGE_VERSION of this build
    Legacy,          \* {"1.0.rc1", "1.0.rc2"}: older versions setup accepts
    Foreign,         \* versions setup rejects
    NoValue,         \* a key that is absent
    MaxStarts        \* daemon starts in a behaviour (bound)

Versions == {PackageVersion} \cup Legacy \cup Foreign

VARIABLES
    hyperdex,   \* the "hyperdex" key: a version or NoValue
    state,      \* the "state" key is present
    dirty,      \* the "dirty" key is present
    pc,         \* the daemon: "down", "first", "saved", "initialized",
                \* "dirtied", "running", "cleared", "refused"
    lastExit,   \* how the previous run ended: "clean" or "crash" (ghost)
    starts      \* starts so far

vars == <<hyperdex, state, dirty, pc, lastExit, starts>>

TypeOK ==
    /\ hyperdex \in Versions \cup {NoValue}
    /\ state \in BOOLEAN /\ dirty \in BOOLEAN
    /\ pc \in {"down", "first", "saved", "initialized", "dirtied", "running",
               "cleared", "refused"}
    /\ lastExit \in {"clean", "crash"}
    /\ starts \in 0..MaxStarts

-----------------------------------------------------------------------------
(* setup.                                                                  *)

\* rbacking is PACKAGE_VERSION, "1.0.rc1" or "1.0.rc2".
Supported(v) == v \in {PackageVersion} \cup Legacy

\* The checks of setup on the "hyperdex" Get and the "state" Get: the
\* version is foreign, the state exists on a first run ("tampered with"),
\* or it is missing on a later run ("execution crashed").
SetupFails ==
    LET firstTime == hyperdex = NoValue
    IN \/ ~firstTime /\ ~Supported(hyperdex)
       \/ state /\ firstTime
       \/ ~state /\ ~firstTime

\* setup returns false: the daemon does not start.
SetupRefused ==
    /\ pc = "down" /\ starts < MaxStarts
    /\ SetupFails
    /\ pc' = "refused" /\ starts' = starts + 1
    /\ UNCHANGED <<hyperdex, state, dirty, lastExit>>

\* setup returns true; saved is false on a first run.
SetupOk ==
    /\ pc = "down" /\ starts < MaxStarts
    /\ ~SetupFails
    /\ pc' = IF hyperdex = NoValue THEN "first" ELSE "saved"
    /\ starts' = starts + 1
    /\ UNCHANGED <<hyperdex, state, dirty, lastExit>>

-----------------------------------------------------------------------------
(* The synchronous metadata writes.                                        *)

\* initialize: Put("hyperdex", PACKAGE_VERSION).
Initialize ==
    /\ pc \in {"first", "saved"}
    /\ hyperdex' = PackageVersion /\ pc' = "initialized"
    /\ UNCHANGED <<state, dirty, lastExit, starts>>

\* save_state, first Put: the dirty bit.
SaveDirty ==
    /\ pc = "initialized"
    /\ dirty' = TRUE /\ pc' = "dirtied"
    /\ UNCHANGED <<hyperdex, state, lastExit, starts>>

\* save_state, second Put: the packed identity under "state".
SaveState ==
    /\ pc = "dirtied"
    /\ state' = TRUE /\ pc' = "running"
    /\ UNCHANGED <<hyperdex, dirty, lastExit, starts>>

\* Mutant: clear_dirty deletes the "state" key instead of "dirty".
ClearDirtyWrongKey ==
    /\ pc = "running"
    /\ state' = FALSE /\ pc' = "cleared"
    /\ UNCHANGED <<hyperdex, dirty, lastExit, starts>>

\* clear_dirty: Delete("dirty"); NotFound counts as success.
ClearDirty ==
    /\ pc = "running"
    /\ dirty' = FALSE /\ pc' = "cleared"
    /\ UNCHANGED <<hyperdex, state, lastExit, starts>>

\* teardown: the cleaner is shut down and the daemon exits.
Teardown ==
    /\ pc = "cleared"
    /\ pc' = "down" /\ lastExit' = "clean"
    /\ UNCHANGED <<hyperdex, state, dirty, starts>>

\* The process dies, or a synchronous Put fails and the daemon exits,
\* between two of the steps above; synced keys survive.
Crash ==
    /\ pc \notin {"down", "refused"}
    /\ pc' = "down" /\ lastExit' = "crash"
    /\ UNCHANGED <<hyperdex, state, dirty, starts>>

\* No more starts: the store rests, or waits for the recovery program.
Halted ==
    /\ pc = "refused" \/ (pc = "down" /\ starts = MaxStarts)
    /\ UNCHANGED vars

-----------------------------------------------------------------------------
\* A fresh data directory, or one a supported or foreign version left after
\* a clean exit.
Init ==
    /\ \/ hyperdex = NoValue /\ state = FALSE
       \/ hyperdex \in Versions /\ state = TRUE
    /\ dirty = FALSE /\ pc = "down" /\ lastExit = "clean" /\ starts = 0

Next ==
    \/ SetupRefused \/ SetupOk
    \/ Initialize \/ SaveDirty \/ SaveState \/ ClearDirty \/ Teardown
    \/ Crash \/ Halted

Spec == Init /\ [][Next]_vars

-----------------------------------------------------------------------------
(* Properties.                                                             *)

\* A daemon whose previous run exited cleanly always starts again: setup
\* refuses a store only after a crash (or a store of a foreign version),
\* whatever sequence of starts, crashes and clean exits came before.
RefusedOnlyAfterCrash ==
    pc = "refused" => lastExit = "crash" \/ hyperdex \in Foreign

\* setup never accepts a store whose previous run crashed while running,
\* the case the synchronous "dirty" marker (spec 5: a "dirty-shutdown
\* marker" for crash recovery) exists to detect.
CrashNotAccepted ==
    pc \in {"first", "saved"} => ~dirty

=============================================================================
