------------------------------ MODULE TransferGC ------------------------------
(***************************************************************************)
(* What the cleaner and the pause/unpause handshake of datalayer promise  *)
(* (src/daemon/datalayer.cc), with the threads abstracted away: the      *)
(* transfer log is garbage-collected in sweeps, a sweep and the           *)
(* installation of a new configuration never overlap, a sweep takes every *)
(* pending wipe request when it starts, and deletes only records of a     *)
(* capture that has left the configuration or whose wipe it took.         *)
(*                                                                         *)
(* owner is who holds the right to read or change the capture set: the    *)
(* cleaner while it sweeps, the reconfiguring thread from the moment      *)
(* reconfigure() stops waiting until unpause(), or nobody.                *)
(* Cleaner is shown to implement this module (MC_Cleaner.cfg checks       *)
(* Cleaner's GC!Spec).                                                     *)
(***************************************************************************)
EXTENDS Naturals

CONSTANTS Captures, InitCaptured, MaxSeq

VARIABLES
    owner,     \* "none", "sweep" or "config"
    captured,  \* captures of the current configuration
    requests,  \* pending wipe requests
    taken,     \* the wipe requests the current (or last) sweep took
    tlog       \* transfer records <<capture, seq>> in the log

vars == <<owner, captured, requests, taken, tlog>>

TKeys == Captures \X (1..MaxSeq)

\* A record the current sweep may delete.
Obsolete(r) == r[1] \notin captured \/ r[1] \in taken

Append(r) ==
    /\ r[1] \in captured /\ r \notin tlog
    /\ tlog' = tlog \cup {r}
    /\ UNCHANGED <<owner, captured, requests, taken>>

RequestWipe(c) ==
    /\ requests' = requests \cup {c}
    /\ UNCHANGED <<owner, captured, taken, tlog>>

BeginSweep ==
    /\ owner = "none"
    /\ owner' = "sweep"
    /\ taken' = requests /\ requests' = {}
    /\ UNCHANGED <<captured, tlog>>

Delete(r) ==
    /\ owner = "sweep" /\ r \in tlog /\ Obsolete(r)
    /\ tlog' = tlog \ {r}
    /\ UNCHANGED <<owner, captured, requests, taken>>

EndSweep ==
    /\ owner = "sweep"
    /\ owner' = "none"
    /\ UNCHANGED <<captured, requests, taken, tlog>>

BeginConfig ==
    /\ owner = "none"
    /\ owner' = "config"
    /\ UNCHANGED <<captured, requests, taken, tlog>>

Install ==
    /\ owner = "config"
    /\ captured' \in SUBSET Captures
    /\ UNCHANGED <<owner, requests, taken, tlog>>

EndConfig ==
    /\ owner = "config"
    /\ owner' = "none"
    /\ UNCHANGED <<captured, requests, taken, tlog>>

Init ==
    /\ owner = "none" /\ captured = InitCaptured
    /\ requests = {} /\ taken = {} /\ tlog = {}

Next ==
    \/ \E r \in TKeys : Append(r) \/ Delete(r)
    \/ \E c \in Captures : RequestWipe(c)
    \/ BeginSweep \/ EndSweep
    \/ BeginConfig \/ Install \/ EndConfig

\* A sweep that has begun ends, and an installed configuration is released.
Spec == Init /\ [][Next]_vars /\ WF_vars(EndSweep) /\ WF_vars(EndConfig)

=============================================================================
