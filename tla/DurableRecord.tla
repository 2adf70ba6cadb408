--------------------------- MODULE DurableRecord ---------------------------
(***************************************************************************)
(* What SettingsStore (src/src/device/settings_store.py) promises: one     *)
(* durable payload, replaced atomically by commit() and served by load().  *)
(* A commit that raises may have replaced the payload or not.              *)
(***************************************************************************)
CONSTANTS
    Payloads,
    None,        \* no usable record
    Down         \* no process has loaded

VARIABLES
    stored,      \* the payload the flash holds
    served,      \* the payload the running process works with
    request      \* the payload of the commit in progress

vars == <<stored, served, request>>

Init ==
    /\ stored \in Payloads \union {None}
    /\ served = Down
    /\ request = None

\* load() serves what is stored; a file error may leave it unconfigured.
Boot ==
    /\ served = Down
    /\ served' \in {stored, None}
    /\ UNCHANGED <<stored, request>>

Request(p) ==
    /\ served # Down /\ request = None
    /\ request' = p
    /\ UNCHANGED <<stored, served>>

Replace ==
    /\ request # None
    /\ stored' = request
    /\ UNCHANGED <<served, request>>

Acknowledge ==
    /\ request # None /\ stored = request
    /\ served' = request
    /\ request' = None
    /\ UNCHANGED stored

Fail ==
    /\ request # None
    /\ request' = None
    /\ UNCHANGED <<stored, served>>

\* An unconfigured process may drop a record it could not restore.
Discard ==
    /\ served = None /\ request # None
    /\ stored' = None
    /\ UNCHANGED <<served, request>>

PowerLoss ==
    /\ served' = Down
    /\ request' = None
    /\ UNCHANGED stored

Next ==
    \/ Boot
    \/ \E p \in Payloads : Request(p)
    \/ Replace \/ Acknowledge \/ Fail \/ Discard
    \/ PowerLoss

Spec == Init /\ [][Next]_vars
=============================================================================
