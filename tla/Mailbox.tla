------------------------------ MODULE Mailbox ------------------------------
(***************************************************************************)
(* src/src/device/network/mailbox.py: one command slot and one result slot *)
(* between App, which asks for a time synchronization, and the network     *)
(* coordinator, which answers it.  soft_reset, its epoch and occupy_result *)
(* serve the harness of ProofSuite only: in the device the epoch never     *)
(* changes.                                                                *)
(***************************************************************************)
EXTENDS Naturals

CONSTANTS
    Ids,       \* command ids
    None

VARIABLES
    command,   \* the id of the command waiting to be taken, or None
    result,    \* the result waiting to be consumed, [id, ok], or None
    idle       \* whether a command may be accepted

mailbox == <<command, result, idle>>

Results == [id : Ids, ok : BOOLEAN]

MailboxInit == command = None /\ result = None /\ idle = TRUE

MailboxTypeOK ==
    /\ command \in Ids \union {None}
    /\ result \in Results \union {None}
    /\ idle \in BOOLEAN

\* Mutant of Accepts: the idle flag is not looked at.
AcceptsEmptySlots == command = None /\ result = None

\* enqueue() takes a command only if nothing of an earlier one is left.
Accepts == idle /\ command = None /\ result = None

Enqueue(id) ==
    /\ Accepts
    /\ command' = id
    /\ idle' = FALSE
    /\ UNCHANGED result

\* publish_result() raises MailboxSaturationError on an occupied slot.
Saturated == result # None

Publish(r) ==
    /\ result' = r
    /\ idle' = TRUE

TakeResult ==
    /\ result # None
    /\ result' = None
    /\ UNCHANGED <<command, idle>>

TakeCommand ==
    /\ command # None
    /\ command' = None
    /\ UNCHANGED <<result, idle>>

\* occupy_result() fills the slot and leaves the idle flag alone.
Occupy(r) ==
    /\ ~Saturated
    /\ result' = r
    /\ UNCHANGED <<command, idle>>

\* soft_reset(); its epoch is kept by whoever uses it.
SoftReset == command' = None /\ result' = None /\ idle' = TRUE
=============================================================================
