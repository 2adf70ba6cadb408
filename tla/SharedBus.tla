----------------------------- MODULE SharedBus -----------------------------
(***************************************************************************)
(* SPI0 and the two devices on it: the panel (device/display/ili9341.py)   *)
(* and the touch controller (device/touch_port.py).  The panel driver      *)
(* selects the panel for each command; TouchPort.read takes the bus over   *)
(* and hands it back.  Every operation on the bus or on a chip select may  *)
(* fail; a poll catches that, a drawing is abandoned where it is.          *)
(***************************************************************************)
EXTENDS Naturals

CONSTANT SampleCount    \* TOUCH_SAMPLE_COUNT

ASSUME SampleCountAssumption == SampleCount \in Nat \ {0, 1}

VARIABLES
    user,       \* who is in a transaction: "none", "panel" or "touch"
    speed,      \* the bus is set up for "tft" or for "touch"
    tft,        \* the panel is selected (its chip select is low)
    touch,      \* the touch controller is
    taken,      \* samples taken in this poll
    stable,     \* they lie close to each other
    down,       \* the port's _down
    edge,       \* the last poll reported a contact
    \* What follows is observed for the properties.
    unset,      \* the last hand-back could not set the panel's speed
    stuck,      \* the touch controller could not be deselected
    lifted      \* the finger was seen off the panel since the last edge

contact == <<taken, stable, down, edge, lifted>>
busVars == <<user, speed, tft, touch, unset, contact, stuck>>

-----------------------------------------------------------------------------
(***************************************************************************)
(* The panel: each command and each fill selects, sends and deselects.     *)
(***************************************************************************)
SelectPanel ==
    /\ user = "none"
    /\ user' = "panel" /\ tft' = TRUE
    /\ UNCHANGED <<speed, touch, unset, contact, stuck>>

\* The transaction ends; one that raised leaves the panel selected.
DeselectPanel ==
    /\ user = "panel"
    /\ user' = "none"
    /\ tft' \in BOOLEAN
    /\ UNCHANGED <<speed, touch, unset, contact, stuck>>

-----------------------------------------------------------------------------
(***************************************************************************)
(* A poll: TouchPort.read.                                                 *)
(***************************************************************************)
\* _begin_touch_transaction stops at the operation that fails.
BeginTouch ==
    /\ user = "none"
    /\ \E done \in 0 .. 3 :
          /\ tft' = (tft /\ done < 1)
          /\ speed' = IF done < 2 THEN speed ELSE "touch"
          /\ touch' = (touch \/ done = 3)
          /\ user' = IF done = 3 THEN "touch" ELSE "return"
    /\ taken' = 0 /\ stable' = TRUE /\ edge' = FALSE
    /\ UNCHANGED <<unset, down, lifted, stuck>>

\* A sample in the middle of the poll; one far from the others spoils the point.
Sample ==
    /\ user = "touch" /\ taken < SampleCount - 1
    /\ taken' = taken + 1
    /\ stable' \in {stable, stable /\ taken = 0}
    /\ UNCHANGED <<user, speed, tft, touch, unset, down, edge, stuck, lifted>>

Reports == stable' /\ ~down

LastSample ==
    /\ user = "touch" /\ taken = SampleCount - 1
    /\ user' = "return"
    /\ taken' = SampleCount
    /\ stable' \in {stable, FALSE}
    /\ edge' = Reports
    /\ down' = (down \/ stable')
    /\ lifted' = (lifted /\ ~Reports)
    /\ UNCHANGED <<speed, tft, touch, unset, stuck>>

\* No contact, or too light a one.  A finger that leaves with the last sample
\* still counts, and then as a finger that is down.
NoContact ==
    /\ user = "touch"
    /\ user' = "return"
    /\ edge' = (taken = SampleCount - 1 /\ stable /\ ~down)
    /\ down' = edge'
    /\ lifted' = TRUE
    /\ UNCHANGED <<speed, tft, touch, unset, taken, stable, stuck>>

\* Mutant of SampleFails: a failed transfer counts as a finger that left.
SampleReleases ==
    /\ user = "touch"
    /\ user' = "return"
    /\ down' = FALSE
    /\ UNCHANGED <<speed, tft, touch, unset, taken, stable, edge, stuck, lifted>>

\* A failed transfer leaves what is known of the finger.
SampleFails ==
    /\ user = "touch"
    /\ user' = "return"
    /\ UNCHANGED <<speed, tft, touch, unset, contact, stuck>>

\* Mutant of HandBack: when the speed cannot be set the rest is not tried.
HandBackUntried ==
    /\ user = "return"
    /\ user' = "none"
    /\ \/ speed' = "tft" /\ unset' = FALSE /\ tft' = TRUE /\ touch' = FALSE /\ stuck' = FALSE /\ UNCHANGED edge
       \/ unset' = TRUE /\ edge' = FALSE /\ UNCHANGED <<speed, tft, touch, stuck>>
    /\ UNCHANGED <<taken, stable, down, lifted>>

\* _restore_tft_transaction: each operation is tried whatever came of the one
\* before, but it does not select the panel when the speed could not be set; a
\* failure to deselect the controller is not told.  A poll that did not hand the
\* bus back reports nothing.
HandBack ==
    /\ user = "return"
    /\ user' = "none"
    /\ \/ touch' = FALSE /\ stuck' = FALSE
       \/ stuck' = touch /\ UNCHANGED touch
    /\ \/ speed' = "tft" /\ unset' = FALSE /\ tft' = TRUE /\ UNCHANGED edge
       \/ speed' = "tft" /\ unset' = FALSE /\ edge' = FALSE /\ UNCHANGED tft
       \/ unset' = TRUE /\ edge' = FALSE /\ UNCHANGED <<speed, tft>>
    /\ UNCHANGED <<taken, stable, down, lifted>>

-----------------------------------------------------------------------------
BusInit ==
    /\ user = "none" /\ speed = "tft"
    /\ tft = FALSE /\ touch = FALSE
    /\ taken = 0 /\ stable = TRUE /\ down = FALSE /\ edge = FALSE
    /\ unset = FALSE /\ stuck = FALSE /\ lifted = TRUE

BusNext ==
    \/ SelectPanel \/ DeselectPanel
    \/ BeginTouch \/ Sample \/ LastSample \/ NoContact \/ SampleFails \/ HandBack

BusSpec == BusInit /\ [][BusNext]_busVars

-----------------------------------------------------------------------------
\* Whoever transfers has the bus for himself: the touch controller is sampled
\* at its speed and with the panel deselected; what is drawn goes to a selected
\* panel, alone unless the controller refuses to be deselected.  It goes there
\* at the panel's speed whenever the hand-back just before could set it, whatever
\* failed in earlier ones (touch_port.py, _restore_tft_transaction: "a failed
\* sample cannot strand the shared bus at touch speed or leave TFT deselected").
BusBelongs ==
    /\ user = "touch" => touch /\ ~tft /\ speed = "touch"
    /\ user = "panel" => tft /\ (touch => stuck) /\ (speed = "touch" => unset)

\* One contact is reported once: between two edges there is a sample without
\* contact, whatever transfers and hand-backs fail in between (touch_port.py,
\* read: "a transient error must not manufacture another edge for the same
\* press").
OnePress == [][edge' /\ ~edge => lifted]_busVars
=============================================================================
