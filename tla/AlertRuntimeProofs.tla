------------------------- MODULE AlertRuntimeProofs -------------------------
(***************************************************************************)
(* Theorems about AlertRuntime for every set of alerts, schedule, delay    *)
(* and bound: what rings, what is pending and what has ended never mix,    *)
(* whatever commits fail and whenever the device restarts.                 *)
(***************************************************************************)
EXTENDS AlertRuntime, TLAPS

\* A pending record the settings do not know of is a POSTPONE half stored.
HalfStored ==
    settings.pending = None /\ flash.pending # None => active # None /\ active.postpone

\* A ringing alert that is disabled in the settings is disabled on flash too.
RingingEnabled ==
    active # None =>
        \A a \in active.members : a \in settings.enabled \/ a \notin flash.enabled

\* No record can bring a retired alert back.
RetiredGone ==
    /\ retired \intersect settings.enabled = {}
    /\ retired \intersect flash.enabled = {}
    /\ settings.pending # None => settings.pending.members \intersect retired = {}
    /\ flash.pending # None => flash.pending.members \intersect retired = {}
    /\ active # None => active.members \intersect retired = {}

Inv == OneLife /\ HalfStored /\ RingingEnabled /\ RetiredGone

----------------------------------------------------------------------------
(* Types. *)

LEMMA LaterInMinutes == \A m \in Minutes, n \in Nat : Later(m, n) \in Minutes
BY TimeAssumption DEF Minutes, Later

LEMMA PendingType == TypeOK => Pending \in Postponements \union {None}
BY DEF TypeOK, Pending, Restored, Postponements, Records, Occurrences

LEMMA ClearedType == TypeOK => Cleared \in Records /\ Disabled \in Records
BY DEF TypeOK, Cleared, Disabled, Records

LEMMA DueType ==
    TypeOK => Due \subseteq Alerts /\ (Due # {} => local \in Minutes)
BY DEF TypeOK, Due

LEMMA SchedulerType ==
    ASSUME TypeOK, SchedulerEvaluates
    PROVE  baseline' \in Minutes \union {None} /\ raised' \subseteq Alerts \X Minutes
BY DueType DEF SchedulerEvaluates, TypeOK

LEMMA CommitType ==
    ASSUME TypeOK, NEW record \in Records, Committed(record) \/ CommitFails(record)
    PROVE  flash' \in Records /\ settings' \in Records
BY DEF TypeOK, Committed, CommitFails

LEMMA OutcomesType ==
    ASSUME NEW pair \in Records \X Records, NEW record \in Records
    PROVE  Outcomes(pair, record) \subseteq Records \X Records
BY DEF Outcomes

LEMMA TerminalType ==
    ASSUME TypeOK, TerminalCommits
    PROVE  flash' \in Records /\ settings' \in Records
<1> DEFINE now == <<flash, settings>>
<1> DEFINE first == IF Retiring \intersect settings.enabled = {} THEN {now}
                    ELSE Outcomes(now, Disabled)
<1>1. first \subseteq Records \X Records
    BY ClearedType, OutcomesType DEF TypeOK
<1>2. PICK one \in first : \E two \in Outcomes(one, [one[2] EXCEPT !.pending = None]) :
                flash' = two[1] /\ settings' = two[2]
    BY DEF TerminalCommits
<1>3. one \in Records \X Records /\ [one[2] EXCEPT !.pending = None] \in Records
    BY <1>1, <1>2 DEF Records
<1>4. QED
    BY <1>2, <1>3, OutcomesType

LEMMA RingType ==
    ASSUME NEW members \in SUBSET Alerts, NEW at \in Minutes, Ring(members, at)
    PROVE  active' \in Actives /\ rung' \in 0..AutoStop /\ sounding' \in BOOLEAN
BY TimeAssumption DEF Ring, Actives

LEMMA TypeInit == Init => TypeOK
<1> SUFFICES ASSUME Init PROVE TypeOK
    OBVIOUS
<1>1. sounding \in BOOLEAN /\ polled \in BOOLEAN
    BY DEF Init
<1>2. flash \in Records /\ settings \in Records
    BY DEF Init, Records
<1>3. local \in Minutes \union {None} /\ rung \in 0..AutoStop
      /\ restarts \in 0..MaxRestarts /\ syncs \in 0..MaxSyncs
    BY TimeAssumption, SwitchAssumption DEF Init, Minutes
<1>4. baseline = None /\ raised = {} /\ active = None /\ postponed = None /\ retired = {}
    BY DEF Init
<1>5. QED
    BY <1>1, <1>2, <1>3, <1>4 DEF TypeOK

LEMMA EvaluateType ==
    ASSUME TypeOK, evaluate
    PROVE  TypeOK'
<1> USE PendingType, ClearedType, DueType, SchedulerType, TimeAssumption
    DEF TypeOK, scheduler
<1>1. /\ flash' \in Records /\ settings' \in Records
      /\ baseline' \in Minutes \union {None} /\ raised' \subseteq Alerts \X Minutes
      /\ active' \in Actives \union {None} /\ postponed' \in Postponements \union {None}
      /\ rung' \in 0..AutoStop /\ sounding' \in BOOLEAN
      /\ retired' \subseteq OneTime
  <2>1. CASE DiscardOverdue
    BY <2>1, CommitType DEF DiscardOverdue
  <2>2. CASE Rering
    BY <2>2, CommitType, RingType DEF Rering, Postponements
  <2>3. CASE EndConfirmation
    BY <2>3 DEF EndConfirmation, Postponements
  <2>4. CASE CallBack
    BY <2>4, CommitType, RingType DEF CallBack, Postponements
  <2>5. CASE WaitForDue
    BY <2>5 DEF WaitForDue, Postponements
  <2>6. CASE Postpone
    <3> DEFINE due == Later(active.at, Delay)
    <3> DEFINE record == [settings EXCEPT !.pending = [members |-> Joined, due |-> due]]
    <3>1. Joined \in SUBSET Alerts /\ due \in Minutes
        BY <2>6, LaterInMinutes DEF Postpone, Joined, Actives
    <3>2. record \in Records
        BY <3>1 DEF Records, Occurrences
    <3>3. \/ /\ Committed(record)
             /\ postponed' = [members |-> Joined, due |-> due, confirmation |-> TRUE,
                               restored |-> FALSE, cancel |-> FALSE]
             /\ active' = None
             /\ rung' = 0
          \/ /\ CommitFails(record)
             /\ active' = [active EXCEPT !.members = Joined]
             /\ UNCHANGED <<postponed, rung>>
        BY <2>6 DEF Postpone
    <3>4. flash' \in Records /\ settings' \in Records
        BY <3>2, <3>3, CommitType
    <3>5. active' \in Actives \union {None} /\ postponed' \in Postponements \union {None}
        <4>1. active \in Actives
            BY <2>6 DEF Postpone
        <4>2. [active EXCEPT !.members = Joined] \in Actives
            BY <3>1, <4>1 DEF Actives
        <4>3. [members |-> Joined, due |-> due, confirmation |-> TRUE,
               restored |-> FALSE, cancel |-> FALSE] \in Postponements
            BY <3>1 DEF Postponements
        <4>4. QED
            BY <3>3, <4>2, <4>3
    <3>6. QED
        <4>1. rung' \in 0..AutoStop
            BY <3>3
        <4>2. SchedulerEvaluates /\ sounding' = FALSE /\ retired' = retired
            BY <2>6 DEF Postpone
        <4>3. sounding' \in BOOLEAN
            BY <4>2
        <4>4. QED
            BY <3>4, <3>5, <4>1, <4>2, <4>3
  <2>7. CASE Stop \/ AutoStops
    <3>1. EndOccurrence
        BY <2>7 DEF Stop, AutoStops
    <3>2. flash' \in Records /\ settings' \in Records
        BY <3>1, TerminalType DEF EndOccurrence
    <3>3. /\ SchedulerEvaluates /\ active' = None /\ postponed' = postponed
          /\ rung' = 0 /\ sounding' = FALSE
          /\ retired' = retired \union (Retiring \ settings'.enabled)
        BY <3>1 DEF EndOccurrence
    <3>4. sounding' \in BOOLEAN
        BY <3>3
    <3>5. retired' \subseteq OneTime
        BY <3>3 DEF Retiring
    <3>6. QED
        BY <3>2, <3>3, <3>4, <3>5
  <2>8. CASE Sound
    BY <2>8 DEF Sound, Joined, Actives
  <2>9. CASE Raise
    BY <2>9, RingType DEF Raise
  <2>10. QED
    BY <2>1, <2>2, <2>3, <2>4, <2>5, <2>6, <2>7, <2>8, <2>9 DEF evaluate
<1>2. QED
    BY <1>1 DEF evaluate, world

LEMMA TypeNext == TypeOK /\ [Next]_vars => TypeOK'
<1> SUFFICES ASSUME TypeOK, [Next]_vars PROVE TypeOK'
    OBVIOUS
<1> USE DEF TypeOK, scheduler, world
<1>1. CASE evaluate
    BY <1>1, EvaluateType
<1>2. CASE Tap
    BY <1>2 DEF Tap, Actives, Postponements
<1>3. ASSUME NEW a \in Alerts, Toggle(a) PROVE TypeOK'
    <2> DEFINE record == [settings EXCEPT !.enabled =
                            IF a \notin settings.enabled THEN @ \union {a} ELSE @ \ {a}]
    <2>1. record \in Records
        BY DEF Records
    <2>2. Committed(record) \/ CommitFails(record)
        BY <1>3 DEF Toggle
    <2>3. flash' \in Records /\ settings' \in Records
        BY <2>1, <2>2, CommitType
    <2>4. QED
        BY <1>3, <2>3 DEF Toggle
<1>4. CASE Tick
    <2>1. local' \in Minutes \union {None}
        BY <1>4, LaterInMinutes DEF Tick
    <2>2. rung' \in 0..AutoStop
        BY <1>4, TimeAssumption DEF Tick
    <2>3. sounding' \in BOOLEAN /\ polled' \in BOOLEAN
        BY <1>4 DEF Tick
    <2>4. UNCHANGED <<flash, settings, baseline, raised, active, postponed, restarts,
                      syncs, retired>>
        BY <1>4 DEF Tick
    <2>5. QED
        BY <2>1, <2>2, <2>3, <2>4
<1>5. CASE SyncClock
    <2>1. syncs' \in 0..MaxSyncs
        BY <1>5, SwitchAssumption DEF SyncClock
    <2>2. sounding' \in BOOLEAN /\ polled' \in BOOLEAN
        BY <1>5 DEF SyncClock
    <2>3. local' \in Minutes /\ UNCHANGED <<flash, settings, baseline, raised, active,
                   postponed, rung, restarts, retired>>
        BY <1>5 DEF SyncClock
    <2>4. QED
        BY <2>1, <2>2, <2>3
<1>6. CASE Restart
    <2>1. flash' \in Records /\ retired' \subseteq OneTime
        BY <1>6 DEF Restart, Records
    <2>2. local' \in Minutes \union {None}
        BY <1>6, TimeAssumption DEF Restart, Minutes
    <2>3. restarts' \in 0..MaxRestarts
        BY <1>6, SwitchAssumption DEF Restart
    <2>4. QED
        <3>1. sounding' \in BOOLEAN /\ polled' \in BOOLEAN
            BY <1>6 DEF Restart
        <3>2. /\ settings' = flash' /\ baseline' = None /\ raised' = {}
              /\ active' = None /\ postponed' = None /\ rung' = 0 /\ syncs' = syncs
            BY <1>6 DEF Restart
        <3>3. QED
            BY <2>1, <2>2, <2>3, <3>1, <3>2, TimeAssumption
<1>7. CASE UNCHANGED vars
    BY <1>7 DEF vars
<1>8. QED
    BY <1>1, <1>2, <1>3, <1>4, <1>5, <1>6, <1>7 DEF Next

\* AlertTypes: every variable keeps its type, for every alert set and bound.
THEOREM AlertTypes == Spec => []TypeOK
<1>1. QED
    BY TypeInit, TypeNext, PTL DEF Spec

----------------------------------------------------------------------------
(* The inductive invariant. *)

LEMMA NoneIsNoRecord ==
    /\ \A r \in Actives \union Postponements \union Occurrences : r # None
BY TimeAssumption

LEMMA InvInit == Init => Inv
BY DEF Init, Inv, OneLife, HalfStored, RingingEnabled, RetiredGone

LEMMA PendingInv ==
    ASSUME TypeOK, Inv, Pending # None
    PROVE  /\ Pending \in Postponements /\ active = None
           /\ settings.pending = [members |-> Pending.members, due |-> Pending.due]
           /\ settings.pending # None
           /\ Pending.members \intersect retired = {}
           /\ postponed # None => Pending = postponed
<1>1. CASE postponed # None
    BY <1>1, PendingType, NoneIsNoRecord
    DEF Pending, Inv, OneLife, RetiredGone, Postponements, Occurrences
<1>2. CASE postponed = None
    BY <1>2, PendingType, NoneIsNoRecord
    DEF TypeOK, Pending, Restored, Inv, OneLife, RetiredGone, Records, Occurrences
<1>3. QED
    BY <1>1, <1>2

\* What the steps on a pending occurrence leave: the record, cleared or not.
LEMMA ClearInv ==
    ASSUME TypeOK, Inv, Pending # None,
           NEW p \in Postponements, p.members = Pending.members, p.due = Pending.due,
           UNCHANGED retired,
           \/ Committed(Cleared) /\ postponed' = None /\ Ring(Pending.members, Pending.due)
           \/ Committed(Cleared) /\ postponed' = None /\ UNCHANGED <<active, sounding>>
           \/ CommitFails(Cleared) /\ postponed' = p /\ UNCHANGED <<active, sounding>>
           \/ UNCHANGED <<flash, settings, active, sounding>> /\ postponed' = p
    PROVE  Inv'
<1> USE PendingInv, NoneIsNoRecord
    DEF Inv, OneLife, HalfStored, RingingEnabled, RetiredGone, TypeOK, Records, Cleared
<1>1. CASE Committed(Cleared) /\ postponed' = None /\ Ring(Pending.members, Pending.due)
    <2>1. flash' = Cleared /\ settings' = Cleared /\ postponed' = None /\ retired' = retired
        BY <1>1 DEF Committed
    <2>2. active'.members = Pending.members
        BY <1>1 DEF Ring
    <2>3. Cleared.pending = None /\ Cleared.enabled = settings.enabled
        BY DEF Cleared
    <2>4. active' # None
        <3>1. active' = [members |-> Pending.members, at |-> Pending.due,
                         stop |-> FALSE, postpone |-> FALSE]
            BY <1>1 DEF Ring
        <3>2. Pending.members \in SUBSET Alerts /\ Pending.due \in Minutes
            BY DEF Postponements
        <3>3. active' \in Actives
            BY <3>1, <3>2 DEF Actives
        <3>4. QED
            BY <3>3
    <2>5. OneLife'
        BY <2>1, <2>3, <2>4
    <2>6. HalfStored'
        BY <2>1, <2>3
    <2>7. RingingEnabled' /\ RetiredGone'
        BY <2>1, <2>2, <2>3
    <2>8. QED
        BY <2>5, <2>6, <2>7
<1>2. CASE Committed(Cleared) /\ postponed' = None /\ UNCHANGED <<active, sounding>>
    BY <1>2 DEF Committed
<1>3. CASE CommitFails(Cleared) /\ postponed' = p /\ UNCHANGED <<active, sounding>>
    BY <1>3 DEF CommitFails
<1>4. CASE UNCHANGED <<flash, settings, active, sounding>> /\ postponed' = p
    BY <1>4
<1>5. QED
    BY <1>1, <1>2, <1>3, <1>4

LEMMA NothingPending ==
    ASSUME TypeOK, Pending = None
    PROVE  postponed = None /\ settings.pending = None
<1>1. postponed = None
    BY NoneIsNoRecord DEF TypeOK, Pending
<1>2. CASE settings.pending # None
    <2>1. Pending = Restored(settings.pending) /\ settings.pending \in Occurrences
        BY <1>1, <1>2 DEF TypeOK, Pending, Records
    <2>2. Restored(settings.pending) \in Postponements
        BY <2>1 DEF Restored, Postponements, Occurrences
    <2>3. QED
        BY <2>1, <2>2, NoneIsNoRecord
<1>3. QED
    BY <1>1, <1>2

LEMMA DueEnabled == Due \subseteq settings.enabled
BY DEF Due, Matches

\* What the two commits that end an occurrence may leave.
LEMMA TerminalLeaves ==
    ASSUME TypeOK, TerminalCommits, settings.pending = None, flash.pending = None
    PROVE  /\ settings'.pending = None /\ flash'.pending = None
           /\ settings'.enabled \in {settings.enabled, Disabled.enabled}
           /\ flash'.enabled \in {flash.enabled, settings.enabled, Disabled.enabled}
           /\ Retiring \intersect settings'.enabled = {} =>
                 \/ flash'.enabled \in {settings.enabled \ Retiring}
                 \/ /\ Retiring \intersect settings.enabled = {}
                    /\ flash'.enabled \in {flash.enabled, settings.enabled}
<1> DEFINE now == <<flash, settings>>
<1> DEFINE first == IF Retiring \intersect settings.enabled = {} THEN {now}
                    ELSE Outcomes(now, Disabled)
<1>1. PICK one \in first : \E two \in Outcomes(one, [one[2] EXCEPT !.pending = None]) :
                flash' = two[1] /\ settings' = two[2]
    BY DEF TerminalCommits
<1>2. \/ Retiring \intersect settings.enabled = {} /\ one = now
      \/ /\ Retiring \intersect settings.enabled # {}
         /\ one \in {now, <<Disabled, Disabled>>, <<Disabled, settings>>}
    BY <1>1 DEF Outcomes
<1>3. Disabled.pending = None /\ Disabled.enabled = settings.enabled \ Retiring
    BY DEF Disabled
<1>4. \/ flash' = [one[2] EXCEPT !.pending = None] /\ settings' = [one[2] EXCEPT !.pending = None]
      \/ flash' = one[1] /\ settings' = one[2]
      \/ flash' = [one[2] EXCEPT !.pending = None] /\ settings' = one[2]
    BY <1>1 DEF Outcomes
<1>5. one[1].pending = None /\ one[2].pending = None
    BY <1>2, <1>3
<1>6. one[2] \in Records
    BY <1>2, ClearedType DEF TypeOK
<1>7. /\ [one[2] EXCEPT !.pending = None].pending = None
      /\ [one[2] EXCEPT !.pending = None].enabled = one[2].enabled
    BY <1>6 DEF Records
<1>8. settings'.pending = None /\ flash'.pending = None
    BY <1>4, <1>5, <1>7
<1>9. settings'.enabled = one[2].enabled /\ flash'.enabled \in {one[1].enabled, one[2].enabled}
    BY <1>4, <1>7
<1>10. QED
    BY <1>2, <1>3, <1>8, <1>9

LEMMA EvaluateInv ==
    ASSUME TypeOK, Inv, evaluate
    PROVE  Inv'
<1>1. CASE DiscardOverdue
    BY <1>1, ClearInv, PendingInv DEF DiscardOverdue
<1>2. CASE Rering
    BY <1>2, ClearInv, PendingInv DEF Rering
<1>3. CASE EndConfirmation
    <2> DEFINE p == [Pending EXCEPT !.confirmation = FALSE]
    <2>1. p \in Postponements /\ p.members = Pending.members /\ p.due = Pending.due
        BY <1>3, PendingInv DEF EndConfirmation, Postponements
    <2>2. QED
        BY <1>3, <2>1, ClearInv DEF EndConfirmation
<1>4. CASE CallBack
    <2> DEFINE p == [Pending EXCEPT !.restored = FALSE, !.cancel = FALSE]
    <2>1. p \in Postponements /\ p.members = Pending.members /\ p.due = Pending.due
        BY <1>4, PendingInv DEF CallBack, Postponements
    <2>2. QED
        BY <1>4, <2>1, ClearInv DEF CallBack
<1>5. CASE WaitForDue
    <2> DEFINE p == [Pending EXCEPT !.restored = FALSE]
    <2>1. p \in Postponements /\ p.members = Pending.members /\ p.due = Pending.due
        BY <1>5, PendingInv DEF WaitForDue, Postponements
    <2>2. QED
        BY <1>5, <2>1, ClearInv DEF WaitForDue
<1>6. CASE Postpone
    <2> DEFINE due == Later(active.at, Delay)
    <2> DEFINE record == [settings EXCEPT !.pending = [members |-> Joined, due |-> due]]
    <2>1. /\ postponed = None /\ settings.pending = None /\ active \in Actives /\ active.postpone
          /\ sounding' = FALSE /\ retired' = retired
        BY <1>6, NothingPending DEF Postpone, TypeOK
    <2>2. /\ Joined \subseteq Alerts /\ Joined \intersect retired = {}
          /\ \A a \in Joined : a \in settings.enabled \/ a \notin flash.enabled
        BY <2>1, DueEnabled, DueType, NoneIsNoRecord
        DEF Joined, Inv, RetiredGone, RingingEnabled, Actives
    <2>3. /\ record.enabled = settings.enabled
          /\ record.pending = [members |-> Joined, due |-> due]
        BY DEF TypeOK, Records
    <2>4. due \in Minutes
        BY <2>1, LaterInMinutes, TimeAssumption DEF Actives
    <2>5. [members |-> Joined, due |-> due] \in Occurrences
        BY <2>2, <2>4 DEF Occurrences
    <2>6. CASE /\ Committed(record)
               /\ postponed' = [members |-> Joined, due |-> due, confirmation |-> TRUE,
                                 restored |-> FALSE, cancel |-> FALSE]
               /\ active' = None
        BY <2>1, <2>2, <2>3, <2>5, <2>6, NoneIsNoRecord
        DEF Committed, Inv, OneLife, HalfStored, RingingEnabled, RetiredGone
    <2>7. CASE /\ CommitFails(record)
               /\ active' = [active EXCEPT !.members = Joined]
               /\ UNCHANGED postponed
        <3>1. active' # None /\ active'.postpone /\ active'.members = Joined
            <4>1. active' \in Actives
                BY <2>1, <2>2, <2>7 DEF Actives
            <4>2. QED
                BY <2>1, <2>7, <4>1, NoneIsNoRecord DEF Actives
        <3>2. flash' \in {flash, record} /\ settings' = settings
            BY <2>7 DEF CommitFails
        <3>3. flash'.enabled \in {flash.enabled, settings.enabled}
            BY <2>3, <3>2
        <3>4. OneLife' /\ HalfStored'
            BY <2>1, <2>7, <3>1, <3>2 DEF Inv, OneLife, HalfStored
        <3>5. RingingEnabled'
            BY <2>2, <3>1, <3>2, <3>3 DEF RingingEnabled
        <3>6. flash'.pending # None => flash'.pending.members \intersect retired' = {}
            <4>1. flash'.pending \in {flash.pending, record.pending} /\ retired' = retired
                BY <2>1, <3>2
            <4>2. record.pending.members = Joined
                BY <2>3
            <4>3. flash.pending # None => flash.pending.members \intersect retired = {}
                BY DEF Inv, RetiredGone
            <4>4. QED
                BY <2>2, <4>1, <4>2, <4>3
        <3>7. RetiredGone'
            BY <2>1, <2>2, <3>1, <3>2, <3>3, <3>6 DEF Inv, RetiredGone
        <3>8. QED
            BY <3>4, <3>5, <3>7 DEF Inv
    <2>8. QED
        BY <1>6, <2>6, <2>7 DEF Postpone
<1>7. CASE Stop \/ AutoStops
    <2>1. /\ postponed = None /\ settings.pending = None /\ active # None
          /\ ~active.postpone /\ EndOccurrence
        BY <1>7, NothingPending DEF Stop, AutoStops
    <2>2. flash.pending = None
        BY <2>1 DEF Inv, OneLife
    <2>3. /\ TerminalCommits /\ active' = None /\ postponed' = None /\ sounding' = FALSE
          /\ retired' = retired \union (Retiring \ settings'.enabled)
        BY <2>1 DEF EndOccurrence
    <2>4. \A a \in Retiring : a \in settings.enabled \/ a \notin flash.enabled
        BY <2>1, DueEnabled DEF Retiring, Joined, Inv, RingingEnabled
    <2>5. retired' \intersect settings'.enabled = {}
        BY <2>2, <2>1, <2>3, TerminalLeaves DEF Inv, RetiredGone, Disabled
    <2>6. retired' \intersect flash'.enabled = {}
        BY <2>2, <2>1, <2>3, <2>4, TerminalLeaves DEF Inv, RetiredGone, Disabled
    <2>7. settings'.pending = None /\ flash'.pending = None
        BY <2>1, <2>2, <2>3, TerminalLeaves
    <2>8. QED
        BY <2>3, <2>5, <2>6, <2>7
        DEF Inv, OneLife, HalfStored, RingingEnabled, RetiredGone
<1>8. CASE Sound
    <2>1. /\ postponed' = None /\ settings.pending = None /\ active \in Actives
          /\ ~active.postpone /\ flash' = flash /\ settings' = settings /\ retired' = retired
          /\ active' = [active EXCEPT !.members = Joined]
        BY <1>8, NothingPending DEF Sound, TypeOK
    <2>2. /\ Joined \subseteq Alerts /\ Joined \intersect retired = {}
          /\ \A a \in Joined : a \in settings.enabled \/ a \notin flash.enabled
        BY <2>1, DueEnabled, DueType, NoneIsNoRecord
        DEF Joined, Inv, RetiredGone, RingingEnabled, Actives
    <2>3. active' # None /\ active'.members = Joined /\ active'.postpone = active.postpone
        <3>1. active' \in Actives
            BY <2>1, <2>2 DEF Actives
        <3>2. QED
            BY <2>1, <3>1, NoneIsNoRecord DEF Actives
    <2>4. QED
        BY <2>1, <2>2, <2>3, NoneIsNoRecord
        DEF Inv, OneLife, HalfStored, RingingEnabled, RetiredGone
<1>9. CASE Raise
    <2>1. /\ postponed' = None /\ settings.pending = None /\ active = None
          /\ flash' = flash /\ settings' = settings /\ retired' = retired
        BY <1>9, NothingPending DEF Raise
    <2>2. flash.pending = None
        BY <2>1 DEF Inv, HalfStored
    <2>3. CASE Due # {}
        <3>1. active'.members = Due /\ Due \intersect retired = {}
            BY <1>9, <2>3, DueEnabled DEF Raise, Ring, Inv, RetiredGone
        <3>2. active' # None
            <4>1. active' = [members |-> Due, at |-> local, stop |-> FALSE, postpone |-> FALSE]
                BY <1>9, <2>3 DEF Raise, Ring
            <4>2. active' \in Actives
                BY <2>3, <4>1, DueType DEF Actives
            <4>3. QED
                BY <4>2, NoneIsNoRecord
        <3>3. QED
            BY <2>1, <2>2, <3>1, <3>2, DueEnabled
            DEF Inv, OneLife, HalfStored, RingingEnabled, RetiredGone
    <2>4. CASE Due = {}
        BY <1>9, <2>1, <2>4 DEF Raise, Inv, OneLife, HalfStored, RingingEnabled, RetiredGone
    <2>5. QED
        BY <2>3, <2>4
<1>10. QED
    BY <1>1, <1>2, <1>3, <1>4, <1>5, <1>6, <1>7, <1>8, <1>9 DEF evaluate

LEMMA InvNext == TypeOK /\ Inv /\ [Next]_vars => Inv'
<1> SUFFICES ASSUME TypeOK, Inv, [Next]_vars PROVE Inv'
    OBVIOUS
<1>1. CASE evaluate
    BY <1>1, EvaluateInv
<1>2. CASE Tap
    <2>1. UNCHANGED <<flash, settings, sounding, retired>>
        BY <1>2 DEF Tap
    <2>2. CASE active # None
        <3>1. active \in Actives /\ postponed' = postponed
            BY <1>2, <2>2 DEF Tap, TypeOK
        <3>2. \/ active' = [active EXCEPT !.stop = TRUE]
              \/ active' = [active EXCEPT !.postpone = TRUE]
            BY <1>2, <2>2 DEF Tap
        <3>3. active' # None /\ active'.members = active.members
              /\ (active.postpone => active'.postpone)
            <4>1. active' \in Actives
                BY <3>1, <3>2 DEF Actives
            <4>2. QED
                BY <3>1, <3>2, <4>1, NoneIsNoRecord DEF Actives
        <3>4. QED
            BY <2>1, <2>2, <3>1, <3>3
            DEF Inv, OneLife, HalfStored, RingingEnabled, RetiredGone
    <2>3. CASE active = None
        <3>1. /\ postponed \in Postponements /\ active' = None
              /\ postponed' = [postponed EXCEPT !.cancel = TRUE]
            BY <1>2, <2>3 DEF Tap, TypeOK
        <3>2. postponed'.members = postponed.members /\ postponed'.due = postponed.due
            BY <3>1 DEF Postponements
        <3>3. QED
            BY <2>1, <2>3, <3>1, <3>2, NoneIsNoRecord
            DEF Inv, OneLife, HalfStored, RingingEnabled, RetiredGone
    <2>4. QED
        BY <2>2, <2>3
<1>3. ASSUME NEW a \in Alerts, Toggle(a) PROVE Inv'
    <2> DEFINE record == [settings EXCEPT !.enabled =
                            IF a \notin settings.enabled THEN @ \union {a} ELSE @ \ {a}]
    <2>1. record.pending = settings.pending
          /\ record.enabled \subseteq settings.enabled \union {a}
        BY DEF TypeOK, Records
    <2>2. /\ active = None /\ retired' = retired \ {a}
          /\ UNCHANGED <<active, postponed, sounding>>
          /\ flash' \in {flash, record} /\ settings' \in {settings, record}
          /\ Committed(record) \/ CommitFails(record)
        BY <1>3 DEF Toggle, Committed, CommitFails
    <2>3. settings'.pending = settings.pending /\ flash'.pending \in {flash.pending, settings.pending}
        BY <2>1, <2>2
    <2>4. OneLife' /\ HalfStored' /\ RingingEnabled'
        BY <2>1, <2>2, <2>3 DEF Inv, OneLife, HalfStored, RingingEnabled
    <2>5. retired' \intersect settings'.enabled = {} /\ retired' \intersect flash'.enabled = {}
        BY <2>1, <2>2 DEF Inv, RetiredGone
    <2>6. RetiredGone'
        BY <2>2, <2>3, <2>5 DEF Inv, RetiredGone
    <2>7. QED
        BY <2>4, <2>6 DEF Inv
<1>4. CASE Tick \/ SyncClock \/ UNCHANGED vars
    BY <1>4 DEF Tick, SyncClock, vars, Inv, OneLife, HalfStored, RingingEnabled, RetiredGone
<1>5. CASE Restart
    BY <1>5 DEF Restart, Inv, OneLife, HalfStored, RingingEnabled, RetiredGone
<1>6. QED
    BY <1>1, <1>2, <1>3, <1>4, <1>5 DEF Next

LEMMA AlertInvariant == Spec => [](TypeOK /\ Inv)
<1>1. TypeOK /\ Inv /\ [Next]_vars => (TypeOK /\ Inv)'
    BY TypeNext, InvNext
<1>2. QED
    BY <1>1, TypeInit, InvInit, PTL DEF Spec

\* OneLifeAlways: OneLife for every set of alerts, any number of failed commits
\* and any number of restarts.
THEOREM OneLifeAlways == Spec => []OneLife
<1>1. Inv => OneLife
    BY DEF Inv
<1>2. QED
    BY <1>1, AlertInvariant, PTL

LEMMA RingsUnretired ==
    ASSUME TypeOK, Inv, [Next]_vars, active = None, active' # None
    PROVE  active'.members \intersect retired = {}
<1>1. CASE evaluate
    <2>1. CASE Rering \/ CallBack
        BY <2>1, PendingInv DEF Rering, CallBack, Ring
    <2>2. CASE Raise
        BY <2>2, DueEnabled DEF Raise, Ring, Inv, RetiredGone
    <2>3. CASE DiscardOverdue \/ EndConfirmation \/ WaitForDue
        BY <2>3 DEF DiscardOverdue, EndConfirmation, WaitForDue
    <2>4. CASE Postpone \/ Stop \/ AutoStops \/ Sound
        BY <2>4 DEF Postpone, Stop, AutoStops, Sound
    <2>5. QED
        BY <1>1, <2>1, <2>2, <2>3, <2>4 DEF evaluate
<1>2. CASE Tap \/ (\E a \in Alerts : Toggle(a)) \/ Tick \/ SyncClock \/ Restart \/ UNCHANGED vars
    BY <1>2 DEF Tap, Toggle, Tick, SyncClock, Restart, vars
<1>3. QED
    BY <1>1, <1>2 DEF Next

\* RetiredForGood: RetiredStaysSilent for every set of alerts and schedule.
THEOREM RetiredForGood == Spec => RetiredStaysSilent
<1>1. TypeOK /\ Inv /\ [Next]_vars =>
        [active = None /\ active' # None => active'.members \intersect retired = {}]_vars
    BY RingsUnretired
<1>2. QED
    BY <1>1, AlertInvariant, PTL DEF Spec, RetiredStaysSilent
=============================================================================
