-------------------------- MODULE AdminSiteProofs --------------------------
(***************************************************************************)
(* Who may hold a session of the administration site, and when config mode *)
(* may begin, for any number of browsers, clients, passwords and sessions. *)
(***************************************************************************)
EXTENDS AdminSite, TLAPS, FiniteSetTheorems, SequenceTheorems, WellFoundedInduction

(***************************************************************************)
(* A session outlives the derivation that opened it, so that it is in      *)
(* force must hold by induction; that its browser is the one that is held  *)
(* needs that nobody else takes the slot while a derivation runs.          *)
(***************************************************************************)
HeldByJob == job # None /\ held # None => held = job.by

FlagKnocked == flag => knocked

SiteInv == SessionsCurrent /\ HeldByJob /\ FlagKnocked

LEMMA InitSite == Init => SiteInv
BY DEF Init, ServerInit, SiteInv, SessionsCurrent, HeldByJob, FlagKnocked

\* A session opened for a derivation has the password that was just verified.
LEMMA CreateCurrent ==
    ASSUME SessionsCurrent, job.password = password, CreateSession, UNCHANGED password
    PROVE  SessionsCurrent'
BY DEF SessionsCurrent, CreateSession, Live

\* Whether a change is stored or fails, the sessions that are left are current.
LEMMA StoreCurrent ==
    ASSUME SessionsCurrent, StoreChange
    PROVE  SessionsCurrent'
BY DEF SessionsCurrent, StoreChange, KeepOnly, Live

\* The end of a derivation frees the slot and leaves only current sessions.
LEMMA FinishCurrent ==
    ASSUME SiteInv, FinishJob
    PROVE  SessionsCurrent' /\ job' = None
<1>1. SessionsCurrent BY DEF SiteInv
<1>2. job' = None BY DEF FinishJob
<1>3. CASE FinishLogin
  <2>1. UNCHANGED password BY <1>3 DEF FinishLogin
  <2>2. CASE job.password = password /\ held # None
    BY <1>1, <1>2, <1>3, <2>1, <2>2, CreateCurrent DEF FinishLogin
  <2>3. CASE ~(job.password = password /\ held # None)
    <3>1. UNCHANGED sessions BY <1>3, <2>3 DEF FinishLogin
    <3> QED BY <1>1, <1>2, <2>1, <3>1 DEF SessionsCurrent
  <2> QED BY <2>2, <2>3
<1>4. CASE FinishChange
  BY <1>1, <1>2, <1>4, StoreCurrent DEF FinishChange
<1>5. CASE FinishFails
  BY <1>1, <1>2, <1>5 DEF FinishFails, SessionsCurrent
<1> QED BY <1>3, <1>4, <1>5 DEF FinishJob

\* The half tick that advances the derivation, or what happens in its place.
LEMMA KdfKeeps ==
    ASSUME SiteInv, KdfTurn
    PROVE  SiteInv'
<1>0. SessionsCurrent /\ HeldByJob /\ FlagKnocked BY DEF SiteInv
<1>1. FlagKnocked' BY <1>0 DEF KdfTurn, Tick, FlagKnocked
<1>2. CASE StepKdf
  <2>1. CASE job = None
    BY <1>0, <1>1, <1>2, <2>1 DEF StepKdf, server, auth, SiteInv, SessionsCurrent, HeldByJob
  <2>2. CASE job # None /\ job' = [job EXCEPT !.left = @ - 1]
                        /\ UNCHANGED <<server, sessions, password, flash>>
    <3>1. job'.by = job.by BY <2>2
    <3>2. HeldByJob' BY <1>0, <2>2, <3>1 DEF server, HeldByJob
    <3> QED BY <1>0, <1>1, <2>2, <3>2 DEF SiteInv, SessionsCurrent
  <2>3. CASE FinishJob
    BY <1>1, <2>3, FinishCurrent DEF SiteInv, HeldByJob
  <2> QED BY <1>2, <2>1, <2>2, <2>3 DEF StepKdf
<1>3. CASE FinishRaises
  <2>1. SessionsCurrent'
    <3>1. CASE UNCHANGED password /\ job.password = password /\ held # None /\ CreateSession
      BY <1>0, <3>1, CreateCurrent
    <3>2. CASE UNCHANGED <<password, sessions>>
      BY <1>0, <3>2 DEF SessionsCurrent
    <3>3. CASE StoreChange
      BY <1>0, <3>3, StoreCurrent
    <3> QED BY <1>3, <3>1, <3>2, <3>3 DEF FinishRaises
  <2> QED BY <1>1, <1>3, <2>1 DEF FinishRaises, SiteInv, HeldByJob
<1>4. CASE StationDrops
  BY <1>0, <1>1, <1>4 DEF StationDrops, SiteInv, SessionsCurrent, HeldByJob
<1>5. CASE Reconnecting
  BY <1>0, <1>1, <1>5 DEF Reconnecting, server, auth, SiteInv, SessionsCurrent, HeldByJob
<1>6. CASE SetUp
  <2>1. SessionsCurrent' BY <1>0, <1>6 DEF SetUp, SessionsCurrent, Live
  <2> QED BY <1>0, <1>1, <1>6, <2>1 DEF SetUp, server, SiteInv, HeldByJob
<1> QED BY <1>2, <1>3, <1>4, <1>5, <1>6 DEF KdfTurn

\* A tick of the server opens no session, and a client takes the slot only for
\* a derivation of its own, when none runs.
LEMMA ServerKeeps ==
    ASSUME SiteInv, AcceptTurn \/ ServeTurn \/ ReadTurn
    PROVE  SiteInv'
<1>0. SessionsCurrent /\ HeldByJob /\ FlagKnocked BY DEF SiteInv
<1>1. FlagKnocked' BY <1>0 DEF AcceptTurn, ServeTurn, ReadTurn, Tick, FlagKnocked
<1>2. SessionsCurrent'
  BY <1>0 DEF AcceptTurn, ServeTurn, ReadTurn, Dispatch, auth, SessionsCurrent
<1>3. CASE AcceptTurn
  BY <1>0, <1>1, <1>2, <1>3
  DEF AcceptTurn, CloseClients, TryAccept, server, auth, SiteInv, HeldByJob
<1>4. CASE ServeTurn
  BY <1>0, <1>1, <1>2, <1>4
  DEF ServeTurn, WriteClient, PollHeld, CloseClient, server, auth, SiteInv, HeldByJob
<1>5. CASE ReadTurn
  <2>1. CASE ReadsNothing /\ UNCHANGED <<auth, loop>>
    BY <1>0, <1>1, <1>2, <2>1 DEF ReadsNothing, CloseClient, server, auth, SiteInv, HeldByJob
  <2>2. CASE Dispatch(Reader, asks[Reader])
    <3>1. CASE Responds(Reader)
      BY <1>0, <1>1, <1>2, <3>1 DEF Responds, SiteInv, HeldByJob
    <3>2. ASSUME NEW kind, NEW pw, NEW acting, StartJob(Reader, kind, pw, acting), ~Busy
          PROVE  HeldByJob'
      BY <1>0, <3>2 DEF StartJob, Busy, CloseClients, Answer, HeldByJob
    <3> QED BY <1>1, <1>2, <2>2, <3>1, <3>2 DEF Dispatch, SiteInv
  <2> QED BY <1>5, <2>1, <2>2 DEF ReadTurn
<1> QED BY <1>3, <1>4, <1>5

LEMMA StepSite == SiteInv /\ [Next]_vars => SiteInv'
<1> SUFFICES ASSUME SiteInv, [Next]_vars PROVE SiteInv'
  OBVIOUS
<1>0. SessionsCurrent /\ HeldByJob /\ FlagKnocked BY DEF SiteInv
<1> USE DEF SiteInv, SessionsCurrent, HeldByJob, FlagKnocked
<1>1. CASE KdfTurn BY <1>1, KdfKeeps
<1>2. CASE AcceptTurn \/ ServeTurn \/ ReadTurn BY <1>2, ServerKeeps
<1>3. CASE LoopTurn BY <1>0, <1>3 DEF LoopTurn, Reset, CloseAll, server, auth
<1>4. CASE Boot
  <2>1. FlagKnocked'
    <3>1. CASE flag' = FALSE BY <3>1
    <3>2. CASE flag' = flag
      <4>1. knocked' = (knocked /\ (flag => flag')) BY <1>4 DEF Boot
      <4> QED BY <1>0, <3>2, <4>1, Zenon
    <3> QED BY <1>4, <3>1, <3>2 DEF Boot
  <2> QED BY <1>0, <1>4, <2>1 DEF Boot, server, auth
<1>5. CASE Knock BY <1>0, <1>5 DEF Knock, server, auth
<1>6. CASE PowerLoss BY <1>0, <1>6 DEF PowerLoss, Reset, CloseAll
<1>7. CASE Expires BY <1>0, <1>7 DEF Expires, server
<1>8. CASE Time BY <1>0, <1>8 DEF Time, server, auth
<1>9. CASE Browse BY <1>0, <1>9 DEF Browse, Opens, Sends, Closes, auth
<1>10. CASE UNCHANGED vars BY <1>0, <1>10 DEF vars, server, auth
<1> QED BY <1>1, <1>2, <1>3, <1>4, <1>5, <1>6, <1>7, <1>8, <1>9, <1>10 DEF Next, Loop

LEMMA SiteAlways == Spec => []SiteInv
BY InitSite, StepSite, PTL DEF Spec

(***************************************************************************)
(* SessionsCurrentAlways: no session outlives a change of the password by  *)
(* another one, whenever derivations, drops, failing commits and failing   *)
(* answers fall together.                                                  *)
(***************************************************************************)
THEOREM SessionsCurrentAlways == Spec => []SessionsCurrent
<1>1. SiteInv => SessionsCurrent BY DEF SiteInv
<1> QED BY <1>1, SiteAlways, PTL

(***************************************************************************)
(* SessionEarnedAlways: a session is opened only for the browser that sent *)
(* the password in force and still waits for the answer.                   *)
(***************************************************************************)
THEOREM SessionEarnedAlways == Spec => SessionEarned
<1> DEFINE Earned == Live' \ Live # {}
                        => job # None /\ job.kind = "login" /\ job.password = password /\ held = job.by
<1>1. SiteInv /\ [Next]_vars => [Earned]_vars
  <2> SUFFICES ASSUME SiteInv, Next, Live' \ Live # {}
               PROVE  job # None /\ job.kind = "login" /\ job.password = password /\ held = job.by
    OBVIOUS
  <2>0. HeldByJob BY DEF SiteInv
  <2>1. ASSUME sessions' \subseteq sessions PROVE FALSE BY <2>1 DEF Live
  <2>2. ASSUME StoreChange PROVE FALSE BY <2>1, <2>2 DEF StoreChange, KeepOnly, Live
  <2>3. ASSUME SetUp PROVE FALSE
    <3>1. CASE UNCHANGED sessions BY <2>1, <3>1
    <3>2. CASE \E p \in Passwords : sessions' = {[id |-> id, password |-> p] : id \in Live}
      BY <3>2 DEF Live
    <3> QED BY <2>3, <3>1, <3>2 DEF SetUp
  <2>4. CASE StepKdf \/ FinishRaises
    BY <2>0, <2>1, <2>2, <2>4
    DEF StepKdf, FinishRaises, FinishJob, FinishLogin, FinishChange, FinishFails, auth, HeldByJob
  <2>5. CASE StationDrops \/ Reconnecting BY <2>1, <2>5 DEF StationDrops, Reconnecting, auth
  <2>6. CASE AcceptTurn \/ ServeTurn \/ ReadTurn
    BY <2>1, <2>6 DEF AcceptTurn, ServeTurn, ReadTurn, Dispatch, auth
  <2>7. CASE LoopTurn \/ PowerLoss BY <2>1, <2>7 DEF LoopTurn, PowerLoss, Reset, auth
  <2>8. CASE Boot \/ Knock \/ Time \/ Browse BY <2>1, <2>8 DEF Boot, Knock, Time, Browse, auth
  <2>9. CASE Expires BY <2>1, <2>9 DEF Expires
  <2> QED BY <2>3, <2>4, <2>5, <2>6, <2>7, <2>8, <2>9 DEF Next, Loop, KdfTurn
<1> QED BY <1>1, SiteAlways, PTL DEF Spec, SessionEarned

(***************************************************************************)
(* OneKnockAlways: config mode begins only after a knock it has not served *)
(* before, whatever resets, crashes and failed writes of the flag do.      *)
(***************************************************************************)
THEOREM OneKnockAlways == Spec => OneKnockOneSession
<1>1. SiteInv /\ [Next]_vars => [device # "config" /\ device' = "config" => knocked]_vars
  <2> SUFFICES ASSUME SiteInv, Next, device # "config", device' = "config" PROVE knocked
    OBVIOUS
  <2>1. Boot
    BY DEF Next, Loop, KdfTurn, AcceptTurn, ServeTurn, ReadTurn, LoopTurn, Tick, Reset,
           Knock, PowerLoss, Expires, Time, Browse
  <2> QED BY <2>1 DEF Boot, SiteInv, FlagKnocked
<1> QED BY <1>1, SiteAlways, PTL DEF Spec, OneKnockOneSession

-----------------------------------------------------------------------------
(***************************************************************************)
(* The slots of the server: no client sits in two of them, what is sent,   *)
(* answered or held belongs to a client, and what is answered is not held. *)
(* The last needs that a request is only read when no answer is waiting.   *)
(***************************************************************************)
Distinct == \A i, j \in DOMAIN clients : clients[i] = clients[j] => i = j

SlotsInv == ServerTypeOK /\ Distinct

\* Nothing of the server hangs on to a client that is not there.
LEMMA SlotFacts ==
    ASSUME SlotsInv
    PROVE  /\ Len(clients) \in Nat /\ DOMAIN clients = 1 .. Len(clients)
           /\ Clients \subseteq Browsers /\ None \notin Clients
           /\ \A i \in DOMAIN clients : clients[i] \in Browsers
<1>1. clients \in Seq(Browsers)
    BY DEF SlotsInv, ServerTypeOK
<1>2. Len(clients) \in Nat /\ DOMAIN clients = 1 .. Len(clients)
    BY <1>1, LenProperties
<1>3. \A i \in DOMAIN clients : clients[i] \in Browsers
    BY <1>1, <1>2, ElementOfSeq
<1>4. None \notin Browsers
    BY ServerAssumption
<1> QED BY <1>2, <1>3, <1>4 DEF Clients

LEMMA FirstIsOne ==
    ASSUME SlotsInv, NEW S, S \subseteq Clients, S # {}
    PROVE  First(S) \in S
<1> DEFINE T == {i \in DOMAIN clients : clients[i] \in S}
<1>1. T \subseteq Nat /\ T # {}
    BY SlotFacts DEF Clients
<1>2. PICK i \in T : \A j \in T : ~(<<j, i>> \in OpToRel(<, Nat))
    BY <1>1, NatLessThanWellFounded, WFMin
<1>3. \A j \in T : ~(j < i)
    BY <1>1, <1>2 DEF OpToRel
<1>4. i \in DOMAIN clients /\ clients[i] \in S /\ \A j \in 1 .. (i - 1) : clients[j] \notin S
    BY <1>1, <1>3, SlotFacts
<1> QED BY <1>4 DEF First

LEMMA WithoutIt ==
    ASSUME SlotsInv, NEW b \in Clients
    PROVE  /\ Without(b) \in Seq(Browsers) /\ Len(Without(b)) = Len(clients) - 1
           /\ {Without(b)[i] : i \in DOMAIN Without(b)} = Clients \ {b}
           /\ \A i, j \in DOMAIN Without(b) : Without(b)[i] = Without(b)[j] => i = j
<1> DEFINE n == Len(clients)
           place == CHOOSE i \in DOMAIN clients : clients[i] = b
           w == [i \in 1 .. n - 1 |-> clients[IF i < place THEN i ELSE i + 1]]
<1>1. n \in Nat /\ DOMAIN clients = 1 .. n /\ \A i \in 1 .. n : clients[i] \in Browsers
    BY SlotFacts
<1>2. place \in 1 .. n /\ clients[place] = b
    BY <1>1 DEF Clients
<1>3. Without(b) = w
    BY DEF Without
<1> HIDE DEF place
<1>4. \A i \in 1 .. n - 1 : w[i] \in Browsers
    BY <1>1, <1>2
<1>5. w \in Seq(Browsers) /\ Len(w) = n - 1 /\ DOMAIN w = 1 .. n - 1
    BY <1>1, <1>2, <1>4
<1>6. \A i, j \in 1 .. n - 1 : w[i] = w[j] => i = j
    BY <1>1, <1>2 DEF SlotsInv, Distinct
<1>7. \A i \in 1 .. n - 1 : w[i] \in Clients \ {b}
    BY <1>1, <1>2 DEF SlotsInv, Distinct, Clients
<1>8. ASSUME NEW c \in Clients, c # b PROVE \E i \in 1 .. n - 1 : w[i] = c
    <2>1. PICK k \in 1 .. n : clients[k] = c
        BY <1>1 DEF Clients
    <2>2. CASE k < place
        <3>1. k \in 1 .. n - 1 /\ w[k] = c
            BY <1>1, <1>2, <2>1, <2>2
        <3> QED BY <3>1
    <2>3. CASE ~(k < place)
        <3>1. k > place
            BY <1>1, <1>2, <1>8, <2>1, <2>3
        <3>2. k - 1 \in 1 .. n - 1 /\ w[k - 1] = c
            BY <1>1, <1>2, <2>1, <3>1
        <3> QED BY <3>2
    <2> QED BY <2>2, <2>3
<1> HIDE DEF w
<1>9. {w[i] : i \in DOMAIN w} = Clients \ {b}
    <2>1. {w[i] : i \in DOMAIN w} \subseteq Clients \ {b}
        BY <1>5, <1>7
    <2>2. Clients \ {b} \subseteq {w[i] : i \in DOMAIN w}
        BY <1>5, <1>8
    <2> QED BY <2>1, <2>2
<1>10. \A i, j \in DOMAIN w : w[i] = w[j] => i = j
    BY <1>5, <1>6
<1> QED BY <1>3, <1>5, <1>9, <1>10

-----------------------------------------------------------------------------
(* What the operations of the server do to its slots. *)

\* Closing one client lets go of everything it had.
LEMMA CloseClientKeeps ==
    ASSUME SlotsInv, NEW b \in Clients, CloseClient(b)
    PROVE  SlotsInv' /\ answers' = answers \ {b}
<1>1. /\ clients' = Without(b) /\ held' = (IF held = b THEN None ELSE held)
      /\ wire' = [wire EXCEPT ![b] = "none"] /\ asks' = [asks EXCEPT ![b] = None]
      /\ answers' = answers \ {b}
    BY DEF CloseClient
<1>2. /\ clients' \in Seq(Browsers) /\ Len(clients') = Len(clients) - 1
      /\ Clients' = Clients \ {b} /\ Distinct'
    <2>1. Clients' = {Without(b)[i] : i \in DOMAIN Without(b)}
        BY <1>1 DEF Clients
    <2>2. Distinct'
        BY <1>1, WithoutIt DEF Distinct
    <2> QED BY <1>1, <2>1, <2>2, WithoutIt
<1>3. b \in Browsers /\ None \notin Clients /\ Len(clients) \in Nat
    BY SlotFacts
<1>4. Len(clients') <= MaxClients
    BY <1>2, <1>3, ServerAssumption DEF SlotsInv, ServerTypeOK
<1>5. /\ wire' \in [Browsers -> {"none", "waiting", "open", "closed"}]
      /\ asks' \in [Browsers -> Requests \union {None}]
    BY <1>1 DEF SlotsInv, ServerTypeOK
<1>6. answers' \subseteq Clients' /\ held' \in Clients' \union {None} /\ held' \notin answers'
    BY <1>1, <1>2, <1>3 DEF SlotsInv, ServerTypeOK
<1>7. ASSUME NEW c \in Browsers
      PROVE  /\ c \in Clients' <=> wire'[c] \in {"open", "closed"}
             /\ asks'[c] # None => c \in Clients'
    <2>1. CASE c = b
        BY <1>1, <1>2, <2>1 DEF SlotsInv, ServerTypeOK
    <2>2. CASE c # b
        BY <1>1, <1>2, <2>2 DEF SlotsInv, ServerTypeOK
    <2> QED BY <2>1, <2>2
<1> QED BY <1>1, <1>2, <1>4, <1>5, <1>6, <1>7 DEF SlotsInv, ServerTypeOK

LEMMA CloseAllKeeps ==
    ASSUME SlotsInv, CloseClients \/ CloseAll
    PROVE  SlotsInv' /\ answers' = {}
<1>1. clients' = <<>> /\ answers' = {} /\ held' = None /\ asks' = [b \in Browsers |-> None]
    BY DEF CloseClients, CloseAll
<1>2. clients' \in Seq(Browsers) /\ Len(clients') = 0 /\ Clients' = {} /\ Distinct'
    BY <1>1 DEF Clients, Distinct
<1>3. /\ wire' \in [Browsers -> {"none", "waiting", "open", "closed"}]
      /\ \A b \in Browsers : wire'[b] \notin {"open", "closed"}
    BY DEF CloseClients, CloseAll, SlotsInv, ServerTypeOK
<1>4. asks' \in [Browsers -> Requests \union {None}]
    BY <1>1
<1>5. 0 <= MaxClients
    BY ServerAssumption
<1> QED BY <1>1, <1>2, <1>3, <1>4, <1>5 DEF SlotsInv, ServerTypeOK

LEMMA AcceptKeeps == ASSUME SlotsInv, TryAccept PROVE SlotsInv'
<1>1. CASE UNCHANGED server
    BY <1>1 DEF server, SlotsInv, ServerTypeOK, Distinct, Clients
<1>2. ASSUME NEW b \in Browsers, Len(clients) < MaxClients, wire[b] = "waiting",
             wire' = [wire EXCEPT ![b] = "open"], clients' = Append(clients, b),
             UNCHANGED <<asks, answers, held>>
      PROVE  SlotsInv'
    <2> DEFINE n == Len(clients)
    <2>1. n \in Nat /\ DOMAIN clients = 1 .. n /\ \A i \in 1 .. n : clients[i] \in Browsers
        BY SlotFacts
    <2>2. /\ clients' \in Seq(Browsers) /\ Len(clients') = n + 1 /\ DOMAIN clients' = 1 .. n + 1
          /\ \A i \in 1 .. n : clients'[i] = clients[i]
          /\ clients'[n + 1] = b
        BY <1>2, <2>1, AppendProperties DEF SlotsInv, ServerTypeOK
    <2>3. Clients' = Clients \union {b}
        BY <2>1, <2>2 DEF Clients
    <2>4. b \notin Clients
        BY <1>2 DEF SlotsInv, ServerTypeOK
    <2>5. Distinct'
        <3> SUFFICES ASSUME NEW i \in 1 .. n + 1, NEW j \in 1 .. n + 1, clients'[i] = clients'[j]
                     PROVE  i = j
            BY <2>2 DEF Distinct
        <3>1. \A k \in 1 .. n : clients'[k] # b
            BY <2>1, <2>2, <2>4 DEF Clients
        <3> QED BY <2>1, <2>2, <3>1 DEF SlotsInv, Distinct
    <2>6. Len(clients') <= MaxClients
        BY <1>2, <2>1, <2>2, ServerAssumption
    <2>7. wire' \in [Browsers -> {"none", "waiting", "open", "closed"}]
        BY <1>2 DEF SlotsInv, ServerTypeOK
    <2>8. \A c \in Browsers : c \in Clients' <=> wire'[c] \in {"open", "closed"}
        BY <1>2, <2>3 DEF SlotsInv, ServerTypeOK
    <2> QED BY <1>2, <2>2, <2>3, <2>5, <2>6, <2>7, <2>8 DEF SlotsInv, ServerTypeOK
<1> QED BY <1>1, <1>2 DEF TryAccept

\* The held client is answered, and whoever sends a page or a refused request.
LEMMA AnswerHeldKeeps == ASSUME SlotsInv, AnswerHeld PROVE SlotsInv'
<1>1. UNCHANGED <<wire, asks, clients>> /\ held' = None
    BY DEF AnswerHeld
<1>2. answers' \subseteq Clients' /\ Clients' = Clients /\ (Distinct' <=> Distinct)
    BY <1>1 DEF AnswerHeld, SlotsInv, ServerTypeOK, Clients, Distinct
<1>3. held' \notin answers'
    BY <1>1, <1>2, SlotFacts
<1> QED BY <1>1, <1>2, <1>3 DEF SlotsInv, ServerTypeOK

LEMMA AnswerKeeps ==
    ASSUME SlotsInv, NEW b \in Clients, b # held, Answer(b),
           asks' = [asks EXCEPT ![b] = None], UNCHANGED held
    PROVE  SlotsInv'
<1>1. UNCHANGED <<wire, clients>> /\ answers' = answers \union {b}
    BY DEF Answer
<1>2. Clients' = Clients /\ (Distinct' <=> Distinct)
    BY <1>1 DEF Clients, Distinct
<1> QED BY <1>1, <1>2 DEF SlotsInv, ServerTypeOK

LEMMA HoldKeeps ==
    ASSUME SlotsInv, NEW b \in Clients, b \notin answers, held' = b,
           asks' = [asks EXCEPT ![b] = None], UNCHANGED <<wire, clients, answers>>
    PROVE  SlotsInv'
<1>1. Clients' = Clients /\ (Distinct' <=> Distinct)
    BY DEF Clients, Distinct
<1> QED BY <1>1 DEF SlotsInv, ServerTypeOK

LEMMA ServerStays == ASSUME SlotsInv, UNCHANGED server PROVE SlotsInv'
BY DEF server, SlotsInv, ServerTypeOK, Distinct, Clients

\* What browsers do touches no slot.
LEMMA BrowserKeeps ==
    ASSUME SlotsInv, NEW b \in Browsers, Opens(b) \/ Sends(b) \/ Closes(b)
    PROVE  SlotsInv'
<1>1. UNCHANGED <<clients, answers, held>>
    BY DEF Opens, Sends, Closes
<1>2. Clients' = Clients /\ (Distinct' <=> Distinct)
    BY <1>1 DEF Clients, Distinct
<1>3. CASE Opens(b) \/ Closes(b)
    BY <1>1, <1>2, <1>3 DEF Opens, Closes, SlotsInv, ServerTypeOK
<1>4. CASE Sends(b)
    <2>1. b \in Clients
        BY <1>4 DEF Sends, SlotsInv, ServerTypeOK
    <2> QED BY <1>1, <1>2, <1>4, <2>1 DEF Sends, SlotsInv, ServerTypeOK
<1> QED BY <1>3, <1>4

-----------------------------------------------------------------------------
(* The session table. *)

TableInv == sessions \subseteq Sessions /\ IsFiniteSet(sessions) /\ Cardinality(sessions) <= SessionMax

AuthInv ==
    /\ TableInv
    /\ job \in Jobs \union {None}
    /\ password \in Passwords /\ flash \in Passwords

LEMMA EmptyTable == ASSUME sessions' = {} PROVE TableInv'
BY FS_EmptySet, SiteAssumption DEF TableInv

LEMMA FewerSessions ==
    ASSUME TableInv, sessions' \subseteq sessions
    PROVE  TableInv'
<1>1. IsFiniteSet(sessions') /\ Cardinality(sessions') <= Cardinality(sessions)
    BY FS_Subset DEF TableInv
<1>2. Cardinality(sessions) \in Nat /\ Cardinality(sessions') \in Nat
    BY <1>1, FS_CardinalityType DEF TableInv
<1> QED BY <1>1, <1>2, SiteAssumption DEF TableInv

LEMMA CreateKeeps ==
    ASSUME TableInv, job \in Jobs, CreateSession
    PROVE  TableInv'
<1>1. CASE UNCHANGED sessions
    BY <1>1 DEF TableInv
<1>2. ASSUME NEW id \in SessionIds, Cardinality(sessions) < SessionMax,
             sessions' = sessions \union {[id |-> id, password |-> job.password]}
      PROVE  TableInv'
    <2> DEFINE s == [id |-> id, password |-> job.password]
    <2>1. s \in Sessions
        BY DEF Sessions, Jobs
    <2> HIDE DEF s
    <2>2. /\ IsFiniteSet(sessions \union {s}) /\ Cardinality(sessions) \in Nat
          /\ Cardinality(sessions \union {s}) = IF s \in sessions THEN Cardinality(sessions)
                                                ELSE Cardinality(sessions) + 1
        BY FS_AddElement, FS_CardinalityType DEF TableInv
    <2>3. sessions' = sessions \union {s}
        BY <1>2 DEF s
    <2>4. Cardinality(sessions \union {s}) <= SessionMax
        BY <1>2, <2>2, SiteAssumption
    <2>5. sessions \union {s} \subseteq Sessions
        BY <2>1 DEF TableInv
    <2> QED BY <2>2, <2>3, <2>4, <2>5 DEF TableInv
<1> QED BY <1>1, <1>2 DEF CreateSession

LEMMA StoreKeeps ==
    ASSUME AuthInv, job \in Jobs, StoreChange
    PROVE  TableInv' /\ password' \in Passwords /\ flash' \in Passwords
<1>1. job.password \in Passwords
    BY DEF Jobs
<1>2. password' \in Passwords /\ flash' \in Passwords
    BY <1>1 DEF StoreChange, AuthInv
<1>3. CASE UNCHANGED sessions
    BY <1>2, <1>3 DEF AuthInv, TableInv
<1>4. CASE KeepOnly(job.acting)
    <2>1. CASE sessions' = {}
        BY <1>2, <2>1, EmptyTable
    <2>2. CASE job.acting \in Live /\ sessions' = {[id |-> job.acting, password |-> job.password]}
        <3> DEFINE s == [id |-> job.acting, password |-> job.password]
        <3>1. job.acting \in SessionIds
            <4>1. PICK s1 \in sessions : s1.id = job.acting
                BY <2>2 DEF Live
            <4>2. s1 \in Sessions
                BY DEF AuthInv, TableInv
            <4> QED BY <4>1, <4>2 DEF Sessions
        <3>2. s \in Sessions
            BY <1>1, <3>1 DEF Sessions
        <3> HIDE DEF s
        <3>3. sessions' = {s}
            BY <2>2 DEF s
        <3>4. IsFiniteSet({s}) /\ Cardinality({s}) = 1
            BY FS_Singleton
        <3> QED BY <1>2, <3>2, <3>3, <3>4, SiteAssumption DEF TableInv
    <2> QED BY <1>4, <2>1, <2>2 DEF KeepOnly
<1> QED BY <1>3, <1>4 DEF StoreChange

\* A setup gives every session its password: no more of them than before.
LEMMA SetUpKeeps ==
    ASSUME TableInv, NEW p \in Passwords,
           sessions' = {[id |-> id, password |-> p] : id \in Live}
    PROVE  TableInv'
<1> DEFINE f == [s \in sessions |-> [id |-> s.id, password |-> p]]
<1>1. sessions' \subseteq Sessions
    BY DEF TableInv, Live, Sessions
<1>2. f \in Surjection(sessions, sessions')
    BY DEF Surjection, Live
<1>3. IsFiniteSet(sessions') /\ Cardinality(sessions') <= Cardinality(sessions)
    BY <1>2, FS_Surjection DEF TableInv
<1>4. Cardinality(sessions) \in Nat /\ Cardinality(sessions') \in Nat
    BY <1>3, FS_CardinalityType DEF TableInv
<1> QED BY <1>1, <1>3, <1>4, SiteAssumption DEF TableInv

-----------------------------------------------------------------------------
(* Each turn of the loop keeps the types. *)

ControlInv ==
    /\ device \in {"off", "clock", "config"} /\ flag \in BOOLEAN /\ knocked \in BOOLEAN
    /\ phase \in Phases /\ online \in BOOLEAN /\ backoff \in BOOLEAN /\ exit \in BOOLEAN
    /\ idle \in 0..IdleLimit

ReadAlone == phase = "read" => answers = {}

TypeInv == SlotsInv /\ AuthInv /\ ControlInv /\ ReadAlone

LEMMA FinishKeepsTypes ==
    ASSUME TypeInv, job # None, FinishJob
    PROVE  SlotsInv' /\ AuthInv'
<1>1. job \in Jobs /\ job' = None /\ AnswerHeld
    BY DEF TypeInv, AuthInv, FinishJob, FinishLogin, FinishChange, FinishFails
<1>2. SlotsInv'
    BY <1>1, AnswerHeldKeeps DEF TypeInv
<1>3. TableInv' /\ password' \in Passwords /\ flash' \in Passwords
    <2>1. CASE FinishLogin
        <3>1. UNCHANGED <<password, flash>> /\ (CreateSession \/ UNCHANGED sessions)
            BY <2>1 DEF FinishLogin
        <3> QED BY <1>1, <3>1, CreateKeeps DEF TypeInv, AuthInv, TableInv
    <2>2. CASE FinishChange
        BY <1>1, <2>2, StoreKeeps DEF FinishChange, TypeInv
    <2>3. CASE FinishFails
        BY <2>3 DEF FinishFails, TypeInv, AuthInv, TableInv
    <2> QED BY <2>1, <2>2, <2>3 DEF FinishJob
<1> QED BY <1>1, <1>2, <1>3 DEF AuthInv

LEMMA KdfKeepsTypes == ASSUME TypeInv, KdfTurn PROVE TypeInv'
<1>1. /\ device' = device /\ flag' = flag /\ knocked' = knocked
      /\ phase' \in {"accept", "loop"}
    BY DEF KdfTurn, Tick
<1>2. ReadAlone' /\ phase' \in Phases
    BY <1>1 DEF ReadAlone, Phases
<1>3. ASSUME UNCHANGED loop PROVE ControlInv'
    BY <1>1, <1>2, <1>3 DEF loop, TypeInv, ControlInv
<1>4. CASE StepKdf
    <2>1. CASE UNCHANGED <<server, auth>>
        <3>1. SlotsInv' /\ AuthInv'
            BY <2>1, ServerStays DEF auth, TypeInv, AuthInv, TableInv
        <3> QED BY <1>2, <1>3, <1>4, <3>1 DEF StepKdf, TypeInv
    <2>2. CASE /\ job # None /\ job.left > 1 /\ job' = [job EXCEPT !.left = @ - 1]
               /\ UNCHANGED <<server, sessions, password, flash>>
        <3>1. job' \in Jobs
            BY <2>2, SiteAssumption DEF TypeInv, AuthInv, Jobs
        <3>2. SlotsInv' /\ AuthInv'
            BY <2>2, <3>1, ServerStays DEF TypeInv, AuthInv, TableInv
        <3> QED BY <1>2, <1>3, <1>4, <3>2 DEF StepKdf, TypeInv
    <2>3. CASE job # None /\ FinishJob
        BY <1>2, <1>3, <1>4, <2>3, FinishKeepsTypes DEF StepKdf, TypeInv
    <2> QED BY <1>4, <2>1, <2>2, <2>3 DEF StepKdf
<1>5. CASE FinishRaises
    <2>1. job \in Jobs /\ job' = None /\ UNCHANGED <<server, loop>>
        BY <1>5 DEF FinishRaises, TypeInv, AuthInv
    <2>2. TableInv' /\ password' \in Passwords /\ flash' \in Passwords
        <3>1. CASE UNCHANGED <<password, flash>> /\ (CreateSession \/ UNCHANGED sessions)
            BY <2>1, <3>1, CreateKeeps DEF TypeInv, AuthInv, TableInv
        <3>2. CASE StoreChange
            BY <2>1, <3>2, StoreKeeps DEF TypeInv
        <3> QED BY <1>5, <3>1, <3>2 DEF FinishRaises
    <2> QED BY <1>2, <1>3, <2>1, <2>2, ServerStays DEF TypeInv, AuthInv
<1>6. CASE StationDrops
    <2>1. SlotsInv' /\ AuthInv'
        BY <1>6, CloseAllKeeps DEF StationDrops, TypeInv, AuthInv, TableInv
    <2>2. ControlInv'
        BY <1>1, <1>2, <1>6 DEF StationDrops, TypeInv, ControlInv
    <2> QED BY <1>2, <2>1, <2>2 DEF TypeInv
<1>7. CASE Reconnecting
    <2>1. SlotsInv' /\ AuthInv'
        BY <1>7, ServerStays DEF Reconnecting, auth, TypeInv, AuthInv, TableInv
    <2>2. ControlInv'
        BY <1>1, <1>2, <1>7 DEF Reconnecting, TypeInv, ControlInv
    <2> QED BY <1>2, <2>1, <2>2 DEF TypeInv
<1>8. CASE SetUp
    <2>1. UNCHANGED <<server, job, backoff, exit, idle>> /\ online' \in BOOLEAN
        BY <1>8 DEF SetUp, TypeInv, ControlInv
    <2>2. TableInv' /\ password' \in Passwords /\ flash' \in Passwords
        <3>1. PICK p \in Passwords :
                  /\ flash' = p
                  /\ \/ password' = p /\ sessions' = {[id |-> id, password |-> p] : id \in Live}
                     \/ UNCHANGED <<password, sessions>>
            BY <1>8 DEF SetUp
        <3> QED BY <3>1, SetUpKeeps DEF TypeInv, AuthInv, TableInv
    <2>3. ControlInv'
        BY <1>1, <1>2, <2>1 DEF TypeInv, ControlInv
    <2> QED BY <1>2, <2>1, <2>2, <2>3, ServerStays DEF TypeInv, AuthInv
<1> QED BY <1>4, <1>5, <1>6, <1>7, <1>8 DEF KdfTurn

LEMMA ServeKeepsTypes == ASSUME TypeInv, AcceptTurn \/ ServeTurn PROVE TypeInv'
<1>1. /\ device' = device /\ flag' = flag /\ knocked' = knocked /\ phase' \in Phases
      /\ online' = online /\ exit' = exit /\ idle' = idle /\ backoff' \in {backoff, TRUE}
      /\ UNCHANGED auth
    BY DEF AcceptTurn, ServeTurn, Tick, loop, Phases
<1>2. ControlInv' /\ AuthInv'
    BY <1>1 DEF TypeInv, ControlInv, AuthInv, TableInv, auth
<1>3. CASE AcceptTurn
    <2>1. SlotsInv'
        BY <1>3, CloseAllKeeps, AcceptKeeps, ServerStays DEF AcceptTurn, TypeInv
    <2>2. phase' # "read"
        BY <1>3 DEF AcceptTurn, Tick
    <2> QED BY <1>2, <2>1, <2>2 DEF TypeInv, ReadAlone
<1>4. CASE ServeTurn /\ WriteClient /\ phase' = "loop"
    <2>1. answers # {} /\ answers \subseteq Clients
        BY <1>4 DEF WriteClient, TypeInv, SlotsInv, ServerTypeOK
    <2>2. First(answers) \in Clients
        BY <2>1, FirstIsOne DEF TypeInv
    <2>3. SlotsInv'
        BY <1>4, <2>2, CloseClientKeeps, ServerStays DEF WriteClient, TypeInv
    <2> QED BY <1>2, <1>4, <2>3 DEF TypeInv, ReadAlone
<1>5. CASE ServeTurn /\ answers = {} /\ PollHeld
    <2>1. SlotsInv' /\ answers' = {}
        <3>1. CASE UNCHANGED server
            BY <1>5, <3>1, ServerStays DEF TypeInv, server
        <3>2. CASE held # None /\ CloseClient(held)
            <4>1. held \in Clients
                BY <3>2 DEF TypeInv, SlotsInv, ServerTypeOK
            <4> QED BY <1>5, <3>2, <4>1, CloseClientKeeps DEF TypeInv
        <3> QED BY <1>5, <3>1, <3>2 DEF PollHeld
    <2> QED BY <1>2, <2>1 DEF TypeInv, ReadAlone
<1> QED BY <1>3, <1>4, <1>5 DEF ServeTurn, Tick

LEMMA ReadKeepsTypes == ASSUME TypeInv, ReadTurn PROVE TypeInv'
<1> DEFINE b == Reader
<1>1. /\ device' = device /\ flag' = flag /\ knocked' = knocked /\ phase' = "loop"
      /\ answers = {}
    BY DEF ReadTurn, Tick, TypeInv, ReadAlone
<1>2. ReadAlone' /\ phase' \in Phases
    BY <1>1 DEF ReadAlone, Phases
<1>3. ASSUME ~(Clients \subseteq {held}) PROVE b \in Clients /\ b # held
    <2>1. Clients \ {held} # {}
        BY <1>3
    <2> QED BY <2>1, FirstIsOne DEF TypeInv, Reader
<1>4. CASE ReadsNothing /\ UNCHANGED <<auth, loop>>
    <2>1. SlotsInv'
        <3>1. CASE UNCHANGED server
            BY <3>1, ServerStays DEF TypeInv
        <3>2. CASE ~(Clients \subseteq {held}) /\ CloseClient(b)
            BY <1>3, <3>2, CloseClientKeeps DEF TypeInv
        <3> QED BY <1>4, <3>1, <3>2 DEF ReadsNothing
    <2>2. ControlInv' /\ AuthInv'
        BY <1>1, <1>2, <1>4 DEF TypeInv, ControlInv, AuthInv, TableInv, auth, loop
    <2> QED BY <1>2, <2>1, <2>2 DEF TypeInv
<1>5. CASE ~(Clients \subseteq {held}) /\ asks[b] # None /\ Dispatch(b, asks[b])
    <2> DEFINE q == asks[b]
    <2>1. b \in Clients /\ b # held /\ b \in Browsers
        BY <1>3, <1>5, SlotFacts DEF TypeInv
    <2>2. q \in Requests
        BY <1>5, <2>1 DEF TypeInv, SlotsInv, ServerTypeOK
    <2>3. q.kind \in {"login", "change"} => q.password \in Passwords
        BY <2>2 DEF Requests
    <2> HIDE DEF b, q
    <2>4. /\ UNCHANGED <<sessions, password, online, idle>>
          /\ exit' \in BOOLEAN /\ flash' \in {flash, password}
        <3>1. UNCHANGED <<sessions, password, online, idle>> /\ flash' \in {flash, password}
            BY <1>5 DEF Dispatch, q
        <3>2. exit' \in {exit, exit \/ q.kind = "page"}
            BY <1>5 DEF Dispatch, q
        <3>3. exit' \in BOOLEAN
            BY <3>2, Zenon DEF TypeInv, ControlInv
        <3> QED BY <3>1, <3>3
    <2>5. ASSUME job' \in Jobs \union {None}, backoff' \in {backoff, TRUE}, SlotsInv'
          PROVE  TypeInv'
        <3>1. ControlInv'
            BY <1>1, <1>2, <2>4, <2>5 DEF TypeInv, ControlInv
        <3>2. AuthInv'
            BY <2>4, <2>5 DEF TypeInv, AuthInv, TableInv
        <3> QED BY <1>2, <2>5, <3>1, <3>2 DEF TypeInv
    <2>6. CASE Responds(b)
        BY <2>1, <2>5, <2>6, AnswerKeeps DEF Responds, TypeInv, AuthInv
    <2>7. ASSUME NEW kind \in {"login", "change"}, NEW acting \in SessionIds \union {None},
                 q.password \in Passwords, StartJob(b, kind, q.password, acting)
          PROVE  TypeInv'
        <3>1. CASE /\ job' = [kind |-> kind, by |-> b, password |-> q.password, acting |-> acting,
                              left |-> KdfSteps]
                   /\ held' = b /\ asks' = [asks EXCEPT ![b] = None]
                   /\ UNCHANGED <<wire, clients, answers, backoff>>
            <4>1. KdfSteps \in 1 .. KdfSteps
                BY SiteAssumption
            <4>2. job' \in Jobs
                BY <2>1, <2>7, <3>1, <4>1 DEF Jobs
            <4>3. SlotsInv'
                BY <1>1, <2>1, <3>1, HoldKeeps DEF TypeInv
            <4> QED BY <2>5, <3>1, <4>2, <4>3
        <3>2. CASE Answer(b) /\ asks' = [asks EXCEPT ![b] = None] /\ UNCHANGED <<job, held, backoff>>
            BY <2>1, <2>5, <3>2, AnswerKeeps DEF TypeInv, AuthInv
        <3>3. CASE CloseClients /\ backoff' = TRUE /\ UNCHANGED job
            BY <2>5, <3>3, CloseAllKeeps DEF TypeInv, AuthInv
        <3> QED BY <2>7, <3>1, <3>2, <3>3 DEF StartJob
    <2>8. Live \subseteq SessionIds
        BY DEF TypeInv, AuthInv, TableInv, Live, Sessions
    <2>9. \/ Responds(b)
          \/ q.kind = "login" /\ StartJob(b, "login", q.password, None)
          \/ q.kind = "change" /\ \E id \in Live : StartJob(b, "change", q.password, id)
        BY <1>5 DEF Dispatch, q
    <2> QED BY <2>3, <2>6, <2>7, <2>8, <2>9
<1> QED BY <1>4, <1>5 DEF ReadTurn

LEMMA InitTypes == Init => TypeInv
<1> SUFFICES ASSUME Init PROVE TypeInv
    OBVIOUS
<1>1. clients = <<>> /\ answers = {} /\ held = None /\ sessions = {}
    BY DEF Init, ServerInit
<1>2. clients \in Seq(Browsers) /\ Len(clients) = 0 /\ Clients = {} /\ Distinct /\ 0 <= MaxClients
    BY <1>1, ServerAssumption DEF Clients, Distinct
<1>3. SlotsInv
    BY <1>1, <1>2 DEF Init, ServerInit, SlotsInv, ServerTypeOK
<1>4. TableInv
    BY <1>1, FS_EmptySet, SiteAssumption DEF TableInv
<1>5. IdleLimit \in 0..IdleLimit
    BY SiteAssumption
<1> QED BY <1>1, <1>3, <1>4, <1>5 DEF Init, TypeInv, AuthInv, ControlInv, ReadAlone, Phases

LEMMA StepTypes == TypeInv /\ [Next]_vars => TypeInv'
<1> SUFFICES ASSUME TypeInv, [Next]_vars PROVE TypeInv'
    OBVIOUS
<1>1. CASE KdfTurn
    BY <1>1, KdfKeepsTypes
<1>2. CASE AcceptTurn \/ ServeTurn
    BY <1>2, ServeKeepsTypes
<1>3. CASE ReadTurn
    BY <1>3, ReadKeepsTypes
<1>4. ASSUME Reset, flag' = flag PROVE TypeInv'
    <2>1. SlotsInv' /\ answers' = {}
        BY <1>4, CloseAllKeeps DEF Reset, TypeInv
    <2>2. TableInv'
        BY <1>4, EmptyTable DEF Reset
    <2>3. ControlInv'
        <3>1. device' = "off" /\ phase' = "kdf" /\ idle' \in 0..IdleLimit
            BY <1>4, SiteAssumption DEF Reset
        <3>2. online' \in BOOLEAN /\ backoff' \in BOOLEAN /\ exit' \in BOOLEAN
            BY <1>4 DEF Reset
        <3>3. flag' \in BOOLEAN /\ knocked' \in BOOLEAN
            BY <1>4 DEF Reset, TypeInv, ControlInv
        <3> QED BY <3>1, <3>2, <3>3 DEF ControlInv, Phases
    <2>4. AuthInv'
        BY <1>4, <2>2 DEF Reset, TypeInv, AuthInv
    <2> QED BY <2>1, <2>3, <2>4 DEF TypeInv, ReadAlone
<1>5. ASSUME UNCHANGED server, ReadAlone' PROVE SlotsInv' /\ ReadAlone'
    BY <1>5, ServerStays DEF TypeInv
<1>6. ASSUME UNCHANGED <<server, phase>> PROVE SlotsInv' /\ ReadAlone'
    BY <1>6, ServerStays DEF TypeInv, ReadAlone, server
<1>7. ASSUME UNCHANGED auth PROVE AuthInv'
    BY <1>7 DEF auth, TypeInv, AuthInv, TableInv
<1>8. CASE LoopTurn
    <2>1. CASE Reset /\ UNCHANGED flag
        BY <1>4, <2>1
    <2>2. CASE /\ phase' = "kdf" /\ idle' \in {idle, IdleLimit}
               /\ UNCHANGED <<server, device, flag, knocked, auth, online, backoff, exit>>
        <3>1. ControlInv'
            BY <2>2, SiteAssumption DEF TypeInv, ControlInv, Phases
        <3>2. ReadAlone'
            BY <2>2 DEF ReadAlone
        <3> QED BY <1>5, <1>7, <2>2, <3>1, <3>2 DEF TypeInv
    <2> QED BY <1>8, <2>1, <2>2 DEF LoopTurn
<1>9. CASE Boot
    <2>1. flag' \in BOOLEAN /\ knocked' \in BOOLEAN /\ device' \in {"config", "clock"}
        <3>1. flag' \in BOOLEAN /\ device' \in {"config", "clock"}
            BY <1>9 DEF Boot, TypeInv, ControlInv
        <3>2. knocked' = (knocked /\ (flag => flag'))
            BY <1>9 DEF Boot
        <3>3. knocked' \in BOOLEAN
            BY <3>2, Zenon
        <3> QED BY <3>1, <3>3
    <2>2. UNCHANGED <<server, phase, auth, loop>>
        BY <1>9 DEF Boot
    <2> QED BY <1>6, <1>7, <2>1, <2>2 DEF TypeInv, ControlInv, loop
<1>10. CASE Knock
    BY <1>6, <1>7, <1>10 DEF Knock, TypeInv, ControlInv, loop
<1>11. CASE PowerLoss
    BY <1>4, <1>11 DEF PowerLoss
<1>12. CASE Expires
    <2>1. TableInv'
        BY <1>12, FewerSessions DEF Expires, TypeInv, AuthInv
    <2> QED BY <1>6, <1>12, <2>1 DEF Expires, TypeInv, AuthInv, ControlInv, loop
<1>13. CASE Time
    <2>1. idle' \in 0..IdleLimit
        BY <1>13, SiteAssumption DEF Time, TypeInv, ControlInv
    <2>2. backoff' \in BOOLEAN /\ UNCHANGED <<server, device, flag, knocked, phase, auth, online, exit>>
        BY <1>13 DEF Time, TypeInv, ControlInv
    <2> QED BY <1>6, <1>7, <2>1, <2>2 DEF TypeInv, ControlInv
<1>14. CASE Browse
    <2>1. SlotsInv' /\ answers' = answers /\ UNCHANGED <<device, flag, knocked, phase, auth, loop>>
        <3>1. PICK b \in Browsers : Opens(b) \/ Sends(b) \/ Closes(b)
            BY <1>14 DEF Browse
        <3>2. answers' = answers
            BY <3>1 DEF Opens, Sends, Closes
        <3> QED BY <1>14, <3>1, <3>2, BrowserKeeps DEF Browse, TypeInv
    <2> QED BY <1>7, <2>1 DEF TypeInv, ControlInv, ReadAlone, loop
<1>15. CASE UNCHANGED vars
    BY <1>6, <1>7, <1>15 DEF vars, TypeInv, ControlInv, loop
<1> QED BY <1>1, <1>2, <1>3, <1>8, <1>9, <1>10, <1>11, <1>12, <1>13, <1>14, <1>15 DEF Next, Loop

(***************************************************************************)
(* SiteTypes: every variable keeps its type, however browsers, timeouts    *)
(* and resets fall together: no slot of the server points to a client that *)
(* is gone, the held client is never also answered, and the session table  *)
(* never holds more than its limit.                                        *)
(***************************************************************************)
THEOREM SiteTypes == Spec => []TypeOK
<1>1. TypeInv => TypeOK
    BY DEF TypeInv, SlotsInv, AuthInv, TableInv, ControlInv, TypeOK
<1> QED BY <1>1, InitTypes, StepTypes, PTL DEF Spec
=============================================================================
