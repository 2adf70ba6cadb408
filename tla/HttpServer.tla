----------------------------- MODULE HttpServer -----------------------------
(***************************************************************************)
(* src/src/device/web/server.py: a few client slots served one bounded     *)
(* step at a time, and the held client, which waits for a key derivation.  *)
(* Browsers connect, send one request and close whenever they like.        *)
(*                                                                         *)
(* Requests arrive in pieces and answers leave in pieces: a piece that     *)
(* completes nothing is a step that changes nothing.                       *)
(***************************************************************************)
EXTENDS Naturals, Sequences

CONSTANTS
    Browsers,
    MaxClients,   \* HTTP_MAX_CLIENTS
    Passwords,
    None

ASSUME ServerAssumption ==
    /\ MaxClients \in Nat \ {0}
    /\ None \notin Browsers /\ None \notin Passwords

VARIABLES
    wire,      \* a browser's connection: "none", "waiting" to be accepted, "open", or "closed" by the browser
    asks,      \* the request a browser has sent and the server has not read, or None
    clients,   \* _clients, in the order they were accepted
    answers,   \* the clients with an outbox
    held       \* _held_client, or None

server == <<wire, asks, clients, answers, held>>

\* A page stands for every request that is answered without a key derivation.
Requests == [kind : {"page"}] \union [kind : {"login", "change"}, password : Passwords]

Clients == {clients[i] : i \in DOMAIN clients}

ServerInit ==
    /\ wire = [b \in Browsers |-> "none"]
    /\ asks = [b \in Browsers |-> None]
    /\ clients = <<>> /\ answers = {} /\ held = None

ServerTypeOK ==
    /\ wire \in [Browsers -> {"none", "waiting", "open", "closed"}]
    /\ asks \in [Browsers -> Requests \union {None}]
    /\ clients \in Seq(Browsers) /\ Len(clients) <= MaxClients
    /\ answers \subseteq Clients /\ held \in Clients \union {None}
    /\ held \notin answers
    /\ \A b \in Browsers : (b \in Clients <=> wire[b] \in {"open", "closed"}) /\ (asks[b] # None => b \in Clients)

----------------------------------------------------------------------------
(* The browsers. *)

Opens(b) ==
    /\ wire[b] = "none"
    /\ wire' = [wire EXCEPT ![b] = "waiting"]
    /\ UNCHANGED <<asks, clients, answers, held>>

\* What it sends before it is accepted is read no sooner than what it sends after.
Sends(b) ==
    /\ wire[b] = "open" /\ asks[b] = None
    /\ b \notin answers /\ held # b
    /\ \E q \in Requests : asks' = [asks EXCEPT ![b] = q]
    /\ UNCHANGED <<wire, clients, answers, held>>

Closes(b) ==
    /\ wire[b] \in {"waiting", "open"}
    /\ wire' = [wire EXCEPT ![b] = IF b \in Clients THEN "closed" ELSE "none"]
    /\ UNCHANGED <<asks, clients, answers, held>>

----------------------------------------------------------------------------
(* The server. *)

\* The first client, in the order of _clients, that is in S.
First(S) ==
    clients[CHOOSE i \in DOMAIN clients :
                clients[i] \in S /\ \A j \in 1..(i - 1) : clients[j] \notin S]

\* _clients.remove(b), for one of the clients
Without(b) ==
    LET place == CHOOSE i \in DOMAIN clients : clients[i] = b
    IN  [i \in 1 .. Len(clients) - 1 |-> clients[IF i < place THEN i ELSE i + 1]]

\* Mutant of CloseClient: the slot of the held client is not released.
CloseClientStaysHeld(b) ==
    /\ clients' = Without(b)
    /\ wire' = [wire EXCEPT ![b] = "none"]
    /\ asks' = [asks EXCEPT ![b] = None]
    /\ answers' = answers \ {b}
    /\ UNCHANGED held

\* _close_client
CloseClient(b) ==
    /\ clients' = Without(b)
    /\ held' = IF held = b THEN None ELSE held
    /\ wire' = [wire EXCEPT ![b] = "none"]
    /\ asks' = [asks EXCEPT ![b] = None]
    /\ answers' = answers \ {b}

\* close_clients
CloseClients ==
    /\ clients' = <<>> /\ answers' = {} /\ held' = None
    /\ wire' = [b \in Browsers |-> IF b \in Clients THEN "none" ELSE wire[b]]
    /\ asks' = [b \in Browsers |-> None]

\* close_all: the listening socket goes too, and with it who waits there.
CloseAll ==
    /\ clients' = <<>> /\ answers' = {} /\ held' = None
    /\ wire' = [b \in Browsers |-> "none"]
    /\ asks' = [b \in Browsers |-> None]

\* Queues an answer for client b.
Answer(b) ==
    /\ answers' = answers \union {b}
    /\ UNCHANGED <<wire, clients>>

\* queue_held_response: without a held client there is nobody to answer.
AnswerHeld ==
    /\ answers' = IF held = None THEN answers ELSE answers \union {held}
    /\ held' = None
    /\ UNCHANGED <<wire, asks, clients>>

\* _try_accept, which may find nobody or fail.
TryAccept ==
    \/ /\ Len(clients) < MaxClients
       /\ \E b \in Browsers :
              /\ wire[b] = "waiting"
              /\ wire' = [wire EXCEPT ![b] = "open"]
              /\ clients' = Append(clients, b)
       /\ UNCHANGED <<asks, answers, held>>
    \/ UNCHANGED server

\* _write_client for the first client with an outbox: the last piece closes the
\* connection, as does an error; a full socket buffer leaves it as it is.
WriteClient ==
    /\ answers # {}
    /\ CloseClient(First(answers)) \/ UNCHANGED server

\* _poll_held_peer
PollHeld ==
    IF held # None /\ wire[held] = "closed" THEN CloseClient(held) ELSE UNCHANGED server

\* The one client a tick reads: the first that is not held.
Reader == First(Clients \ {held})

\* Nothing to read from that client, or only that it is gone.
ReadsNothing ==
    IF Clients \subseteq {held} \/ (asks[Reader] = None /\ wire[Reader] # "closed")
    THEN UNCHANGED server
    ELSE asks[Reader] = None /\ CloseClient(Reader)
=============================================================================
