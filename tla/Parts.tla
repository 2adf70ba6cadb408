------------------------------- MODULE Parts -------------------------------
(***************************************************************************)
(* The parts of the device that share no state with one another, checked   *)
(* side by side: `part' says which of them a behaviour is about, and the   *)
(* others stand still.                                                     *)
(***************************************************************************)
EXTENDS Ports, AlertEditing, KeyDerivation, Deadlines, HttpExchange, ProofSuite

VARIABLE part

allVars == <<portsVars, editingVars, keyVars, deadlineVars, exchangeVars, suiteVars, part>>

\* Requests of every kind: a request line that is right, wrong or too long, no,
\* some, wrong or too many headers, and more or less of a body than they announce.
EOL == <<"CR", "LF">>
RequestLines ==
    {<<"get">>, <<"http2">>, <<"x">>, <<"x", "get">>, <<"get", "x", "x">>, <<"get", "CR">>}
HeaderBlocks ==
    {<<>>, <<"host">> \o EOL, <<"x">> \o EOL, <<"length1">> \o EOL, <<"length2">> \o EOL,
     <<"length9">> \o EOL, <<"length2">> \o EOL \o <<"length1">> \o EOL,
     <<"length2", "x">> \o EOL \o <<"host", "x">> \o EOL,
     <<"host", "LF", "CR", "x">> \o EOL, <<"host", "x", "x", "x", "x", "x", "x">>}
RequestTexts ==
    {line \o EOL \o headers \o EOL \o body :
        line \in RequestLines, headers \in HeaderBlocks, body \in {<<>>, <<"x", "CR", "LF">>}}

\* Answers of one part and of several, one of them empty.
AnswerParts == {<<3>>, <<1, 0, 2, 2>>}

Init ==
    /\ part \in {"ports", "editing", "key", "deadlines", "exchange", "suite"}
    /\ EditingInit /\ KeyInit /\ SuiteInit
    /\ PortsInit /\ (part # "ports" => port = CHOOSE s \in {o.port : o \in Initialize(PowerOn)} : TRUE)
    /\ DeadlinesInit /\ (part # "deadlines" => ticks = 0 /\ loop = "clock")
    /\ ExchangeInit /\ (part # "exchange" => text = CHOOSE t \in Texts : TRUE)

Next ==
    \/ /\ part = "ports" /\ PortsNext
       /\ UNCHANGED <<editingVars, keyVars, deadlineVars, exchangeVars, suiteVars, part>>
    \/ /\ part = "editing" /\ EditingNext
       /\ UNCHANGED <<portsVars, keyVars, deadlineVars, exchangeVars, suiteVars, part>>
    \/ /\ part = "key" /\ KeyNext
       /\ UNCHANGED <<portsVars, editingVars, deadlineVars, exchangeVars, suiteVars, part>>
    \/ /\ part = "deadlines" /\ DeadlinesNext
       /\ UNCHANGED <<portsVars, editingVars, keyVars, exchangeVars, suiteVars, part>>
    \/ /\ part = "exchange" /\ ExchangeNext
       /\ UNCHANGED <<portsVars, editingVars, keyVars, deadlineVars, suiteVars, part>>
    \/ /\ part = "suite" /\ SuiteNext
       /\ UNCHANGED <<portsVars, editingVars, keyVars, deadlineVars, exchangeVars, part>>

Spec == Init /\ [][Next]_allVars
=============================================================================
