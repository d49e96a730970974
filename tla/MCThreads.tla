----------------------------- MODULE MCThreads -----------------------------
(***************************************************************************)
(* Components whose threads or callers interleave, and which share no      *)
(* state with one another, in one run: a behaviour is one of a single      *)
(* component, the others rest in their initial state.  So the states are   *)
(* those of the components one after the other, and each property is       *)
(* checked on its own component's specification.                           *)
(***************************************************************************)
EXTENDS Transfer, TestRun, EventBus, RateLimiter, PriorityQueue, J1939, ApiSessions, ApiUds,
        KeepAlive, LogStore, MCPgStore

VARIABLE which      \* the component this behaviour is one of

Component == {"transfer", "tests", "bus", "rate", "queue", "j1939", "sessions", "console", "alive", "log",
              "store"}

\* Two segments of two blocks and one.
MCSegments == <<2, 1>>

\* A subscription of every scope: one for a single event, one weak with a filter.
MCOffers == <<[scope |-> "type", weak |-> FALSE, once |-> TRUE, filter |-> FALSE],
              [scope |-> "category", weak |-> TRUE, once |-> FALSE, filter |-> TRUE],
              [scope |-> "global", weak |-> FALSE, once |-> FALSE, filter |-> FALSE]>>

\* A node with two messages of two packets, and one with a single message.
MCOutbox == [n1 |-> <<2, 2>>, n2 |-> <<2>>]

ThreadsInit ==
    /\ which \in Component
    /\ TransferInit /\ TestInit /\ BusInit /\ RateInit /\ QueueInit /\ JInit /\ ApiInit /\ UdsInit
    /\ AliveInit /\ LogInit /\ PgInit

Resting ==
    /\ which # "transfer" => UNCHANGED transferVars
    /\ which # "tests" => UNCHANGED testVars
    /\ which # "bus" => UNCHANGED busVars
    /\ which # "rate" => UNCHANGED rateVars
    /\ which # "queue" => UNCHANGED queueVars
    /\ which # "j1939" => UNCHANGED jVars
    /\ which # "sessions" => UNCHANGED apiVars
    /\ which # "console" => UNCHANGED udsVars
    /\ which # "alive" => UNCHANGED aliveVars
    /\ which # "log" => UNCHANGED logVars
    /\ which # "store" => UNCHANGED pgVars
    /\ UNCHANGED which

ThreadsNext ==
    \/ which = "transfer" /\ TransferNext /\ Resting
    \/ which = "tests" /\ TestNext /\ Resting
    \/ which = "bus" /\ BusNext /\ Resting
    \/ which = "rate" /\ RateNext /\ Resting
    \/ which = "queue" /\ QueueNext /\ Resting
    \/ which = "j1939" /\ JNext /\ Resting
    \/ which = "sessions" /\ ApiNext /\ Resting
    \/ which = "console" /\ UdsNext /\ Resting
    \/ which = "alive" /\ AliveNext /\ Resting
    \/ which = "log" /\ LogNext /\ Resting
    \/ which = "store" /\ PgNext /\ Resting

threadsVars == <<which, transferVars, testVars, busVars, rateVars, queueVars, jVars, apiVars,
                 udsVars, aliveVars, logVars, pgVars>>

ThreadsSpec == ThreadsInit /\ [][ThreadsNext]_threadsVars

\* Every component's variables have their types.
ThreadsTypeOK ==
    /\ which \in Component
    /\ TransferTypeOK /\ TestTypeOK /\ BusTypeOK /\ RateTypeOK /\ QueueTypeOK /\ JTypeOK
    /\ ApiTypeOK /\ UdsTypeOK /\ AliveTypeOK /\ LogTypeOK /\ PgTypeOK
=============================================================================
