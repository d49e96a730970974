--------------------------- MODULE MCUdsExchange ---------------------------
\* Two threads: an operator's, with its choice of operations, and a second one
\* that is the tester present timer or another operation's worker.
EXTENDS UdsExchange, TLC

CONSTANTS Operator, Other, OperatorJobs, OtherJobs, OperatorCalls, OtherCalls

Session(s) == [svc |-> "session", to |-> s, quiet |-> FALSE]
QuietSession(s) == [svc |-> "session", to |-> s, quiet |-> TRUE]
Reset == [svc |-> "reset", known |-> TRUE, quiet |-> FALSE]
AskSeed == [svc |-> "seed", level |-> 1, quiet |-> FALSE]
SendKey(k) == [svc |-> "key", level |-> 1, key |-> k, quiet |-> FALSE]
KeepAlive == [svc |-> "present", quiet |-> TRUE]

JobSet == [all |-> {Session("default"), Session("extended"), QuietSession("extended"), Reset,
                    AskSeed, SendKey("configured"), SendKey("wrong")},
           late |-> {Session("extended"), AskSeed},
           keys |-> {KeepAlive, SendKey("wrong")},
           sessions |-> {Session("default"), Session("extended")},
           keepAlive |-> {KeepAlive}]

MCThread == {Operator, Other}
MCJobs == (Operator :> JobSet[OperatorJobs]) @@ (Other :> JobSet[OtherJobs])
MCMaxCalls == (Operator :> OperatorCalls) @@ (Other :> OtherCalls)
=============================================================================
