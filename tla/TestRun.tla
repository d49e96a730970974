------------------------------- MODULE TestRun -------------------------------
(***************************************************************************)
(* Developer mode: DeveloperModeController (src/ui/controllers) starts a   *)
(* _RunnerThread for every Run and every Run All, whether or not one is    *)
(* under way (the toolbar's buttons are always enabled), and they all work *)
(* on the one TestRunner of the client (src/src/test_execution):           *)
(* its _cancel event, its collector and its callbacks.                     *)
(*                                                                         *)
(* A step ends as PASS, as FAIL (ERROR is treated alike) or as "other": a  *)
(* script may return any status, and a step with nothing to do is SKIPPED. *)
(***************************************************************************)
EXTENDS Naturals, SequencesExt

CONSTANTS
    Steps,          \* enabled steps of the sequence
    StopOnFailure,  \* the panel's check box
    MaxTests,       \* bound: presses of Run and Run All
    MaxStops        \* bound: presses of Cancel

ASSUME TestAssumption ==
    Steps \in Nat /\ StopOnFailure \in BOOLEAN /\ MaxTests \in Nat /\ MaxStops \in Nat

VARIABLES
    test,       \* test[t]: the thread of press t, and its locals
    stop,       \* _cancel
    results,    \* collector.results
    running,    \* run_all_button: it shows Cancel
    waiting,    \* the thread cancel() waits for on the UI thread, or 0
    stops,
    sole        \* history: sole[t]: no other thread used the collector since t entered

testVars == <<test, stop, results, running, waiting, stops, sole>>

Test == 1 .. MaxTests
Live == {t \in Test : test[t].pc \notin {"off", "ended", "told"}}
Started == {t \in Test : test[t].pc # "off"}
NewTest == [pc |-> "off", single |-> FALSE, i |-> 1]

Status == {"PASS", "FAIL", "other"}     \* what executing a step can give
Result == [step : 1 .. Steps, status : Status \cup {"CANCELLED", "SKIPPED"}]

TestTypeOK ==
    /\ test \in [Test -> [pc : {"off", "enter", "next", "ask", "step", "ended", "told"},
                          single : BOOLEAN, i : 1 .. Steps + 1]]
    /\ stop \in BOOLEAN /\ running \in BOOLEAN
    /\ results \in Seq(Result)
    /\ waiting \in {0} \cup Started
    /\ stops \in 0 .. MaxStops
    /\ sole \in [Test -> BOOLEAN]
    \* Threads start in the order of the presses.
    /\ \A t \in Started : 1 .. t \subseteq Started

TestInit ==
    /\ test = [t \in Test |-> NewTest]
    /\ stop = FALSE /\ results = <<>> /\ running = FALSE /\ waiting = 0 /\ stops = 0
    /\ sole = [t \in Test |-> FALSE]

-----------------------------------------------------------------------------
(* The controller, on the UI thread.                                       *)

Newest == Cardinality(Started)

\* run_all and run_step: the panel is told, then the thread starts.
PressRun(single) ==
    /\ waiting = 0 /\ Newest < MaxTests
    /\ single => Steps > 0              \* Run is a button of a step
    /\ test' = [test EXCEPT ![Newest + 1] =
                   [NewTest EXCEPT !.pc = IF single THEN "ask" ELSE "enter", !.single = single]]
    /\ running' = TRUE
    /\ UNCHANGED <<stop, results, waiting, stops, sole>>

\* cancel(), up to its wait for the last thread that was started.
PressCancel ==
    /\ waiting = 0 /\ stops < MaxStops /\ stops' = stops + 1
    /\ stop' = TRUE
    /\ IF Newest \in Live THEN waiting' = Newest /\ UNCHANGED running
                          ELSE running' = FALSE /\ UNCHANGED waiting
    /\ UNCHANGED <<test, results, sole>>

\* The thread has ended, or two seconds are over.
CancelReturns ==
    /\ waiting # 0
    /\ waiting' = 0 /\ running' = FALSE
    /\ UNCHANGED <<test, stop, results, stops, sole>>

\* _on_finished
TestTold(t) ==
    /\ waiting = 0 /\ test[t].pc = "ended"
    /\ test' = [test EXCEPT ![t].pc = "told"]
    /\ running' = FALSE
    /\ UNCHANGED <<stop, results, waiting, stops, sole>>

-----------------------------------------------------------------------------
(* TestRunner, on thread t.                                                *)

At(t, pc) == test[t].pc = pc
Goes(t, pc) == test' = [test EXCEPT ![t].pc = pc]

\* The collector is written by t: the others are not alone with it any more.
Writes(t, entered) == sole' = [u \in Test |-> IF u = t THEN sole[t] \/ entered ELSE FALSE]

Rest(from, status) == [k \in 1 .. Steps + 1 - from |-> [step |-> from + k - 1, status |-> status]]

\* execute_all: an earlier cancellation is forgotten, and so are the results.
Enter(t) ==
    /\ At(t, "enter")
    /\ Goes(t, "next")
    /\ stop' = FALSE /\ results' = <<>>
    /\ Writes(t, TRUE)
    /\ UNCHANGED <<running, waiting, stops>>

\* Mutant: a cancelled run records the steps after the next one only.
LeftOut(i) == Rest(i + 1, "CANCELLED")

\* What a cancelled run records.
LeftOver(i) == Rest(i, "CANCELLED")

NextTest(t) ==
    /\ At(t, "next")
    /\ IF test[t].i > Steps
       THEN Goes(t, "ended") /\ UNCHANGED <<results, sole>>
       ELSE IF stop
       THEN /\ Goes(t, "ended")
            /\ results' = results \o LeftOver(test[t].i)
            /\ Writes(t, FALSE)
       ELSE Goes(t, "ask") /\ UNCHANGED <<results, sole>>
    /\ UNCHANGED <<stop, running, waiting, stops>>

\* The result of t's step is recorded; a run of all goes on, or skips the rest.
Record(t, status) ==
    LET mine == [step |-> test[t].i, status |-> status] IN
    /\ Writes(t, FALSE)
    /\ IF test[t].single
       THEN Goes(t, "ended") /\ results' = Append(results, mine)
       ELSE IF StopOnFailure /\ status = "FAIL"
       THEN /\ Goes(t, "ended")
            /\ results' = Append(results, mine) \o Rest(test[t].i + 1, "SKIPPED")
       ELSE /\ test' = [test EXCEPT ![t].pc = "next", ![t].i = @ + 1]
            /\ results' = Append(results, mine)

\* execute_step looks at the cancellation once more, which nobody cleared
\* for a single step.
StepCancelled(t) ==
    /\ At(t, "ask") /\ stop
    /\ Record(t, "CANCELLED")
    /\ UNCHANGED <<stop, running, waiting, stops>>

StepBegins(t) ==
    /\ At(t, "ask") /\ ~stop
    /\ Goes(t, "step")
    /\ UNCHANGED <<stop, results, running, waiting, stops, sole>>

\* _run_script, _run_payload, and the exceptions of both.
StepEnds(t) ==
    /\ At(t, "step")
    /\ \E status \in Status : Record(t, status)
    /\ UNCHANGED <<stop, running, waiting, stops>>

RunnerStep(t) == Enter(t) \/ NextTest(t) \/ StepCancelled(t) \/ StepBegins(t) \/ StepEnds(t)

TestNext ==
    \/ \E single \in BOOLEAN : PressRun(single)
    \/ PressCancel \/ CancelReturns
    \/ \E t \in Test : TestTold(t) \/ RunnerStep(t)

TestSpec == TestInit /\ [][TestNext]_testVars

-----------------------------------------------------------------------------
\* A run of all whose collector no other thread used ends with one result for
\* each enabled step, in order: executed ones, and after those, if any is left,
\* all CANCELLED or, after a failure that stops the run, all SKIPPED.
EveryStepReported ==
    [][\A t \in Test : At(t, "next") \/ At(t, "ask") \/ At(t, "step") =>
          (test'[t].pc = "ended" /\ ~test[t].single /\ sole[t] =>
             /\ [k \in DOMAIN results' |-> results'[k].step] = [k \in 1 .. Steps |-> k]
             /\ \A k \in 1 .. Steps - 1 :
                   results'[k].status \in {"CANCELLED", "SKIPPED"}
                       => results'[k + 1].status = results'[k].status
             /\ \A k \in 2 .. Steps :
                   results'[k].status = "SKIPPED"
                       => StopOnFailure /\ \E j \in 1 .. k - 1 : results'[j].status = "FAIL"
             /\ \A k \in 1 .. Steps - 1 :
                   StopOnFailure /\ results'[k].status = "FAIL"
                       => results'[k + 1].status = "SKIPPED")]_testVars
=============================================================================
