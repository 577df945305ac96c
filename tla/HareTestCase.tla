---------------------------- MODULE HareTestCase ----------------------------
(***************************************************************************)
(* What the source08 program promises of a test case, without pipe,        *)
(* daemon or directories: it is created once, moved to the processed       *)
(* directory at most once, and deleted before the execution it belongs to  *)
(* ends, unless that execution has failed: it did not get its daemon, or a *)
(* call that is to delete the test case failed.  Nothing happens to a test *)
(* case after its execution has ended.                                     *)
(***************************************************************************)
CONSTANT Harness  \* the executions of the test harness

VARIABLES
    stage,  \* where the test case of each execution is
    over    \* how each execution ended, if it did

Stage == {"absent", "watched", "processed", "gone"}

TypeOK ==
    /\ stage \in [Harness -> Stage]
    /\ over \in [Harness -> {"running", "clean", "failed"}]

Init ==
    /\ stage = [h \in Harness |-> "absent"]
    /\ over = [h \in Harness |-> "running"]

Advance(h, from, to) ==
    /\ over[h] = "running"
    /\ stage[h] \in from
    /\ stage' = [stage EXCEPT ![h] = to]
    /\ UNCHANGED over

Create(h) == Advance(h, {"absent"}, "watched")
Process(h) == Advance(h, {"watched"}, "processed")
Delete(h) == Advance(h, {"watched", "processed"}, "gone")

Finish(h) ==
    /\ over[h] = "running"
    /\ \/ stage[h] = "gone" /\ over' = [over EXCEPT ![h] = "clean"]
       \/ over' = [over EXCEPT ![h] = "failed"]
    /\ UNCHANGED stage

Next == \E h \in Harness : Create(h) \/ Process(h) \/ Delete(h) \/ Finish(h)

Spec == Init /\ [][Next]_<<stage, over>>
=============================================================================
