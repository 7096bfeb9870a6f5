------------------------------- MODULE MCIntake -------------------------------
(* The instance of Intake that TLC checks: every body of six bytes without the
   nodes, and three with copies, tight or ample space and other processes. *)
EXTENDS Intake, TLC

(* The low two bits of the hash of two bytes are 0 after 00, 20 and 12. *)
MCGear == (0 :> 12) @@ (1 :> 5) @@ (2 :> 10)
AllBodies == [1 .. 6 -> {0, 1, 2}]
Short == <<1, 2>>
Repeats == <<1, 2, 1, 2>>
Long == <<1, 1, 1, 1, 1, 2>>
MCRequests == [body: AllBodies, repl: {0}, others: {0}]
                \cup [body: {Short}, repl: {1}, others: {2}]
                \cup [body: {Repeats}, repl: {2}, others: {1}]
                \cup [body: {Long}, repl: {2}, others: {0}]
MCForeign == <<2, 2>>
MCInsertions == {<<0>>, <<1>>, <<1, 0, 1>>}
MCCapacities == {(1 :> 18) @@ (2 :> 19), (1 :> 4) @@ (2 :> 5)}
MCOverhead == (1 :> 0) @@ (2 :> 1)
=============================================================================
