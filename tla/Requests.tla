------------------------------ MODULE Requests ------------------------------
(***************************************************************************)
(* The requests being served.  Every server instance runs one handler at a  *)
(* time; between two statements of the handler the instance waits for the   *)
(* database and other instances go on.  job[w] is what the handler of       *)
(* instance w knows and does next.                                          *)
(***************************************************************************)
EXTENDS Naturals, FiniteSets

CONSTANT Workers

VARIABLE job

None == "none"             \* null

Idle == [op |-> "idle"]

Start(w, k) == job[w] = Idle /\ job' = [job EXCEPT ![w] = k]

Goto(w, k) == job' = [job EXCEPT ![w] = k]

Finish(w) == Goto(w, Idle)

Doing(w, op) == job[w].op = op

(* The instance is stopped, or its connection lost: what the handler has    *)
(* written stays, the rest never happens.                                   *)
Crash(w) == job[w] # Idle /\ Finish(w)
=============================================================================
