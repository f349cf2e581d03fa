-------------------------------- MODULE Call --------------------------------
(***************************************************************************)
(* What the stub that makes one unary call is promised, however often the  *)
(* runtime tries it: its listener hears at most one message and then exactly*)
(* one close, it hears of success only after a message, a message is one   *)
(* some execution produced, and the call is executed no more often than its*)
(* policy allows.  Module Rpc is shown to implement this.                  *)
(***************************************************************************)
EXTENDS Naturals, Sequences

CONSTANT Limit          \* how often the call may be executed

VARIABLES
    told,               \* what the stub's listener has heard, in order
    executed            \* how many executions have begun

Init == told = <<>> /\ executed = 0

\* An execution may begin, even after the stub gave up on it.
Execute == executed < Limit /\ executed' = executed + 1 /\ UNCHANGED told

Message == told = <<>> /\ executed > 0 /\ told' = <<"message">> /\ UNCHANGED executed

Succeed == told = <<"message">> /\ told' = Append(told, "OK") /\ UNCHANGED executed

Fail == /\ told \in {<<>>, <<"message">>}
        /\ told' = Append(told, "failed")
        /\ UNCHANGED executed

Next == Execute \/ Message \/ Succeed \/ Fail

Spec == Init /\ [][Next]_<<told, executed>>
=============================================================================
