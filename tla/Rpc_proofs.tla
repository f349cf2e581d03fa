------------------------------ MODULE Rpc_proofs ------------------------------
(***************************************************************************)
(* Proofs about module Rpc, for any policy, deadline, delays and declared  *)
(* cost: the state is well typed, no span is left open behind a stub that  *)
(* has been told, and the call implements module Call.                     *)
(***************************************************************************)
EXTENDS Rpc, FiniteSetTheorems, TLAPS

\* At most the attempt the policy waits for is under way at the caller, and nothing is
\* known of the attempts to come.
Policy ==
    /\ IF rpc = "new" THEN attempt = 0 /\ ~delivered ELSE attempt > 0
    /\ rpc = "backoff" => attempt < Limit /\ ~delivered
    /\ \A n \in Attempts : client[n] \in {"open", "closing", "threw"} =>
         n = attempt /\ rpc = "waiting"
    /\ \A n \in Attempts : span[n] = "OPEN" => client[n] \in {"open", "closing"}
    /\ \A n \in Attempts : n > attempt =>
         client[n] = "none" /\ server[n] = "none" /\ n \notin messages /\ reply[n] = "none"

\* Until it is told how the call ended, the stub has heard what was delivered, and an
\* attempt that is about to end well has delivered; what was delivered is the one message
\* of the attempt in flight.
Heard ==
    /\ rpc # "closed" => told = IF delivered THEN <<"message">> ELSE <<>>
    /\ \A n \in Attempts : client[n] = "closing" =>
         status[n] # "none" /\ (status[n] = "OK" => delivered)
    /\ \A n \in Attempts : client[n] = "open" /\ delivered =>
         n \notin messages /\ server[n] \in {"answered", "closed", "done"}

\* A message comes from an execution, and an OK after a message.
Answers ==
    /\ \A n \in messages : server[n] \in {"answered", "closed", "done"}
    /\ \A n \in Attempts : server[n] = "answered" /\ gone[n] = "no" => n \in messages \/ delivered
    /\ \A n \in Attempts : reply[n] = "OK" => n \in messages \/ delivered

Inv == TypeOK /\ Policy /\ Heard /\ Answers

-----------------------------------------------------------------------------
LEMMA AfterType == ASSUME NEW d \in Nat, now \in 0 .. Horizon PROVE After(d) \in 0 .. Horizon
  BY RpcAssumption DEF After, Smaller

LEMMA ExpiryType == ASSUME NEW f, now \in 0 .. Horizon PROVE Expiry(f) \in 0 .. Never
  <1> USE RpcAssumption
  <1>1. Left \in Nat
    BY DEF Left
  <1>2. After(Left) \in 0 .. Horizon /\ After(GiveUp) \in 0 .. Horizon
    BY <1>1, AfterType
  <1> QED BY <1>2 DEF Expiry, Never

LEMMA InitInv == Init => Inv
  <1> SUFFICES ASSUME Init PROVE Inv
    OBVIOUS
  <1> USE RpcAssumption DEF Init
  <1>1. TypeOK
    <2>1. Never \in 0 .. Never /\ "none" \in Statuses
      BY DEF Never, Statuses
    <2>2. told \in Seq({"message", "OK", "failed"})
      OBVIOUS
    <2>3. now \in 0 .. Horizon /\ attempt \in 0 .. Limit /\ wake \in 0 .. Horizon
      OBVIOUS
    <2>4. messages \subseteq Attempts /\ inflight \in Int
      OBVIOUS
    <2> QED BY Zenon, <2>1, <2>2, <2>3, <2>4 DEF TypeOK
  <1>2. Policy BY DEF Policy, Attempts
  <1>3. Heard BY DEF Heard
  <1>4. Answers BY DEF Answers
  <1> QED BY <1>1, <1>2, <1>3, <1>4 DEF Inv

\* An attempt that is fired keeps the invariant, if the policy may fire it.
LEMMA FireInv ==
    ASSUME Inv, Fire(attempt + 1), attempt < Limit, ~delivered, rpc # "closed",
           \A n \in Attempts : client[n] \notin {"open", "closing", "threw"},
           UNCHANGED <<now, alive, delivered, cancelled, told, status, wake, messages, reply,
                       handler, inflight>>
    PROVE  Inv'
  <1> USE RpcAssumption DEF Inv
  <1>a. attempt + 1 \in Attempts
    BY DEF TypeOK, Attempts
  <1>b. PICK f \in {"dropped", "sent"}, bound \in BOOLEAN :
          /\ fate' = [fate EXCEPT ![attempt + 1] = f]
          /\ expires' = [expires EXCEPT ![attempt + 1] = Expiry(f)]
          /\ \E q \in {"queued", "none"} : server' = [server EXCEPT ![attempt + 1] = q]
          /\ \E g \in {"server", "no"} : gone' = [gone EXCEPT ![attempt + 1] = g]
    BY DEF Fire
  <1>c. /\ rpc' = "waiting" /\ attempt' = attempt + 1
        /\ client' = [client EXCEPT ![attempt + 1] = "open"]
        /\ span' = [span EXCEPT ![attempt + 1] = "OPEN"]
    BY DEF Fire
  <1>d. Expiry(f) \in 0 .. Never
    BY ExpiryType DEF TypeOK
  <1>1. TypeOK'
    BY <1>a, <1>b, <1>c, <1>d DEF TypeOK, Attempts
  <1>2. Policy'
    BY <1>a, <1>b, <1>c DEF Policy, TypeOK, Attempts
  <1>3. Heard'
    BY <1>a, <1>b, <1>c DEF Heard, TypeOK
  <1>4. Answers'
    BY <1>a, <1>b, <1>c DEF Answers, Policy, TypeOK, Attempts
  <1> QED BY <1>1, <1>2, <1>3, <1>4

\* So does the end of an attempt, however the policy takes it.
LEMMA ClosesInv ==
    ASSUME Inv, NEW n \in Attempts, NEW s \in Statuses \ {"none"}, PolicyCloses(s),
           client[n] \in {"open", "closing"}, s = "OK" => delivered,
           client' = [client EXCEPT ![n] = "over"],
           span' = [span EXCEPT ![n] = s],
           status' = [status EXCEPT ![n] = s] \/ status' = status,
           UNCHANGED <<now, alive, fate, expires, serverSide>>
    PROVE  Inv'
  <1> USE RpcAssumption DEF Inv, serverSide
  <1>0. s # "OPEN"
    BY DEF Statuses, Refusals
  <1>a. n = attempt /\ rpc = "waiting" /\ attempt \in 1 .. Limit
    BY DEF Policy, TypeOK, Attempts
  <1>b. attempt' = attempt /\ delivered' = delivered /\ cancelled' = cancelled
    BY DEF PolicyCloses
  <1>c. told = IF delivered THEN <<"message">> ELSE <<>>
    BY <1>a DEF Heard
  <1>1. CASE Again(s)
    <2>1. rpc' = "backoff" /\ told' = told /\ wake' = After(BackoffNow)
      BY <1>1 DEF PolicyCloses
    <2>2. attempt < Limit /\ ~delivered
      BY <1>1 DEF Again
    <2>3. BackoffNow \in Nat
      BY <1>a DEF BackoffNow
    <2>4. After(BackoffNow) \in 0 .. Horizon
      BY <2>3, AfterType DEF TypeOK
    <2>5. TypeOK'
      BY <1>b, <2>1, <2>4 DEF TypeOK
    <2>6. Policy'
      BY <1>0, <1>a, <1>b, <2>1, <2>2 DEF Policy, TypeOK
    <2>7. Heard'
      BY <1>b, <1>c, <2>1 DEF Heard, TypeOK
    <2>8. Answers'
      BY <1>b DEF Answers
    <2> QED BY <2>5, <2>6, <2>7, <2>8
  <1>2. CASE ~Again(s)
    <2>1. /\ rpc' = "closed" /\ wake' = wake
          /\ told' = Append(told, IF s = "OK" THEN "OK" ELSE "failed")
      BY <1>2 DEF PolicyCloses
    <2>4. told' \in Seq({"message", "OK", "failed"})
      BY <2>1 DEF TypeOK
    <2>5. TypeOK'
      BY <1>b, <2>1, <2>4 DEF TypeOK
    <2>6. Policy'
      BY <1>0, <1>a, <1>b, <2>1 DEF Policy, TypeOK
    <2>7. Heard'
      BY <1>b, <2>1 DEF Heard, TypeOK
    <2>8. Answers'
      BY <1>b DEF Answers
    <2> QED BY <2>5, <2>6, <2>7, <2>8
  <1> QED BY <1>1, <1>2

-----------------------------------------------------------------------------
LEMMA WorldInv == ASSUME Inv, Tick \/ Kill \/ Restart \/ Cancel PROVE Inv'
  <1> USE RpcAssumption DEF Inv
  <1>1. CASE Tick
    BY <1>1 DEF Tick, TypeOK, Policy, Heard, Answers, policy, clientSide, serverSide
  <1>2. CASE Kill
    BY <1>2 DEF Kill, TypeOK, Policy, Heard, Answers, policy, clientSide, serverSide
  <1>3. CASE Restart
    BY <1>3 DEF Restart, TypeOK, Policy, Heard, Answers, policy, clientSide
  <1>4. CASE Cancel
    BY <1>4 DEF Cancel, TypeOK, Policy, Heard, Answers, clientSide
  <1> QED BY <1>1, <1>2, <1>3, <1>4

LEMMA CallerInv == ASSUME Inv, Begin \/ CallerStep PROVE Inv'
  <1> USE RpcAssumption DEF Inv
  <1>1. CASE Begin
    <2>1. attempt = 0 /\ Fire(attempt + 1)
      BY <1>1 DEF Begin, Policy
    <2>2. \A n \in Attempts : client[n] \notin {"open", "closing", "threw"}
      BY <1>1 DEF Begin, Policy
    <2>3. ~delivered
      BY <1>1 DEF Begin, Policy
    <2> QED BY <1>1, <2>1, <2>2, <2>3, FireInv DEF Begin
  <1>2. CASE FireAgain
    <2>1. \A n \in Attempts : client[n] \notin {"open", "closing", "threw"}
      BY <1>2 DEF FireAgain, Policy
    <2>2. attempt < Limit /\ ~delivered
      BY <1>2 DEF FireAgain, Policy
    <2> QED BY <1>2, <2>1, <2>2, FireInv DEF FireAgain
  <1>3. ASSUME NEW n \in Attempts, DroppedFinishes(n) PROVE Inv'
    <2>1. PICK s \in {"CANCELLED", "DEADLINE_EXCEEDED"} :
            /\ client' = [client EXCEPT ![n] = "over"]
            /\ status' = [status EXCEPT ![n] = s]
            /\ span' = [span EXCEPT ![n] = s]
            /\ PolicyCloses(s)
      BY <1>3 DEF DroppedFinishes
    <2>2. s \in Statuses \ {"none"} /\ s # "OK"
      BY DEF Statuses, Refusals
    <2> QED BY <1>3, <2>1, <2>2, ClosesInv DEF DroppedFinishes
  <1>4. ASSUME NEW n \in Attempts, ClientHears(n) PROVE Inv'
    <2>1. told = <<>> /\ rpc = "waiting" /\ n = attempt
      BY <1>4 DEF ClientHears, Open, Policy, Heard
    <2>2. told' = <<"message">>
      BY <1>4, <2>1 DEF ClientHears
    <2> QED BY <1>4, <2>1, <2>2
            DEF ClientHears, TypeOK, Policy, Heard, Answers, clientSide, serverSide
  <1>5. ASSUME NEW n \in Attempts, ClientCloses(n) PROVE Inv'
    <2>1. PICK s \in Closings(n), rtt \in RoundTrips :
            status' = [status EXCEPT ![n] = s] /\ wake' = After(rtt)
      BY <1>5 DEF ClientCloses
    <2>2. After(rtt) \in 0 .. Horizon
      BY AfterType DEF TypeOK
    <2>3. s \in Statuses \ {"none"} /\ (s = "OK" => delivered)
      BY DEF Closings, Answers
    <2>4. n = attempt /\ rpc = "waiting"
      BY <1>5 DEF ClientCloses, Open, Policy
    <2>5. TypeOK'
      BY <1>5, <2>1, <2>2, <2>3 DEF ClientCloses, TypeOK, policy
    <2>6. Policy'
      BY <1>5, <2>4 DEF ClientCloses, Open, Policy, TypeOK, policy
    <2>7. Heard'
      BY <1>5, <2>1, <2>3 DEF ClientCloses, Heard, TypeOK, policy
    <2>8. Answers'
      BY <1>5 DEF ClientCloses, Answers, TypeOK, policy
    <2> QED BY <2>5, <2>6, <2>7, <2>8
  <1>6. ASSUME NEW n \in Attempts, ClientTells(n) PROVE Inv'
    <2> DEFINE s == Effective(n)
    <2>1. s \in Statuses \ {"none"} /\ (s = "OK" => delivered) /\ client[n] = "closing"
      BY <1>6 DEF ClientTells, Effective, Heard, TypeOK, Statuses, Refusals
    <2>2. CASE Unwritable(s)
      <3>1. /\ span' = [span EXCEPT ![n] = s] /\ client' = [client EXCEPT ![n] = "threw"]
            /\ UNCHANGED <<policy, wake>>
            /\ UNCHANGED <<now, alive, fate, expires, status, serverSide>>
        BY <1>6, <2>2 DEF ClientTells
      <3>2. s = "DEADLINE_EXCEEDED"
        BY <2>2 DEF Unwritable
      <3> HIDE DEF s
      <3> QED BY <2>1, <3>1, <3>2 DEF TypeOK, Policy, Heard, Answers, policy, serverSide
    <2>3. CASE ~Unwritable(s)
      <3>1. /\ span' = [span EXCEPT ![n] = s] /\ client' = [client EXCEPT ![n] = "over"]
            /\ PolicyCloses(s)
            /\ UNCHANGED <<now, alive, fate, expires, status, serverSide>>
        BY <1>6, <2>3 DEF ClientTells
      <3> HIDE DEF s
      <3> QED BY <2>1, <3>1, ClosesInv
    <2> QED BY <2>2, <2>3
  <1> QED BY <1>1, <1>2, <1>3, <1>4, <1>5, <1>6 DEF CallerStep

LEMMA ServerInv == ASSUME Inv, ServerStep PROVE Inv'
  <1> USE DEF Inv, policy, clientSide
  <1>0. PICK n \in Attempts : \/ Refuse(n) \/ Arrive(n) \/ HalfClose(n) \/ PassOver(n)
                             \/ SendMessage(n) \/ Close(n) \/ Finish(n)
    BY DEF ServerStep
  <1>a. server[n] # "none" => n <= attempt
    BY DEF Policy, TypeOK, Attempts
  <1>1. CASE Refuse(n)
    <2>1. PICK s \in Refusals : Reply(n, s)
      BY <1>1 DEF Refuse
    <2>2. s \in Statuses /\ s # "OK"
      BY DEF Statuses, Refusals
    <2> QED BY <1>1, <1>a, <2>1, <2>2
            DEF Refuse, Reply, TypeOK, Policy, Heard, Answers, Attempts
  <1>2. CASE Arrive(n)
    BY <1>2, <1>a DEF Arrive, TypeOK, Policy, Heard, Answers, Attempts
  <1>3. CASE HalfClose(n)
    BY <1>3, <1>a DEF HalfClose, TypeOK, Policy, Heard, Answers, Attempts
  <1>4. CASE PassOver(n)
    BY <1>4, <1>a DEF PassOver, TypeOK, Policy, Heard, Answers, Attempts
  <1>5. CASE SendMessage(n)
    BY <1>5, <1>a DEF SendMessage, TypeOK, Policy, Heard, Answers, Attempts
  <1>6. CASE Close(n)
    <2>1. PICK s \in Refusals \cup {"OK"} : Reply(n, s) /\ (s = "OK" => server[n] = "answered")
      BY <1>6 DEF Close, Refusals
    <2>2. s \in Statuses
      BY DEF Statuses, Refusals
    <2> QED BY <1>6, <1>a, <2>1, <2>2
            DEF Close, Reply, TypeOK, Policy, Heard, Answers, Attempts
  <1>7. CASE Finish(n)
    BY <1>7, <1>a DEF Finish, TypeOK, Policy, Heard, Answers, Attempts
  <1> QED BY <1>0, <1>1, <1>2, <1>3, <1>4, <1>5, <1>6, <1>7

LEMMA Invariance == Spec => []Inv
  <1>1. Inv /\ [Next]_vars => Inv'
    <2> SUFFICES ASSUME Inv, [Next]_vars PROVE Inv'
      OBVIOUS
    <2>1. CASE UNCHANGED vars
      BY <2>1 DEF Inv, TypeOK, Policy, Heard, Answers, vars, policy, clientSide, serverSide
    <2> QED BY <2>1, WorldInv, CallerInv, ServerInv DEF Next
  <1> QED BY <1>1, InitInv, PTL DEF Spec

-----------------------------------------------------------------------------
(* What the runs check of Rpc.cfg's instance, for any. *)

\* Every variable keeps its type: no attempt is fired beyond the policy's limit
\* (Retrying.onClose).
THEOREM WellTyped == Spec => []TypeOK
  BY Invariance, PTL DEF Inv

\* A stub that has been told how its call ended leaves no attempt with an open span
\* behind, whether it was delivered or stood in for (ClientSide.onClose, Dropped.finish).
THEOREM SpansAreClosed == Spec => []NoSpanLeftOpen
  <1>1. Inv => NoSpanLeftOpen
    BY DEF Inv, Policy, NoSpanLeftOpen
  <1> QED BY <1>1, Invariance, PTL

-----------------------------------------------------------------------------
(* The refinement. *)

\* The executions are finitely many, and once more than the limit they cannot be.
LEMMA ExecutionsFinite ==
    /\ IsFiniteSet(Executions) /\ Cardinality(Executions) \in Nat
    /\ \A n \in Attempts \ Executions : Cardinality(Executions) < Limit
  <1>1. IsFiniteSet(Attempts) /\ Cardinality(Attempts) = Limit
    BY RpcAssumption, FS_Interval DEF Attempts
  <1>2. Executions \subseteq Attempts
    BY DEF Executions
  <1>3. IsFiniteSet(Executions) /\ Cardinality(Executions) \in Nat
    BY <1>1, <1>2, FS_Subset, FS_CardinalityType
  <1>4. ASSUME NEW n \in Attempts \ Executions PROVE Cardinality(Executions) < Limit
    <2>1. Executions # Attempts
      BY <1>4
    <2>2. Cardinality(Executions) <= Limit /\ Cardinality(Executions) # Limit
      BY <1>1, <1>2, <2>1, FS_Subset
    <2> QED BY <1>3, <2>2, RpcAssumption
  <1> QED BY <1>3, <1>4

\* The policy's answer to an attempt's end is a close of the stub, or nothing it notices.
LEMMA ClosesImplements ==
    ASSUME Inv, NEW n \in Attempts, NEW s \in Statuses, PolicyCloses(s),
           client[n] \in {"open", "closing"}, s = "OK" => delivered,
           Executions' = Executions
    PROVE  [Promise!Next]_<<told, Cardinality(Executions)>>
  <1>1. told = IF delivered THEN <<"message">> ELSE <<>>
    BY DEF Inv, Policy, Heard
  <1>2. \/ told' = told
        \/ told' = Append(told, IF s = "OK" THEN "OK" ELSE "failed")
    BY DEF PolicyCloses
  <1>3. CASE told' = told
    BY <1>3
  <1>4. CASE s = "OK" /\ told' = Append(told, "OK")
    <2>1. told = <<"message">>
      BY <1>1, <1>4
    <2> QED BY <1>4, <2>1 DEF Promise!Next, Promise!Succeed
  <1>5. CASE told' = Append(told, "failed")
    <2>1. told \in {<<>>, <<"message">>}
      BY <1>1
    <2> QED BY <1>5, <2>1 DEF Promise!Next, Promise!Fail
  <1> QED BY <1>2, <1>3, <1>4, <1>5

\* The runtime's interceptors, put together, keep the promise a unary call makes to its
\* stub and to its callee: one message at most, one close, success only of an execution
\* that answered, and no more executions than the policy's attempts.
THEOREM RpcImplementsCall == Spec => ImplementsCall
  <1> DEFINE seen == <<told, Cardinality(Executions)>>
  <1>1. Init => Promise!Init
    <2> SUFFICES ASSUME Init PROVE Promise!Init
      OBVIOUS
    <2>1. Executions = {}
      BY DEF Init, Executions
    <2> QED BY <2>1, FS_EmptySet DEF Init, Promise!Init
  <1>2. Inv /\ [Next]_vars => [Promise!Next]_seen
    <2> SUFFICES ASSUME Inv, [Next]_vars PROVE [Promise!Next]_seen
      OBVIOUS
    <2> DEFINE Same == told' = told /\ Executions' = Executions
    <2>0. Same => [Promise!Next]_seen
      OBVIOUS
    <2>1. CASE UNCHANGED vars \/ Tick \/ Kill \/ Restart \/ Cancel
      BY <2>0, <2>1 DEF Tick, Kill, Restart, Cancel, vars, policy, serverSide, Executions
    <2>2. CASE Begin \/ FireAgain
      <3>1. Fire(attempt + 1) /\ told' = told /\ attempt < Limit
        BY <2>2, RpcAssumption DEF Begin, FireAgain, Inv, Policy, TypeOK
      <3>2. attempt + 1 \in Attempts /\ server[attempt + 1] = "none"
        BY <3>1, RpcAssumption DEF Inv, Policy, TypeOK, Attempts
      <3>3. PICK q \in {"queued", "none"} : server' = [server EXCEPT ![attempt + 1] = q]
        BY <3>1 DEF Fire
      <3>4. Executions' = Executions
        BY <3>2, <3>3 DEF Executions, Inv, TypeOK
      <3> QED BY <2>0, <3>1, <3>4
    <2>3. ASSUME NEW n \in Attempts, DroppedFinishes(n) PROVE [Promise!Next]_seen
      <3>1. PICK s \in {"CANCELLED", "DEADLINE_EXCEEDED"} : PolicyCloses(s)
        BY <2>3 DEF DroppedFinishes
      <3>2. s \in Statuses /\ s # "OK"
        BY DEF Statuses, Refusals
      <3>3. Executions' = Executions /\ client[n] = "open"
        BY <2>3 DEF DroppedFinishes, serverSide, Executions
      <3> QED BY <3>1, <3>2, <3>3, ClosesImplements
    <2>4. ASSUME NEW n \in Attempts, ClientHears(n) PROVE [Promise!Next]_seen
      <3>0. told = <<>> /\ Executions' = Executions
        BY <2>4 DEF ClientHears, Open, Inv, Policy, Heard, serverSide, Executions
      <3>1. told = <<>> /\ told' = <<"message">> /\ Executions' = Executions
        BY <2>4, <3>0 DEF ClientHears
      <3>2. n \in Executions
        BY <2>4 DEF ClientHears, Inv, Answers, Executions
      <3>3. Cardinality(Executions) > 0
        BY <3>2, ExecutionsFinite, FS_EmptySet
      <3> QED BY <3>1, <3>3 DEF Promise!Next, Promise!Message
    <2>5. ASSUME NEW n \in Attempts, ClientCloses(n) PROVE [Promise!Next]_seen
      BY <2>0, <2>5 DEF ClientCloses, policy, Executions
    <2>6. ASSUME NEW n \in Attempts, ClientTells(n) PROVE [Promise!Next]_seen
      <3> DEFINE s == Effective(n)
      <3>1. s \in Statuses /\ (s = "OK" => delivered) /\ client[n] = "closing"
        BY <2>6 DEF ClientTells, Effective, Inv, Heard, TypeOK, Statuses, Refusals
      <3>2. Executions' = Executions /\ (told' = told \/ PolicyCloses(s))
        BY <2>6 DEF ClientTells, serverSide, Executions, policy
      <3> HIDE DEF s
      <3> QED BY <2>0, <3>1, <3>2, ClosesImplements
    <2>7. ASSUME NEW n \in Attempts, HalfClose(n) PROVE [Promise!Next]_seen
      <3>1. n \notin Executions /\ told' = told
        BY <2>7 DEF HalfClose, Executions, policy
      <3>2. Executions' = Executions \cup {n}
        BY <2>7 DEF HalfClose, Executions, Inv, TypeOK
      <3>3. Cardinality(Executions') = Cardinality(Executions) + 1
        BY <3>1, <3>2, ExecutionsFinite, FS_AddElement
      <3> QED BY <3>1, <3>3, ExecutionsFinite DEF Promise!Next, Promise!Execute
    <2>8. ASSUME NEW n \in Attempts,
                 \/ Refuse(n) \/ Arrive(n) \/ PassOver(n)
                 \/ SendMessage(n) \/ Close(n) \/ Finish(n)
          PROVE  [Promise!Next]_seen
      <3>1. told' = told
        BY <2>8 DEF Refuse, Arrive, PassOver, SendMessage, Close, Finish, policy
      <3>2. Executions' = Executions
        BY <2>8 DEF Refuse, Arrive, PassOver, SendMessage, Close, Finish, Executions, Inv, TypeOK
      <3> QED BY <2>0, <3>1, <3>2
    <2> QED BY <2>1, <2>2, <2>3, <2>4, <2>5, <2>6, <2>7, <2>8 DEF Next, CallerStep, ServerStep
  <1> QED BY <1>1, <1>2, Invariance, PTL DEF Spec, ImplementsCall, Promise!Spec

-----------------------------------------------------------------------------
(* The deadline, at any ratio of reference time and real time. *)

LEMMA Converted ==
    ASSUME NEW d \in Nat, NEW k \in Nat \ {0}
    PROVE  /\ d \div k \in Nat /\ d \div k <= d
           /\ \A t \in Nat : t < d \div k => t * k < d
  <1> DEFINE q == d \div k
             r == d % k
  <1>1. q \in Int /\ r \in 0 .. (k - 1) /\ d = k * q + r
    OBVIOUS
  <1>2. q \in Nat
    BY <1>1, Z3
  <1> HIDE DEF q, r
  <1>3. k * q >= q
    BY <1>2, Z3
  <1>4. ASSUME NEW t \in Nat, t < q PROVE t * k < d
    <2>1. t + 1 <= q
      BY <1>2, <1>4
    <2>2. (t + 1) * k <= q * k
      BY <1>2, <2>1, Z3
    <2>3. (t + 1) * k = t * k + k /\ q * k = k * q
      BY <1>2, Z3
    <2>4. t * k \in Nat /\ k * q \in Nat
      BY <1>2
    <2> QED BY <1>1, <2>2, <2>3, <2>4
  <1> QED BY <1>1, <1>2, <1>3, <1>4 DEF q

\* The first attempt was given no longer than the stub's deadline, and no attempt longer
\* than that deadline were it one in real time, unless that was over when it was fired.
Within == Deadline > 0 =>
            \A n \in Attempts : client[n] \in {"open", "closing"} =>
              /\ expires[n] <= Deadline \/ expires[n] <= now
              /\ n = 1 => \A t \in Nat : t < expires[n] => t * KTime < Deadline

LEMMA WithinHolds == Spec => []Within
  <1> USE RpcAssumption
  <1>1. Init => Within
    BY DEF Init, Within
  <1>2. Inv /\ Within /\ [Next]_vars => Within'
    <2> SUFFICES ASSUME Inv, Within, [Next]_vars PROVE Within'
      OBVIOUS
    <2>0. /\ now \in Nat /\ expires \in [Attempts -> Int] /\ attempt \in Nat
          /\ client \in [Attempts -> {"none", "open", "closing", "over", "threw"}]
      BY DEF Inv, TypeOK, Never
    <2>1. CASE Tick
      BY <2>0, <2>1 DEF Tick, Within, clientSide
    <2>2. CASE Begin \/ FireAgain
      <3>1. Fire(attempt + 1) /\ now' = now
        BY <2>2 DEF Begin, FireAgain, Inv, Policy
      <3>2. PICK f \in {"dropped", "sent"} : expires' = [expires EXCEPT ![attempt + 1] = Expiry(f)]
        BY <3>1 DEF Fire
      <3>3. client' = [client EXCEPT ![attempt + 1] = "open"]
        BY <3>1 DEF Fire
      <3>4. Deadline > 0 => Expiry(f) <= Deadline \/ Expiry(f) <= now
        <4>1. CASE Deadline > now
          <5>1. (Deadline - now) \div KTime \in Nat /\ (Deadline - now) \div KTime <= Deadline - now
            BY <2>0, <4>1, Converted
          <5> QED BY <2>0, <4>1, <5>1 DEF Expiry, After, Smaller, Left
        <4>2. CASE ~(Deadline > now)
          BY <2>0, <4>2 DEF Expiry, After, Smaller, Left
        <4> QED BY <4>1, <4>2
      <3>5. ASSUME Deadline > 0, attempt + 1 = 1, NEW t \in Nat, t < Expiry(f)
            PROVE  t * KTime < Deadline
        <4>1. now = 0
          BY <2>0, <2>2, <3>5 DEF Begin, FireAgain, Inv, Policy, TypeOK, Fire
        <4>2. Deadline - now = Deadline /\ Deadline > now
          BY <3>5, <4>1
        <4>3. Left = Deadline \div KTime /\ Left \in Nat
          BY <4>2, Converted DEF Left
        <4>4. t < Left
          BY <3>5, <4>1, <4>3 DEF Expiry, After, Smaller
        <4> QED BY <4>3, <4>4, Converted
      <3> QED BY <2>0, <3>1, <3>2, <3>3, <3>4, <3>5 DEF Within
    <2>3. ASSUME now' = now, expires' = expires,
                 \A n \in Attempts : client'[n] \in {"open", "closing"} =>
                                       client[n] \in {"open", "closing"}
          PROVE  Within'
      BY <2>3 DEF Within
    <2>4. CASE UNCHANGED vars \/ Kill \/ Restart \/ Cancel \/ ServerStep
      BY <2>3, <2>4 DEF vars, clientSide, Kill, Restart, Cancel, ServerStep, Refuse, Arrive,
                        HalfClose, PassOver, SendMessage, Close, Finish
    <2>5. ASSUME NEW n \in Attempts,
                 DroppedFinishes(n) \/ ClientHears(n) \/ ClientCloses(n) \/ ClientTells(n)
          PROVE  Within'
      <3>1. now' = now /\ expires' = expires
        BY <2>5 DEF DroppedFinishes, ClientHears, ClientCloses, ClientTells, clientSide
      <3>2. \/ client' = client
            \/ client[n] = "open" /\ client' = [client EXCEPT ![n] = "closing"]
            \/ client' = [client EXCEPT ![n] = "over"]
            \/ client' = [client EXCEPT ![n] = "threw"]
        BY <2>5 DEF DroppedFinishes, ClientHears, ClientCloses, ClientTells, Open, clientSide
      <3> QED BY <2>0, <2>3, <3>1, <3>2
    <2> QED BY <2>1, <2>2, <2>4, <2>5 DEF Next, CallerStep
  <1> QED BY <1>1, <1>2, Invariance, PTL DEF Spec

\* At any ratio of the two times a stub never hears of a success of its first attempt at
\* or after the deadline it set, nor of one of a later attempt at or after what that
\* deadline would be in real time, however long the network took (ClientSide.onClose
\* checks again after the delay; inRealTime converts at every attempt).
THEOREM DeadlineIsKept == Spec => DeadlineHolds
  <1>1. ASSUME Inv, Within, [Next]_vars, Deadline > 0, told' = Append(told, "OK")
        PROVE  now < Deadline /\ (attempt = 1 => now * KTime < Deadline)
    <2> USE RpcAssumption
    <2>0. /\ now \in Nat /\ expires \in [Attempts -> Int]
          /\ told \in Seq({"message", "OK", "failed"})
      BY <1>1 DEF Inv, TypeOK, Never
    <2>1. told' # told /\ told' # Append(told, "message") /\ told' # Append(told, "failed")
      BY <1>1, <2>0
    <2>2. PICK n \in Attempts : ClientTells(n) /\ Effective(n) = "OK"
      <3>1. ~(\/ UNCHANGED vars \/ Tick \/ Kill \/ Restart \/ Begin \/ Cancel \/ FireAgain
              \/ ServerStep)
        BY <2>1 DEF vars, policy, Tick, Kill, Restart, Begin, Cancel, FireAgain, ServerStep,
                    Refuse, Arrive, HalfClose, PassOver, SendMessage, Close, Finish
      <3>2. \A n \in Attempts : ~ClientHears(n) /\ ~ClientCloses(n)
        BY <2>1 DEF ClientHears, ClientCloses, policy
      <3>3. \A n \in Attempts : ~DroppedFinishes(n)
        BY <2>1 DEF DroppedFinishes, PolicyCloses
      <3>4. \A n \in Attempts : ClientTells(n) => Effective(n) = "OK"
        BY <2>1 DEF ClientTells, PolicyCloses, policy
      <3> QED BY <1>1, <3>1, <3>2, <3>3, <3>4 DEF Next, CallerStep
    <2>3. client[n] = "closing" /\ now < expires[n] /\ n = attempt
      BY <1>1, <2>0, <2>2 DEF ClientTells, Effective, Inv, Policy
    <2> QED BY <1>1, <2>0, <2>3 DEF Within
  <1>2. Inv /\ Within /\ [Next]_vars
          => [Deadline > 0 /\ told' = Append(told, "OK")
                => now < Deadline /\ (attempt = 1 => now * KTime < Deadline)]_vars
    BY <1>1
  <1> QED BY <1>2, Invariance, WithinHolds, PTL DEF Spec, DeadlineHolds
=============================================================================
