-------------------------- MODULE TaskControlProofs --------------------------
(* Theorems about TaskControl, for any cluster, any work modes and any     *)
(* number of requests and disturbances.                                    *)
EXTENDS TaskControl, TLAPS

(* A step of the abstract cluster is one of its actions on one node.       *)
LEMMA RolesType ==
  ASSUME HA!TypeOK,
         \/ \E n \in Node : HA!Join(n) \/ HA!Decide(n) \/ HA!TakeOver(n)
                              \/ HA!Yield(n) \/ HA!Leave(n)
         \/ HA!Forget
  PROVE  HA!TypeOK'
<1>1. ASSUME HA!ClaimsLapse
      PROVE  claims' \in SUBSET Node
  <2>1. claims' \in SUBSET (claims \cup HA!Primaries')
    BY <1>1 DEF HA!ClaimsLapse
  <2>2. HA!Primaries' \subseteq Node
    BY DEF HA!Primaries
  <2>3. QED
    BY <2>1, <2>2 DEF HA!TypeOK
<1>2. ASSUME NEW n \in Node, NEW from, NEW r \in HA!Roles, HA!Become(n, from, r)
      PROVE  HA!TypeOK'
  <2>1. role' \in [Node -> HA!Roles]
    BY <1>2 DEF HA!Become, HA!TypeOK
  <2>2. QED
    BY <1>1, <1>2, <2>1 DEF HA!Become, HA!TypeOK
<1>3. CASE HA!Forget
  BY <1>1, <1>3 DEF HA!Forget, HA!TypeOK
<1>4. ASSUME NEW n \in Node,
             HA!Join(n) \/ HA!Decide(n) \/ HA!TakeOver(n) \/ HA!Yield(n) \/ HA!Leave(n)
      PROVE  HA!TypeOK'
  <2>1. {"Down", "Unknown", "Primary", "Standby"} = HA!Roles
    BY DEF HA!Roles
  <2>2. QED
    BY <1>2, <1>4, <2>1
      DEF HA!Join, HA!Decide, HA!TakeOver, HA!Yield, HA!Leave
<1>5. QED
  BY <1>3, <1>4

(* What is kept of the requests when a listener takes one.                 *)
LEMMA TakesType ==
  ASSUME TypeOK, NEW n \in Node, NEW r \in inbox[n], Takes(n, r)
  PROVE  /\ inbox' \in [Node -> SUBSET Request]
         /\ r \in Request
BY DEF Takes, TypeOK

(* A listener that asks the platform holds a call, and the platform a job. *)
LEMMA AskType ==
  ASSUME TypeOK, NEW n \in Node, NEW r \in inbox[n],
         NEW op \in {"deploy", "undeploy", "reset"}, NEW l \in Label \cup {None},
         l = None <=> op = "reset", Ask(n, r, op, l)
  PROVE  TypeOK'
<1>1. inbox' \in [Node -> SUBSET Request] /\ r \in Request
  BY TakesType DEF Ask
<1>2. r.id \in Id
  BY <1>1 DEF Request
<1>3. [id |-> r.id, op |-> op, label |-> l, reply |-> {"waiting"}] \in Call
  BY <1>2 DEF Call
<1>4. call' \in [Node -> Call \cup {Idle}]
  BY <1>3 DEF Ask, TypeOK
<1>5. [id |-> r.id, node |-> n, op |-> op, label |-> l] \in Job
  BY <1>2 DEF Job
<1>6. jobs' \subseteq Job
  BY <1>5 DEF Ask, TypeOK
<1>7. QED
  BY <1>1, <1>4, <1>6 DEF Ask, haVars, TypeOK, HA!TypeOK

(* The reply of the platform goes into a call, or is lost on a node that   *)
(* no longer waits for it.                                                 *)
LEMMA ReplyType ==
  ASSUME TypeOK, NEW j \in jobs, NEW reply \in Outcome, Reply(j, reply)
  PROVE  call' \in [Node -> Call \cup {Idle}]
<1>1. j.node \in Node
  BY DEF TypeOK, Job
<1>2. CASE call[j.node].id = j.id /\ Waiting(j.node)
  <2>1. call[j.node] \in Call
    BY <1>1, <1>2 DEF TypeOK, Waiting, Idle
  <2>2. [call[j.node] EXCEPT !.reply = reply] \in Call
    BY <2>1 DEF Call
  <2>3. call' = [call EXCEPT ![j.node] = [call[j.node] EXCEPT !.reply = reply]]
    BY <1>2 DEF Reply
  <2>4. QED
    BY <2>2, <2>3 DEF TypeOK
<1>3. CASE ~(call[j.node].id = j.id /\ Waiting(j.node))
  <2>1. call' = [call EXCEPT ![j.node] = call[j.node]]
    BY <1>3 DEF Reply
  <2>2. QED
    BY <2>1, <1>1 DEF TypeOK
<1>4. QED
  BY <1>2, <1>3

(* What is kept of an answer is a reply.                                   *)
LEMMA ParsedType ==
  ASSUME NEW outcome \in Outcome
  PROVE  Parsed(outcome) \subseteq Outcome
BY DEF Parsed, Outcome

LEMMA FinishType ==
  ASSUME TypeOK, NEW j \in jobs, NEW outcome \in Outcome, NEW failed,
         Finish(j, outcome, failed), running' \subseteq Label
  PROVE  TypeOK'
<1>1. PICK reply \in Parsed(outcome) :
        /\ Reply(j, reply)
        /\ done' = IF "success" \notin outcome THEN done
                   ELSE done \cup {[id |-> j.id, node |-> j.node,
                                    full |-> outcome = {"success"},
                                    damaged |-> reply # outcome]}
        /\ Tally(failed \/ reply # outcome)
  BY DEF Finish
<1>2. call' \in [Node -> Call \cup {Idle}]
  BY <1>1, ParsedType, ReplyType
<1>3. [id |-> j.id, node |-> j.node, full |-> outcome = {"success"},
       damaged |-> reply # outcome] \in Deed
  BY DEF TypeOK, Job, Deed
<1>4. done' \subseteq Deed
  BY <1>1, <1>3 DEF TypeOK
<1>5. faults' \in 0 .. MaxFaults
  BY <1>1, TaskAssumption DEF Tally, TypeOK, TaskAssumption
<1>6. jobs' \subseteq Job
  BY DEF Finish, TypeOK
<1>7. QED
  BY <1>2, <1>4, <1>5, <1>6 DEF Finish, haVars, TypeOK, HA!TypeOK

-----------------------------------------------------------------------------
(* One step at a time: the requests, the listener, the platform, the       *)
(* console and the nodes.                                                  *)
LEMMA SendType ==
  ASSUME TypeOK, NEW r \in Request, SendRequest(r)
  PROVE  TypeOK'
<1>1. sent' \in 0 .. MaxRequests
  BY TaskAssumption DEF SendRequest, Request, Id, TaskAssumption
<1>2. inbox' \in [Node -> SUBSET Request]
  BY DEF SendRequest, TypeOK
<1>3. QED
  BY <1>1, <1>2 DEF SendRequest, haVars, platformVars, TypeOK, HA!TypeOK

LEMMA ListenType ==
  ASSUME TypeOK, NEW n \in Node, Listen(n)
  PROVE  TypeOK'
<1>1. ASSUME NEW r \in inbox[n], NEW answer, Drop(n, r) \/ Query(n, r, answer)
      PROVE  TypeOK'
  <2>1. inbox' \in [Node -> SUBSET Request]
    BY <1>1, TakesType DEF Drop, Query
  <2>2. QED
    BY <1>1, <2>1 DEF Drop, Query, haVars, platformVars, TypeOK, HA!TypeOK
<1>2. ASSUME NEW r \in inbox[n], StartTask(n, r)
      PROVE  TypeOK'
  <2>1. r \in Request
    BY DEF TypeOK
  <2>2. r.label \in Label /\ r.label # None
    BY <1>2, <2>1, TaskAssumption DEF StartTask, Request, TaskAssumption
  <2>3. QED
    BY <1>2, <2>2, AskType DEF StartTask
<1>3. ASSUME NEW r \in inbox[n], StopTask(n, r)
      PROVE  TypeOK'
  <2>1. label[n] \in Label \cup {None}
    BY DEF TypeOK
  <2>2. QED
    BY <1>3, <2>1, AskType DEF StopTask
<1>4. CASE Answer(n)
  <2>1. call[n] \in Call
    BY <1>4 DEF Answer, TypeOK, Idle
  <2>2. LabelAfter(call[n], label[n]) \in Label \cup {None}
    BY <2>1 DEF LabelAfter, Call, TypeOK
  <2>3. label' \in [Node -> Label \cup {None}] /\ call' \in [Node -> Call \cup {Idle}]
    BY <1>4, <2>2 DEF Answer, TypeOK
  <2>4. QED
    BY <1>4, <2>3 DEF Answer, haVars, TypeOK, HA!TypeOK
<1>5. CASE GiveUp(n)
  <2>1. call[n] \in Call
    BY <1>5 DEF GiveUp, Waiting, TypeOK, Idle
  <2>2. [call[n] EXCEPT !.reply = {}] \in Call
    BY <2>1 DEF Call, Outcome
  <2>3. call' \in [Node -> Call \cup {Idle}]
    BY <1>5, <2>2 DEF GiveUp, TypeOK
  <2>4. QED
    BY <1>5, <2>3 DEF GiveUp, haVars, platformVars, TypeOK, HA!TypeOK
<1>6. QED
  BY <1>1, <1>2, <1>3, <1>4, <1>5 DEF Listen

LEMMA PlatformType ==
  ASSUME TypeOK, NEW j \in jobs,
         Deploy(j) \/ Undeploy(j) \/ Reset(j) \/ Refuse(j)
  PROVE  TypeOK'
<1>1. {{"success"}, {"failure"}, {"success", "failure"}, {}} \subseteq Outcome
  BY DEF Outcome
<1>2. CASE Deploy(j)
  <2>1. j.label \in Label
    BY <1>2 DEF Deploy, TypeOK, Job
  <2>2. running' \subseteq Label
    BY <1>2, <2>1 DEF Deploy, TypeOK
  <2>3. QED
    BY <1>1, <1>2, <2>2, FinishType DEF Deploy
<1>3. CASE Undeploy(j)
  <2>1. running' \subseteq Label
    BY <1>3 DEF Undeploy, TypeOK
  <2>2. QED
    BY <1>1, <1>3, <2>1, FinishType DEF Undeploy
<1>4. CASE Reset(j)
  <2>1. running' \subseteq Label
    BY <1>4 DEF Reset, TypeOK
  <2>2. QED
    BY <1>1, <1>4, <2>1, FinishType DEF Reset
<1>5. CASE Refuse(j)
  <2>1. call' \in [Node -> Call \cup {Idle}]
    BY <1>1, <1>5, ReplyType DEF Refuse
  <2>2. QED
    BY <1>5, <2>1 DEF Refuse, haVars, TypeOK, HA!TypeOK
<1>6. QED
  BY <1>2, <1>3, <1>4, <1>5

LEMMA ConsoleType ==
  ASSUME TypeOK, Console
  PROVE  TypeOK'
<1>1. running' \subseteq Label /\ \E kind : CliActs(kind)
  BY DEF Console, CliDeploy, CliUndeploy, CliReset, TypeOK
<1>2. faults' \in 0 .. MaxFaults
  BY <1>1, TaskAssumption DEF CliActs, TypeOK, TaskAssumption
<1>3. QED
  BY <1>1, <1>2 DEF CliActs, haVars, TypeOK, HA!TypeOK

LEMMA NodesType ==
  ASSUME TypeOK, Forget \/ \E n \in Node : Leave(n) \/ RoleChange(n)
  PROVE  TypeOK'
<1>1. CASE Forget
  <2>1. HA!TypeOK'
    BY <1>1, RolesType DEF Forget, TypeOK
  <2>2. QED
    BY <1>1, <2>1 DEF Forget, platformVars, TypeOK
<1>2. ASSUME NEW n \in Node, RoleChange(n)
      PROVE  TypeOK'
  <2>1. HA!TypeOK'
    BY <1>2, RolesType DEF RoleChange, TypeOK
  <2>2. QED
    BY <1>2, <2>1 DEF RoleChange, platformVars, TypeOK
<1>3. ASSUME NEW n \in Node, Leave(n)
      PROVE  TypeOK'
  <2>1. HA!TypeOK'
    BY <1>3, RolesType DEF Leave, TypeOK
  <2>2. faults' \in 0 .. MaxFaults
    BY <1>3, TaskAssumption DEF Leave, TypeOK, TaskAssumption
  <2>3. /\ inbox' \in [Node -> SUBSET Request]
        /\ label' \in [Node -> Label \cup {None}]
        /\ call' \in [Node -> Call \cup {Idle}]
    BY <1>3 DEF Leave, TypeOK
  <2>4. QED
    BY <1>3, <2>1, <2>2, <2>3 DEF Leave, platformVars, TypeOK
<1>4. QED
  BY <1>1, <1>2, <1>3

(* Type correctness, for every cluster and every disturbance: no reply of  *)
(* the platform, however late, leaves a node with a reply but no call.     *)
THEOREM TypeCorrect == Spec => []TypeOK
<1>1. Init => TypeOK
  <2>1. HA!Init => HA!TypeOK
    BY DEF HA!Init, HA!TypeOK, HA!Roles
  <2>2. QED
    BY <2>1, TaskAssumption DEF Init, TypeOK, TaskAssumption
<1>2. TypeOK /\ Next => TypeOK'
  BY SendType, ListenType, PlatformType, ConsoleType, NodesType DEF Next, Platform
<1>3. TypeOK /\ UNCHANGED vars => TypeOK'
  BY DEF vars, haVars, platformVars, TypeOK, HA!TypeOK
<1>4. QED
  BY <1>1, <1>2, <1>3, PTL DEF Spec

-----------------------------------------------------------------------------
(* The platform has carried out request i of node n, in full, or in part   *)
(* with an answer that was damaged on its way.                             *)
CarriedOut(i, n) ==
  \E d \in done : d.id = i /\ d.node = n /\ (d.full \/ d.damaged)

(* A call that holds a success has been carried out.                       *)
Backed(n) ==
  call[n].id # 0 /\ call[n].reply = {"success"} => CarriedOut(call[n].id, n)

BackedInv == \A n \in Node : Backed(n)

(* The reply of a job backs the call of its node, and disturbs no other.   *)
LEMMA ReplyBacked ==
  ASSUME TypeOK, BackedInv, NEW j \in jobs, NEW reply, Reply(j, reply),
         done \subseteq done',
         reply = {"success"} => CarriedOut(j.id, j.node)'
  PROVE  BackedInv'
<1>1. SUFFICES ASSUME NEW n \in Node
               PROVE  Backed(n)'
  BY DEF BackedInv
<1>2. CASE call'[n] = call[n]
  BY <1>2 DEF BackedInv, Backed, CarriedOut
<1>3. CASE call'[n] # call[n]
  <2>1. n = j.node /\ call[n].id = j.id
    BY <1>3 DEF Reply, TypeOK
  <2>2. call'[n] = [call[n] EXCEPT !.reply = reply]
    BY <1>3, <2>1 DEF Reply, TypeOK
  <2>3. call[n] \in Call \cup {Idle}
    BY DEF TypeOK
  <2>4. call'[n].id = j.id /\ call'[n].reply = reply
    BY <2>1, <2>2, <2>3 DEF Call, Idle
  <2>5. QED
    BY <2>1, <2>4 DEF Backed
<1>4. QED
  BY <1>2, <1>3

(* What is parsed is a success only if the platform had one to list, and   *)
(* differs from the outcome only if the answer is damaged.                 *)
LEMMA FinishBacked ==
  ASSUME TypeOK, BackedInv, NEW j \in jobs, NEW outcome, NEW failed,
         Finish(j, outcome, failed)
  PROVE  BackedInv'
<1> DEFINE deed(reply) == [id |-> j.id, node |-> j.node, full |-> outcome = {"success"},
                           damaged |-> reply # outcome]
<1>1. PICK reply \in Parsed(outcome) :
        /\ Reply(j, reply)
        /\ done' = IF "success" \notin outcome THEN done ELSE done \cup {deed(reply)}
  BY DEF Finish
<1>2. ASSUME reply = {"success"}
      PROVE  CarriedOut(j.id, j.node)'
  <2>1. "success" \in outcome
    <3>1. {} # {"success"}
      OBVIOUS
    <3>2. QED
      BY <1>1, <1>2, <3>1 DEF Parsed
  <2>2. deed(reply) \in done'
    BY <1>1, <2>1
  <2>3. deed(reply).full \/ deed(reply).damaged
    BY <1>2
  <2>4. deed(reply).id = j.id /\ deed(reply).node = j.node
    OBVIOUS
  <2> HIDE DEF deed
  <2>5. QED
    BY <2>2, <2>3, <2>4 DEF CarriedOut
<1>3. QED
  BY <1>1, <1>2, ReplyBacked

LEMMA PlatformBacked ==
  ASSUME TypeOK, BackedInv, NEW j \in jobs,
         Deploy(j) \/ Undeploy(j) \/ Reset(j) \/ Refuse(j)
  PROVE  BackedInv'
<1>1. CASE Deploy(j)
  BY <1>1, FinishBacked DEF Deploy
<1>2. CASE Undeploy(j)
  BY <1>2, FinishBacked DEF Undeploy
<1>3. CASE Reset(j)
  BY <1>3, FinishBacked DEF Reset
<1>4. CASE Refuse(j)
  <2>1. {} # {"success"}
    OBVIOUS
  <2>2. QED
    BY <1>4, <2>1, ReplyBacked DEF Refuse
<1>5. QED
  BY <1>1, <1>2, <1>3, <1>4

LEMMA ListenBacked ==
  ASSUME TypeOK, BackedInv, NEW n \in Node, Listen(n)
  PROVE  BackedInv'
<1>1. SUFFICES ASSUME NEW d \in Node
               PROVE  Backed(d)'
  BY DEF BackedInv
<1>2. ASSUME NEW r \in inbox[n], NEW answer, Drop(n, r) \/ Query(n, r, answer)
      PROVE  Backed(d)'
  BY <1>2 DEF Drop, Query, platformVars, BackedInv, Backed, CarriedOut
<1>3. ASSUME NEW r \in inbox[n], NEW op, NEW l, Ask(n, r, op, l)
      PROVE  Backed(d)'
  <2>1. CASE d = n
    <3>1. call'[d].reply = {"waiting"}
      BY <1>3, <2>1 DEF Ask, TypeOK
    <3>2. {"waiting"} # {"success"}
      OBVIOUS
    <3>3. QED
      BY <3>1, <3>2 DEF Backed
  <2>2. CASE d # n
    BY <1>3, <2>2 DEF Ask, TypeOK, BackedInv, Backed, CarriedOut
  <2>3. QED
    BY <2>1, <2>2
<1>4. CASE Answer(n)
  <2>1. CASE d = n
    BY <1>4, <2>1 DEF Answer, TypeOK, Idle, Backed
  <2>2. CASE d # n
    <3>1. call'[d] = call[d] /\ \A e \in done : e.node = d => e \in done'
      BY <1>4, <2>2 DEF Answer, TypeOK
    <3>2. QED
      BY <3>1 DEF BackedInv, Backed, CarriedOut
  <2>3. QED
    BY <2>1, <2>2
<1>5. CASE GiveUp(n)
  <2>1. CASE d = n
    <3>1. call[n] \in Call \cup {Idle}
      BY DEF TypeOK
    <3>2. call'[d].reply = {}
      BY <1>5, <2>1, <3>1 DEF GiveUp, TypeOK, Call, Idle
    <3>3. QED
      BY <3>2 DEF Backed
  <2>2. CASE d # n
    BY <1>5, <2>2 DEF GiveUp, platformVars, TypeOK, BackedInv, Backed, CarriedOut
  <2>3. QED
    BY <2>1, <2>2
<1>6. QED
  BY <1>2, <1>3, <1>4, <1>5 DEF Listen, StartTask, StopTask

LEMMA BackedStep ==
  ASSUME TypeOK, BackedInv, Next
  PROVE  BackedInv'
<1>1. CASE \/ Console
           \/ Forget
           \/ \E r \in Request : SendRequest(r)
           \/ \E n \in Node : RoleChange(n)
  BY <1>1 DEF Console, CliDeploy, CliUndeploy, CliReset, CliActs, Forget, SendRequest,
              RoleChange, platformVars, BackedInv, Backed, CarriedOut
<1>2. ASSUME NEW n \in Node, Leave(n)
      PROVE  BackedInv'
  <2>1. \A d \in Node : call'[d] = IF d = n THEN Idle ELSE call[d]
    BY <1>2 DEF Leave, TypeOK
  <2>2. QED
    BY <1>2, <2>1 DEF Leave, platformVars, Idle, BackedInv, Backed, CarriedOut
<1>3. QED
  BY <1>1, <1>2, ListenBacked, PlatformBacked DEF Next, Platform

(* A success is never answered for a request that the platform has not     *)
(* carried out, nor for one that it has carried out in part, unless its    *)
(* answer was damaged, whichever disturbances there are.                   *)
THEOREM SuccessIsTrue == Spec => NoFalseSuccess
<1> DEFINE Truthful == \A n \in Node :
             Answer(n) /\ Succeeded(call[n].reply) =>
               \E d \in done : d.id = call[n].id /\ d.node = n /\ (d.full \/ d.damaged)
<1>1. Init => BackedInv
  BY DEF Init, Idle, BackedInv, Backed
<1>2. TypeOK /\ BackedInv /\ [Next]_vars => BackedInv'
  <2>1. BackedInv /\ UNCHANGED vars => BackedInv'
    BY DEF vars, platformVars, BackedInv, Backed, CarriedOut
  <2>2. QED
    BY <2>1, BackedStep
<1>3. BackedInv => Truthful
  BY DEF BackedInv, Backed, CarriedOut, Answer, Succeeded
<1>4. QED
  BY <1>1, <1>2, <1>3, TypeCorrect, PTL DEF Spec, NoFalseSuccess
=============================================================================
