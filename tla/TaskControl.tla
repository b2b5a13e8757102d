----------------------------- MODULE TaskControl -----------------------------
(***************************************************************************)
(* Starting, stopping and querying the task of the system.  Requests are   *)
(* multicast to the ResourceMonitorListener of every node; the node that   *)
(* is Primary has its ResourceMonitorBroadcaster carry them out on the     *)
(* deployment platform over HTTP (QywApiClient), and answers by multicast. *)
(* What runs is known to a node only through m_currentRunningLabel, which  *)
(* it keeps in memory for itself.  Operators also act on the platform      *)
(* directly, through the console of a node (CliService).                   *)
(*                                                                         *)
(* Who is Primary is left to PrimaryStandby.  A task is a work mode, that  *)
(* is the label its stacks carry (WorkModeToLabel is injective).           *)
(***************************************************************************)
EXTENDS Naturals, FiniteSets

CONSTANTS
  Node, Priority, Ip,  \* as in PrimaryStandby
  Label,               \* work modes that may be started
  None,                \* the empty label: no task is known to run
  MaxRequests,         \* bound on the number of requests sent
  Disturbances,        \* what may go wrong: see DisturbanceKinds
  MaxFaults            \* bound on nodes leaving, failures at the platform,
                       \* damaged answers and console acts

(* "handover": a node becomes Primary while another one is, yields, or     *)
(* takes over while the platform still works on a request; without it a    *)
(* Primary ends only by leaving, once the platform has settled.            *)
(* "fail", "partial": a deployment fails, in full or for some stacks;      *)
(* "stopFail": stacks are not undeployed or reset; "damaged": an answer    *)
(* cannot be parsed to its end.                                            *)
DisturbanceKinds ==
  {"leave", "handover", "lost", "timeout", "damaged",
   "fail", "partial", "stopFail", "cliDeploy", "cliStop"}

ASSUME TaskAssumption ==
  /\ None \notin Label
  /\ Disturbances \subseteq DisturbanceKinds
  /\ MaxRequests \in Nat
  /\ MaxFaults \in Nat

VARIABLES
  role, claims,  \* the roles of the nodes: see PrimaryStandby
  sent,          \* number of requests sent so far
  inbox,         \* requests that wait in a listener's socket
  label,         \* m_currentRunningLabel
  call,          \* what a listener thread is asking the platform
  jobs,          \* requests the platform has yet to carry out
  running,       \* labels of which stacks run on the platform
  done,          \* requests of a node the platform has carried out, in full or
                 \* in part, and the node has yet to answer
  faults         \* number of disturbances so far

HA == INSTANCE PrimaryStandby

haVars       == <<role, claims>>
platformVars == <<jobs, running, done>>
vars == <<role, claims, sent, inbox, label, call, jobs, running, done, faults>>

-----------------------------------------------------------------------------
Id == 1 .. MaxRequests

Request ==
  [id : Id, op : {"start"}, label : Label, strategy : {0, 1}]
    \cup [id : Id, op : {"stop", "query"}, label : {None}, strategy : {0}]

Idle    == [id |-> 0, op |-> "none", label |-> None, reply |-> {"waiting"}]
Outcome == SUBSET {"success", "failure"}

(* The reply of a call tells which of the lists successStackInfos and      *)
(* failureStackInfos have an entry: neither, when the request failed.  A   *)
(* reset has no lists; it is true, {"success"}, or false, {}.              *)
Call ==
  {c \in [id : Id, op : {"deploy", "undeploy", "reset"}, label : Label \cup {None},
          reply : {{"waiting"}} \cup Outcome] : c.label = None <=> c.op = "reset"}

Job ==
  {j \in [id : Id, node : Node, op : {"deploy", "undeploy", "reset"},
          label : Label \cup {None}] : j.label = None <=> j.op = "reset"}

Deed == [id : Id, node : Node, full : BOOLEAN, damaged : BOOLEAN]

(* The types of the state: above all, a node never holds a reply without a *)
(* call it belongs to, however late the platform answers (lines 536, 595). *)
TypeOK ==
  /\ HA!TypeOK
  /\ sent \in 0 .. MaxRequests
  /\ inbox \in [Node -> SUBSET Request]
  /\ label \in [Node -> Label \cup {None}]
  /\ call \in [Node -> Call \cup {Idle}]
  /\ jobs \subseteq Job
  /\ running \subseteq Label
  /\ done \subseteq Deed
  /\ faults \in 0 .. MaxFaults

IsPrimary(n) == role[n] = "Primary"

(* main.cpp creates the listener when Start has settled the role.          *)
Listening(n) == role[n] \in {"Primary", "Standby"}

Waiting(n) == call[n].id # 0 /\ call[n].reply = {"waiting"}

SucceededIfNoFailure(reply) == "failure" \notin reply

(* failureStackInfos is empty and successStackInfos is not.                *)
Succeeded(reply) == reply = {"success"}

-----------------------------------------------------------------------------
(* A request is multicast; some sockets may miss it.                       *)
SendRequest(r) ==
  /\ r.id = sent + 1
  /\ sent' = sent + 1
  /\ \E got \in SUBSET {n \in Node : Listening(n)} :
       inbox' = [n \in Node |-> IF n \in got THEN inbox[n] \cup {r} ELSE inbox[n]]
  /\ UNCHANGED <<haVars, label, call, platformVars, faults>>

(* The listener thread is free and takes request r from its socket.        *)
Takes(n, r) ==
  /\ call[n] = Idle
  /\ inbox' = [inbox EXCEPT ![n] = @ \ {r}]

(* Another node than the Primary drops what it reads; a Primary drops the  *)
(* starts whose strategy is not 0.                                         *)
Drop(n, r) ==
  /\ Takes(n, r)
  /\ ~IsPrimary(n) \/ r.strategy # 0
  /\ UNCHANGED <<haVars, sent, label, call, platformVars, faults>>

(* The thread asks the platform and blocks until Reply, Refuse or GiveUp.  *)
Ask(n, r, op, l) ==
  /\ Takes(n, r)
  /\ IsPrimary(n)
  /\ call' = [call EXCEPT ![n] = [id |-> r.id, op |-> op, label |-> l,
                                  reply |-> {"waiting"}]]
  /\ jobs' = jobs \cup {[id |-> r.id, node |-> n, op |-> op, label |-> l]}
  /\ UNCHANGED <<haVars, sent, label, running, done, faults>>

StartTask(n, r) ==
  /\ r.op = "start" /\ r.strategy = 0
  /\ Ask(n, r, "deploy", r.label)

(* A stop undeploys the task the node knows of, or resets all stacks when  *)
(* it knows of none.                                                       *)
StopTask(n, r) ==
  /\ r.op = "stop"
  /\ Ask(n, r, IF label[n] = None THEN "reset" ELSE "undeploy", label[n])

(* A query that finds the task it asks for, on its board and among the     *)
(* stacks, is answered with the work mode of the label; otherwise no field *)
(* but the status is filled in, and the work mode is 0.  What a node finds *)
(* is up to its Inventory, which may be behind.                            *)
QueryAnswers(n) ==
  {[found |-> TRUE, mode |-> label[n]], [found |-> FALSE, mode |-> None]}

Query(n, r, answer) ==
  /\ r.op = "query"
  /\ Takes(n, r)
  /\ IsPrimary(n)
  /\ answer \in QueryAnswers(n)
  /\ UNCHANGED <<haVars, sent, label, call, platformVars, faults>>

LabelIfNone(c, l) ==
  IF Succeeded(c.reply) /\ c.op # "reset"
    THEN IF c.op = "undeploy" THEN None ELSE IF l = None THEN c.label ELSE l
    ELSE l

LabelKept(c, l) == IF c.op = "deploy" /\ Succeeded(c.reply) THEN c.label ELSE l

(* m_currentRunningLabel after call c, when it was l before.               *)
LabelAfter(c, l) ==
  IF Succeeded(c.reply) /\ c.op # "reset"
    THEN IF c.op = "deploy" THEN c.label ELSE None
    ELSE l

(* The call has returned: the label follows its result and the response    *)
(* goes out, whatever the role has become.                                 *)
Answer(n) ==
  /\ call[n].id # 0 /\ ~Waiting(n)
  /\ label' = [label EXCEPT ![n] = LabelAfter(call[n], @)]
  /\ call' = [call EXCEPT ![n] = Idle]
  /\ done' = {d \in done : d.id # call[n].id \/ d.node # n}
  /\ UNCHANGED <<haVars, sent, inbox, jobs, running, faults>>

-----------------------------------------------------------------------------
ReplyToAnyCall(j, reply) ==
  call' = [call EXCEPT ![j.node].reply = reply]

(* The platform carries out a request; its reply reaches the node if that  *)
(* still waits for it.                                                     *)
Reply(j, reply) ==
  call' = [call EXCEPT ![j.node] =
             IF @.id = j.id /\ Waiting(j.node) THEN [@ EXCEPT !.reply = reply] ELSE @]

(* ParseDeployResponse reads the list of successes first, and keeps what   *)
(* it has read when it comes to an entry that it cannot parse.             *)
Parsed(outcome) ==
  {outcome} \cup (IF "damaged" \notin Disturbances THEN {}
                  ELSE {{}} \cup (IF "success" \in outcome THEN {{"success"}} ELSE {}))

Tally(disturbed) ==
  IF disturbed THEN faults < MaxFaults /\ faults' = faults + 1 ELSE UNCHANGED faults

(* The platform is done with a job, which has succeeded or failed, and     *)
(* answers.                                                                *)
Finish(j, outcome, failed) ==
  /\ jobs' = jobs \ {j}
  /\ \E reply \in Parsed(outcome) :
       /\ Reply(j, reply)
       /\ done' = IF "success" \notin outcome THEN done
                  ELSE done \cup {[id |-> j.id, node |-> j.node,
                                   full |-> outcome = {"success"},
                                   damaged |-> reply # outcome]}
       /\ Tally(failed \/ reply # outcome)
  /\ UNCHANGED <<haVars, sent, inbox, label>>

DeployBeside(j) ==
  /\ j.op = "deploy"
  /\ running' = running \cup {j.label}
  /\ Finish(j, {"success"}, FALSE)

(* DeployStacks is called with stop = 1: everything else stops first.  A   *)
(* deployment that fails may have come that far or not.                    *)
Deploy(j) ==
  /\ j.op = "deploy"
  /\ \/ /\ running' = {j.label}
        /\ Finish(j, {"success"}, FALSE)
     \/ /\ "partial" \in Disturbances
        /\ running' = {j.label}
        /\ Finish(j, {"success", "failure"}, TRUE)
     \/ /\ "fail" \in Disturbances
        /\ running' \in SUBSET running
        /\ Finish(j, {"failure"}, TRUE)

(* Undeploying fails when the label does not run, and may fail for all or  *)
(* some of its stacks, which then run on.                                  *)
Undeploy(j) ==
  /\ j.op = "undeploy"
  /\ \/ /\ running' = running \ {j.label}
        /\ Finish(j, IF j.label \in running THEN {"success"} ELSE {"failure"}, FALSE)
     \/ /\ "stopFail" \in Disturbances
        /\ j.label \in running
        /\ UNCHANGED running
        /\ \E outcome \in {{"failure"}, {"success", "failure"}} :
             Finish(j, outcome, TRUE)

(* A reset stops everything, or has another code than 0.                   *)
Reset(j) ==
  /\ j.op = "reset"
  /\ \/ /\ running' = {}
        /\ Finish(j, {"success"}, FALSE)
     \/ /\ "stopFail" \in Disturbances
        /\ running' \in SUBSET running
        /\ Finish(j, {}, TRUE)

(* The request never reaches the platform.                                 *)
Refuse(j) ==
  /\ "lost" \in Disturbances
  /\ jobs' = jobs \ {j}
  /\ Reply(j, {})
  /\ UNCHANGED <<haVars, sent, inbox, label, running, done, faults>>

(* A client without a timeout waits on.                                    *)
WaitOn(n) ==
  /\ "timeout" \in Disturbances
  /\ Waiting(n)
  /\ UNCHANGED vars

(* The HTTP client stops waiting; the platform may still act.              *)
GiveUp(n) ==
  /\ "timeout" \in Disturbances
  /\ Waiting(n)
  /\ call' = [call EXCEPT ![n].reply = {}]
  /\ UNCHANGED <<haVars, sent, inbox, label, platformVars, faults>>

-----------------------------------------------------------------------------
(* The console: deploy (not exclusive), undeploy and reset.  A console and *)
(* the listener of its node share one HTTP client, which serialises them.  *)
CliActs(kind) ==
  /\ kind \in Disturbances /\ faults < MaxFaults
  /\ faults' = faults + 1
  /\ \E n \in Node : role[n] # "Down" /\ call[n] = Idle
  /\ UNCHANGED <<haVars, sent, inbox, label, call, jobs, done>>

CliDeploy(ls)   == running' = running \cup ls /\ CliActs("cliDeploy")
CliUndeploy(ls) == running' = running \ ls /\ CliActs("cliStop")
CliReset        == running' = {} /\ CliActs("cliStop")

-----------------------------------------------------------------------------
(* A process that ends loses its socket, its label and its call.           *)
Leave(n) ==
  /\ "leave" \in Disturbances /\ faults < MaxFaults
  /\ role[n] # "Down"
  /\ HA!Leave(n)
  /\ faults' = faults + 1
  /\ inbox' = [inbox EXCEPT ![n] = {}]
  /\ label' = [label EXCEPT ![n] = None]
  /\ call' = [call EXCEPT ![n] = Idle]
  /\ UNCHANGED <<sent, platformVars>>

(* n becomes Primary only when nobody else is and the platform has settled.*)
Calm(n) ==
  "handover" \in Disturbances
    \/ ~IsPrimary(n)'
    \/ (HA!Primaries \subseteq {n} /\ jobs = {})

RoleChange(n) ==
  /\ HA!Join(n) \/ HA!Decide(n) \/ HA!TakeOver(n) \/ HA!Yield(n)
  /\ "handover" \notin Disturbances => ~(IsPrimary(n) /\ ~IsPrimary(n)')
  /\ Calm(n)
  /\ UNCHANGED <<sent, inbox, label, call, platformVars, faults>>

Forget ==
  /\ HA!Forget
  /\ UNCHANGED <<sent, inbox, label, call, platformVars, faults>>

Init ==
  /\ HA!Init
  /\ sent = 0
  /\ inbox = [n \in Node |-> {}]
  /\ label = [n \in Node |-> None]
  /\ call = [n \in Node |-> Idle]
  /\ jobs = {}
  /\ running = {}
  /\ done = {}
  /\ faults = 0

Listen(n) ==
  \/ \E r \in inbox[n] : \/ Drop(n, r)
                         \/ StartTask(n, r)
                         \/ StopTask(n, r)
                         \/ \E answer \in QueryAnswers(n) : Query(n, r, answer)
  \/ Answer(n)
  \/ GiveUp(n)

Platform ==
  \E j \in jobs : \/ Deploy(j)
                  \/ Undeploy(j)
                  \/ Reset(j)
                  \/ Refuse(j)

Console ==
  \/ \E ls \in SUBSET Label : CliDeploy(ls) \/ CliUndeploy(ls)
  \/ CliReset

Next ==
  \/ \E r \in Request : SendRequest(r)
  \/ \E n \in Node : Listen(n) \/ Leave(n) \/ RoleChange(n)
  \/ Forget
  \/ Platform
  \/ Console

Spec == Init /\ [][Next]_vars

(* A listener thread that can go on does.  Nothing is assumed of the       *)
(* platform: the client's timeout ends a call.                             *)
FairSpec == Spec /\ \A n \in Node : WF_vars(Listen(n))

-----------------------------------------------------------------------------
(* Properties.                                                             *)

(* A node answers a start or a stop with success only if the platform has  *)
(* carried out that very request: an HTTP error, a timeout, a failure or   *)
(* the late answer to an earlier request never looks like a success (lines *)
(* 538, 576 and 597).  A partial failure does so only when the answer is   *)
(* damaged behind its list of successes (qyw_api_client.cpp:461).          *)
NoFalseSuccess ==
  [][\A n \in Node :
       Answer(n) /\ Succeeded(call[n].reply) =>
         \E d \in done : d.id = call[n].id /\ d.node = n /\ (d.full \/ d.damaged)]_vars

(* An idle Primary could stop all that runs: it knows the label of the     *)
(* only task, or knows of none and would reset all stacks (line 571).      *)
StopReaches ==
  \A n \in Node :
    IsPrimary(n) /\ call[n] = Idle => label[n] = None \/ running \subseteq {label[n]}

(* A stop that is answered with success leaves nothing running (UDP.txt,   *)
(* section 4: a stop stops the task that runs), although it undeploys one  *)
(* label only, or resets, by what the node remembers (line 571).           *)
StopStops ==
  [][\A n \in Node :
       Answer(n) /\ call[n].op \in {"undeploy", "reset"} /\ Succeeded(call[n].reply)
         => running = {}]_vars

(* When there is one Primary and no request is under way, the label that   *)
(* it remembers is that of the task that runs (the comment on              *)
(* m_currentRunningLabel, resource_monitor_broadcaster.h:353): a stop      *)
(* undeploys that label and nothing else.                                  *)
LabelIsCurrent ==
  \A n \in Node :
    /\ HA!Primaries = {n} /\ label[n] # None
    /\ jobs = {} /\ \A d \in Node : call[d] = Idle
    => running \subseteq {label[n]}

(* Until a node leaves, something fails at the platform or an operator     *)
(* acts, a query that finds its task is answered with the work mode of the *)
(* task that runs, and with 0 when none does (LabelToWorkMode, line 632),  *)
(* whatever requests were lost before.                                     *)
QueryTruthful ==
  [][\A n \in Node : \A r \in inbox[n] : \A answer \in QueryAnswers(n) :
       faults = 0 /\ Query(n, r, answer) /\ answer.found
         => running = {answer.mode} \ {None}]_vars

ToCarryOut == {r \in Request : r.strategy = 0 /\ r.op # "query"}

(* A start or stop that a Primary has in its socket is carried out, unless *)
(* the node ceases to be Primary, and whatever is carried out is answered  *)
(* in the end: not even a platform that never reacts keeps the listener    *)
(* thread (ListenLoop).                                                    *)
RequestsHandled ==
  /\ \A n \in Node, r \in ToCarryOut :
       (IsPrimary(n) /\ r \in inbox[n]) ~> (~IsPrimary(n) \/ call[n].id = r.id)
  /\ \A n \in Node, i \in Id : (call[n].id = i) ~> (call[n].id # i)
=============================================================================
