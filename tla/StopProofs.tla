----------------------------- MODULE StopProofs -----------------------------
(* Theorems about stopping and querying in TaskControl, where one Primary  *)
(* at a time gets the answers of the platform: without two Primaries,      *)
(* client timeouts, damaged answers, partial deployments and deployments   *)
(* at a console.                                                           *)
EXTENDS TaskControlProofs

Undisputed ==
  Disturbances \cap {"handover", "timeout", "damaged", "partial", "cliDeploy"} = {}

(* Only the one Primary knows a label and asks the platform, and all that  *)
(* the platform has yet to do is what this Primary waits for.              *)
Owned(n) ==
  /\ ~IsPrimary(n) => label[n] = None /\ call[n] = Idle
  /\ call[n].op \in {"undeploy", "reset"} => call[n].label = label[n]
  /\ IsPrimary(n) => \A m \in Node : IsPrimary(m) => m = n
  /\ IsPrimary(n) => \A j \in jobs :
       /\ j.node = n
       /\ call[n] = [id |-> j.id, op |-> j.op, label |-> j.label, reply |-> {"waiting"}]

(* The label that n has once its call is answered.                         *)
NextLabel(n) == LabelAfter(call[n], label[n])

Covered(n) == NextLabel(n) = None \/ running \subseteq {NextLabel(n)}

Stopped(n) ==
  call[n].op \in {"undeploy", "reset"} /\ Succeeded(call[n].reply) => running = {}

Exact(n) == running = {NextLabel(n)} \ {None}

(* Before the first disturbance the label is even exact, and nothing runs  *)
(* before there is a Primary.                                              *)
Undisturbed ==
  faults = 0 =>
    /\ \A n \in Node : IsPrimary(n) => Exact(n)
    /\ (\A n \in Node : ~IsPrimary(n)) => running = {} /\ jobs = {}

StopInv ==
  /\ \A n \in Node : Owned(n)
  /\ \A n \in Node : IsPrimary(n) => Covered(n) /\ Stopped(n)
  /\ Undisturbed

-----------------------------------------------------------------------------
(* A thread that asks nothing, or has its answer, leaves the platform      *)
(* nothing to do.                                                          *)
LEMMA NoJobs ==
  ASSUME TypeOK, StopInv, NEW n \in Node, IsPrimary(n), ~Waiting(n)
  PROVE  jobs = {}
<1>1. SUFFICES ASSUME NEW j \in jobs
               PROVE  FALSE
  OBVIOUS
<1>2. call[n] = [id |-> j.id, op |-> j.op, label |-> j.label, reply |-> {"waiting"}]
  BY DEF StopInv, Owned
<1>3. j.id # 0
  BY DEF TypeOK, Job, Id
<1>4. QED
  BY <1>2, <1>3 DEF Waiting

(* Steps that leave the roles, labels, calls and jobs alone and stop       *)
(* tasks at most, as a disturbance.                                        *)
LEMMA QuietStep ==
  ASSUME StopInv, UNCHANGED <<role, label, call, jobs>>, running' \subseteq running,
         faults' = 0 => faults = 0 /\ running' = running
  PROVE  StopInv'
<1>1. \A n \in Node : Owned(n)'
  BY DEF StopInv, Owned, IsPrimary
<1>2. \A n \in Node : IsPrimary(n)' => Covered(n)' /\ Stopped(n)'
  BY DEF StopInv, IsPrimary, Covered, Stopped, NextLabel, LabelAfter, Succeeded
<1>3. Undisturbed'
  BY DEF StopInv, IsPrimary, Undisturbed, Exact, NextLabel, LabelAfter, Succeeded
<1>4. QED
  BY <1>1, <1>2, <1>3 DEF StopInv

(* The only Primary asks the platform: nothing else was being asked.       *)
LEMMA AskStep ==
  ASSUME TypeOK, StopInv, NEW n \in Node, NEW r \in inbox[n],
         NEW op \in {"deploy", "undeploy", "reset"}, NEW l,
         op # "deploy" => l = label[n], Ask(n, r, op, l)
  PROVE  StopInv'
<1>1. IsPrimary(n) /\ call[n] = Idle /\ ~Waiting(n)
  BY DEF Ask, Takes, Idle, Waiting
<1>2. jobs' = {[id |-> r.id, node |-> n, op |-> op, label |-> l]}
  BY <1>1, NoJobs DEF Ask
<1>3. /\ call'[n] = [id |-> r.id, op |-> op, label |-> l, reply |-> {"waiting"}]
      /\ \A d \in Node : d # n => call'[d] = call[d]
  BY DEF Ask, TypeOK
<1>4. role' = role /\ label' = label /\ running' = running /\ faults' = faults
  BY DEF Ask, haVars
<1>5. \A d \in Node : IsPrimary(d) => d = n
  BY <1>1 DEF StopInv, Owned
<1>6. \A d \in Node : Owned(d)'
  BY <1>1, <1>2, <1>3, <1>4, <1>5 DEF StopInv, Owned, IsPrimary
<1>7. {"waiting"} # {"success"}
  OBVIOUS
<1>8. NextLabel(n)' = NextLabel(n)
  BY <1>1, <1>3, <1>4, <1>7 DEF NextLabel, LabelAfter, Succeeded, Idle
<1>9. \A d \in Node : IsPrimary(d)' => Covered(d)' /\ Stopped(d)'
  BY <1>1, <1>3, <1>4, <1>5, <1>7, <1>8 DEF StopInv, IsPrimary, Covered, Stopped, Succeeded
<1>10. Undisturbed'
  BY <1>1, <1>4, <1>5, <1>8 DEF StopInv, IsPrimary, Undisturbed, Exact
<1>11. QED
  BY <1>6, <1>9, <1>10 DEF StopInv

(* The Primary answers, with the label it was to have.                     *)
LEMMA AnswerStep ==
  ASSUME TypeOK, StopInv, NEW n \in Node, Answer(n)
  PROVE  StopInv'
<1>1. call[n].id # 0 /\ ~Waiting(n)
  BY DEF Answer
<1>2. IsPrimary(n)
  BY <1>1 DEF StopInv, Owned, Idle
<1>3. jobs = {} /\ jobs' = {}
  BY <1>1, <1>2, NoJobs DEF Answer
<1>4. /\ call'[n] = Idle /\ label'[n] = NextLabel(n)
      /\ \A d \in Node : d # n => call'[d] = call[d] /\ label'[d] = label[d]
  BY DEF Answer, TypeOK, NextLabel
<1>5. role' = role /\ running' = running /\ faults' = faults
  BY DEF Answer, haVars
<1>6. \A d \in Node : IsPrimary(d) => d = n
  BY <1>2 DEF StopInv, Owned
<1>7. \A d \in Node : Owned(d)'
  BY <1>2, <1>3, <1>4, <1>5, <1>6 DEF StopInv, Owned, IsPrimary, Idle
<1>8. {"waiting"} # {"success"}
  OBVIOUS
<1>9. NextLabel(n)' = NextLabel(n)
  BY <1>4, <1>8 DEF NextLabel, LabelAfter, Succeeded, Idle
<1>10. \A d \in Node : IsPrimary(d)' => Covered(d)' /\ Stopped(d)'
  BY <1>2, <1>4, <1>5, <1>6, <1>8, <1>9
    DEF StopInv, IsPrimary, Covered, Stopped, Succeeded, Idle
<1>11. Undisturbed'
  BY <1>2, <1>5, <1>6, <1>9 DEF StopInv, IsPrimary, Undisturbed, Exact
<1>12. QED
  BY <1>7, <1>10, <1>11 DEF StopInv

(* What a listener does.                                                   *)
LEMMA ListenStep ==
  ASSUME Undisputed, TypeOK, StopInv, NEW n \in Node, Listen(n)
  PROVE  StopInv'
<1>1. ASSUME NEW r \in inbox[n], NEW answer, Drop(n, r) \/ Query(n, r, answer)
      PROVE  StopInv'
  BY <1>1, QuietStep DEF Drop, Query, haVars, platformVars
<1>2. ASSUME NEW r \in inbox[n], StartTask(n, r)
      PROVE  StopInv'
  BY <1>2, AskStep DEF StartTask
<1>3. ASSUME NEW r \in inbox[n], StopTask(n, r)
      PROVE  StopInv'
  BY <1>3, AskStep DEF StopTask
<1>4. ~GiveUp(n)
  BY DEF GiveUp, Undisputed
<1>5. QED
  BY <1>1, <1>2, <1>3, <1>4, AnswerStep DEF Listen

-----------------------------------------------------------------------------
(* The reply of the platform reaches the Primary, if there is one, and     *)
(* nothing is left to do.                                                  *)
LEMMA ReplyReaches ==
  ASSUME TypeOK, StopInv, NEW n \in Node, IsPrimary(n),
         NEW j \in jobs, NEW reply \in Outcome, Reply(j, reply)
  PROVE  /\ call'[n] = [id |-> j.id, op |-> j.op, label |-> j.label, reply |-> reply]
         /\ \A d \in Node : d # n => call'[d] = call[d]
         /\ jobs = {j}
<1>1. ASSUME NEW k \in jobs
      PROVE  /\ k.node = n
             /\ call[n].id = k.id /\ call[n].op = k.op /\ call[n].label = k.label
             /\ call[n].reply = {"waiting"}
  <2>1. call[n] = [id |-> k.id, op |-> k.op, label |-> k.label, reply |-> {"waiting"}]
    BY DEF StopInv, Owned
  <2>2. k.node = n
    BY DEF StopInv, Owned
  <2>3. QED
    BY <2>1, <2>2
<1>2. j.id # 0
  BY DEF TypeOK, Job, Id
<1>3. j.node = n /\ call[n].id = j.id /\ Waiting(n)
  BY <1>1, <1>2 DEF Waiting
<1>4. call' = [call EXCEPT ![n] = [call[n] EXCEPT !.reply = reply]]
  BY <1>3 DEF Reply
<1>5. call'[n] = [id |-> j.id, op |-> j.op, label |-> j.label, reply |-> reply]
  <2>1. call[n] = [id |-> j.id, op |-> j.op, label |-> j.label, reply |-> {"waiting"}]
    BY DEF StopInv, Owned
  <2>2. QED
    BY <1>4, <2>1 DEF TypeOK
<1>6. ASSUME NEW k \in jobs
      PROVE  k = j
  <2>1. k.id = j.id /\ k.node = j.node /\ k.op = j.op /\ k.label = j.label
    BY <1>1
  <2>2. QED
    BY <2>1 DEF TypeOK, Job
<1>7. QED
  BY <1>4, <1>5, <1>6 DEF TypeOK

(* The platform is done with a job: the label the Primary is to have       *)
(* covers what runs, and an answered stop has stopped everything.          *)
LEMMA ReplyStep ==
  ASSUME TypeOK, StopInv, NEW j \in jobs, NEW reply \in Outcome, Reply(j, reply),
         jobs' = jobs \ {j}, UNCHANGED haVars, UNCHANGED label,
         faults' = 0 => faults = 0,
         \A n \in Node : IsPrimary(n) =>
           LET l == LabelAfter([id |-> j.id, op |-> j.op, label |-> j.label,
                                reply |-> reply], label[n])
           IN  /\ l = None \/ running' \subseteq {l}
               /\ j.op \in {"undeploy", "reset"} /\ Succeeded(reply) => running' = {}
               /\ faults' = 0 => running' = {l} \ {None}
  PROVE  StopInv'
<1>1. role' = role /\ label' = label
  BY DEF haVars
<1>2. ASSUME NEW n \in Node, IsPrimary(n)
      PROVE  StopInv'
  <2>1. /\ call'[n] = [id |-> j.id, op |-> j.op, label |-> j.label, reply |-> reply]
        /\ \A d \in Node : d # n => call'[d] = call[d]
        /\ jobs' = {}
    BY <1>2, ReplyReaches
  <2>2. \A d \in Node : IsPrimary(d) => d = n
    BY <1>2 DEF StopInv, Owned
  <2>3. call[n].op = j.op /\ call[n].label = j.label
    <3>1. call[n] = [id |-> j.id, op |-> j.op, label |-> j.label, reply |-> {"waiting"}]
      BY <1>2 DEF StopInv, Owned
    <3>2. QED
      BY <3>1
  <2>4. \A d \in Node : Owned(d)'
    BY <1>1, <1>2, <2>1, <2>2, <2>3 DEF StopInv, Owned, IsPrimary
  <2>5. Covered(n)' /\ Stopped(n)' /\ (faults' = 0 => Exact(n)')
    BY <1>1, <1>2, <2>1 DEF Covered, Stopped, Exact, NextLabel
  <2>6. Undisturbed'
    BY <1>1, <1>2, <2>2, <2>5 DEF IsPrimary, Undisturbed
  <2>7. QED
    BY <1>1, <2>2, <2>4, <2>5, <2>6 DEF StopInv, IsPrimary
<1>3. CASE \A n \in Node : ~IsPrimary(n)
  <2>1. j.id # 0 /\ j.node \in Node
    BY DEF TypeOK, Job, Id
  <2>2. call[j.node].id # j.id
    BY <1>3, <2>1 DEF StopInv, Owned, Idle
  <2>3. call' = call
    BY <2>1, <2>2 DEF Reply, TypeOK
  <2>4. faults' # 0
    BY <1>3 DEF StopInv, Undisturbed
  <2>5. \A n \in Node : Owned(n)'
    BY <1>1, <1>3, <2>3 DEF StopInv, Owned, IsPrimary
  <2>6. QED
    BY <1>1, <1>3, <2>4, <2>5 DEF StopInv, Undisturbed, IsPrimary
<1>4. QED
  BY <1>2, <1>3

(* What the label of the Primary says before the platform reacts.          *)
LEMMA LabelBefore ==
  ASSUME TypeOK, StopInv, NEW j \in jobs, NEW n \in Node, IsPrimary(n)
  PROVE  /\ label[n] = None \/ running \subseteq {label[n]}
         /\ faults = 0 => running = {label[n]} \ {None}
         /\ j.op # "deploy" => j.label = label[n]
         /\ j.label = None <=> j.op = "reset"
<1>1. call[n] = [id |-> j.id, op |-> j.op, label |-> j.label, reply |-> {"waiting"}]
  BY DEF StopInv, Owned
<1>2. j.op \in {"deploy", "undeploy", "reset"} /\ (j.label = None <=> j.op = "reset")
  BY DEF TypeOK, Job
<1>3. {"waiting"} # {"success"}
  OBVIOUS
<1>4. NextLabel(n) = label[n]
  BY <1>1, <1>3 DEF NextLabel, LabelAfter, Succeeded
<1>5. Covered(n) /\ (faults = 0 => Exact(n))
  BY DEF StopInv, Undisturbed
<1>6. j.op # "deploy" => j.label = label[n]
  BY <1>1, <1>2 DEF StopInv, Owned
<1>7. QED
  BY <1>2, <1>4, <1>5, <1>6 DEF Covered, Exact

(* An answer that is not damaged is parsed as it was meant, and a failure  *)
(* is a disturbance.                                                       *)
LEMMA AnswerParsed ==
  ASSUME Undisputed, TypeOK, NEW j, NEW outcome, NEW failed \in BOOLEAN,
         Finish(j, outcome, failed)
  PROVE  /\ Reply(j, outcome) /\ jobs' = jobs \ {j}
         /\ UNCHANGED haVars /\ UNCHANGED label
         /\ faults' = 0 => faults = 0 /\ ~failed
<1>1. Parsed(outcome) = {outcome}
  BY DEF Parsed, Undisputed
<1>2. Reply(j, outcome) /\ Tally(failed)
  BY <1>1 DEF Finish
<1>3. faults \in Nat
  BY TaskAssumption DEF TypeOK, TaskAssumption
<1>4. faults' = 0 => faults = 0 /\ ~failed
  BY <1>2, <1>3 DEF Tally
<1>5. QED
  BY <1>2, <1>4 DEF Finish, haVars

(* What the platform makes of a job suits the label that n will have.      *)
Suits(n, j, outcome) ==
  LET l == LabelAfter([id |-> j.id, op |-> j.op, label |-> j.label, reply |-> outcome],
                      label[n])
  IN /\ l = None \/ running' \subseteq {l}
     /\ j.op \in {"undeploy", "reset"} /\ Succeeded(outcome) => running' = {}
     /\ faults' = 0 => running' = {l} \ {None}

LEMMA FinishStep ==
  ASSUME Undisputed, TypeOK, StopInv, NEW j \in jobs, NEW outcome \in Outcome,
         NEW failed \in BOOLEAN, Finish(j, outcome, failed),
         \A n \in Node : IsPrimary(n) => Suits(n, j, outcome)
  PROVE  StopInv'
BY AnswerParsed, ReplyStep DEF Suits

(* What the platform does.                                                 *)
LEMMA DeployStep ==
  ASSUME Undisputed, TypeOK, StopInv, NEW j \in jobs, Deploy(j)
  PROVE  StopInv'
<1>1. {"success"} \in Outcome /\ {"failure"} \in Outcome /\ {"failure"} # {"success"}
  BY DEF Outcome
<1>2. j.op = "deploy"
  BY DEF Deploy
<1>3. CASE running' = {j.label} /\ Finish(j, {"success"}, FALSE)
  <2>1. ASSUME NEW n \in Node, IsPrimary(n)
        PROVE  Suits(n, j, {"success"})
    <3>1. j.label # None
      BY <1>2, <2>1, LabelBefore
    <3>2. QED
      BY <1>2, <1>3, <3>1 DEF Suits, LabelAfter, Succeeded
  <2>2. QED
    BY <1>1, <1>3, <2>1, FinishStep
<1>4. CASE running' \in SUBSET running /\ Finish(j, {"failure"}, TRUE)
  <2>1. ASSUME NEW n \in Node, IsPrimary(n)
        PROVE  Suits(n, j, {"failure"})
    <3>1. label[n] = None \/ running' \subseteq {label[n]}
      BY <1>4, <2>1, LabelBefore
    <3>2. faults' # 0
      BY <1>4, AnswerParsed
    <3>3. QED
      BY <1>1, <1>2, <3>1, <3>2 DEF Suits, LabelAfter, Succeeded
  <2>2. QED
    BY <1>1, <1>4, <2>1, FinishStep
<1>5. QED
  BY <1>3, <1>4 DEF Deploy, Undisputed

LEMMA UndeployStep ==
  ASSUME Undisputed, TypeOK, StopInv, NEW j \in jobs, Undeploy(j)
  PROVE  StopInv'
<1>1. {{"success"}, {"failure"}, {"success", "failure"}} \subseteq Outcome
  BY DEF Outcome
<1>2. {"failure"} # {"success"} /\ {"success", "failure"} # {"success"}
  OBVIOUS
<1>3. j.op = "undeploy"
  BY DEF Undeploy
<1>4. ASSUME NEW n \in Node, IsPrimary(n)
      PROVE  /\ j.label = label[n] /\ j.label # None
             /\ running \subseteq {j.label}
             /\ faults = 0 => running = {j.label}
  BY <1>3, <1>4, LabelBefore
<1>5. CASE j.label \in running /\ running' = running \ {j.label}
             /\ Finish(j, {"success"}, FALSE)
  <2>1. ASSUME NEW n \in Node, IsPrimary(n)
        PROVE  Suits(n, j, {"success"})
    <3>1. running' = {}
      BY <1>4, <1>5, <2>1
    <3>2. QED
      BY <1>3, <3>1 DEF Suits, LabelAfter, Succeeded
  <2>2. QED
    BY <1>1, <1>5, <2>1, FinishStep
<1>6. CASE j.label \notin running /\ running' = running \ {j.label}
             /\ Finish(j, {"failure"}, FALSE)
  <2>1. ASSUME NEW n \in Node, IsPrimary(n)
        PROVE  Suits(n, j, {"failure"})
    <3>1. running' = {} /\ faults # 0
      BY <1>4, <1>6, <2>1
    <3>2. faults' # 0
      BY <1>6, <3>1, AnswerParsed
    <3>3. QED
      BY <1>2, <1>3, <3>1, <3>2 DEF Suits, LabelAfter, Succeeded
  <2>2. QED
    BY <1>1, <1>6, <2>1, FinishStep
<1>7. ASSUME NEW outcome \in {{"failure"}, {"success", "failure"}},
             UNCHANGED running, Finish(j, outcome, TRUE)
      PROVE  StopInv'
  <2>1. ASSUME NEW n \in Node, IsPrimary(n)
        PROVE  Suits(n, j, outcome)
    <3>1. running' \subseteq {label[n]}
      BY <1>4, <1>7, <2>1
    <3>2. faults' # 0
      BY <1>7, AnswerParsed
    <3>3. QED
      BY <1>2, <1>3, <1>7, <3>1, <3>2 DEF Suits, LabelAfter, Succeeded
  <2>2. QED
    BY <1>1, <1>7, <2>1, FinishStep
<1>8. QED
  BY <1>5, <1>6, <1>7 DEF Undeploy

LEMMA ResetStep ==
  ASSUME Undisputed, TypeOK, StopInv, NEW j \in jobs, Reset(j)
  PROVE  StopInv'
<1>1. {"success"} \in Outcome /\ {} \in Outcome /\ {} # {"success"}
  BY DEF Outcome
<1>2. j.op = "reset"
  BY DEF Reset
<1>3. ASSUME NEW n \in Node, IsPrimary(n)
      PROVE  label[n] = None
  BY <1>2, <1>3, LabelBefore
<1>4. CASE running' = {} /\ Finish(j, {"success"}, FALSE)
  <2>1. ASSUME NEW n \in Node, IsPrimary(n)
        PROVE  Suits(n, j, {"success"})
    BY <1>2, <1>3, <1>4, <2>1 DEF Suits, LabelAfter
  <2>2. QED
    BY <1>1, <1>4, <2>1, FinishStep
<1>5. CASE Finish(j, {}, TRUE)
  <2>1. faults' # 0
    BY <1>5, AnswerParsed
  <2>2. ASSUME NEW n \in Node, IsPrimary(n)
        PROVE  Suits(n, j, {})
    BY <1>1, <1>2, <1>3, <2>1, <2>2 DEF Suits, LabelAfter, Succeeded
  <2>3. QED
    BY <1>1, <1>5, <2>2, FinishStep
<1>6. QED
  BY <1>4, <1>5 DEF Reset

LEMMA RefuseStep ==
  ASSUME Undisputed, TypeOK, StopInv, NEW j \in jobs, Refuse(j)
  PROVE  StopInv'
<1>1. {} \in Outcome /\ {} # {"success"}
  BY DEF Outcome
<1>2. /\ jobs' = jobs \ {j} /\ Reply(j, {})
      /\ UNCHANGED <<haVars, label, running, faults>>
  BY DEF Refuse
<1>3. \A n \in Node : IsPrimary(n) =>
        LabelAfter([id |-> j.id, op |-> j.op, label |-> j.label,
                    reply |-> {}], label[n]) = label[n]
  BY <1>1 DEF LabelAfter, Succeeded
<1>4. ~Succeeded({})
  BY <1>1 DEF Succeeded
<1>5. QED
  BY <1>1, <1>2, <1>3, <1>4, LabelBefore, ReplyStep

-----------------------------------------------------------------------------
(* A node that joins, decides or takes over was not Primary, and finds     *)
(* nobody Primary and nothing to do if it becomes Primary.                 *)
LEMMA RoleStep ==
  ASSUME Undisputed, TypeOK, StopInv, NEW n \in Node, RoleChange(n)
  PROVE  StopInv'
<1>1. /\ label' = label /\ call' = call /\ jobs' = jobs
      /\ running' = running /\ faults' = faults
  BY DEF RoleChange, platformVars
<1>2. \A d \in Node : d # n => (IsPrimary(d)' <=> IsPrimary(d))
  BY DEF RoleChange, HA!Join, HA!Decide, HA!TakeOver, HA!Yield, HA!Become, TypeOK,
         HA!TypeOK, IsPrimary
<1>3. ~IsPrimary(n)
  <2>1. "handover" \notin Disturbances
    BY DEF Undisputed
  <2>2. CASE HA!Join(n) \/ HA!Decide(n) \/ HA!TakeOver(n)
    BY <2>2 DEF HA!Join, HA!Decide, HA!TakeOver, HA!Become, IsPrimary
  <2>3. CASE HA!Yield(n)
    <3>1. ~IsPrimary(n)'
      BY <2>3 DEF HA!Yield, HA!Become, TypeOK, HA!TypeOK, IsPrimary
    <3>2. QED
      BY <2>1, <3>1 DEF RoleChange
  <2>4. QED
    BY <2>2, <2>3 DEF RoleChange
<1>4. CASE ~IsPrimary(n)'
  <2>1. \A d \in Node : IsPrimary(d)' <=> IsPrimary(d)
    BY <1>2, <1>3, <1>4
  <2>2. \A d \in Node : Owned(d)'
    BY <1>1, <2>1 DEF StopInv, Owned
  <2>3. \A d \in Node : IsPrimary(d) => Covered(d)' /\ Stopped(d)'
    BY <1>1 DEF StopInv, Covered, Stopped, NextLabel, LabelAfter, Succeeded
  <2>4. Undisturbed'
    BY <1>1, <2>1
      DEF StopInv, Undisturbed, Exact, NextLabel, LabelAfter, Succeeded
  <2>5. QED
    BY <2>1, <2>2, <2>3, <2>4 DEF StopInv
<1>5. CASE IsPrimary(n)'
  <2>1. HA!Primaries \subseteq {n} /\ jobs = {}
    BY <1>5 DEF RoleChange, Calm, Undisputed
  <2>2. \A d \in Node : ~IsPrimary(d)
    BY <1>3, <2>1 DEF HA!Primaries, IsPrimary
  <2>3. \A d \in Node : IsPrimary(d)' <=> d = n
    BY <1>2, <1>5, <2>2
  <2>4. label[n] = None /\ call[n] = Idle
    BY <2>2 DEF StopInv, Owned
  <2>5. {"waiting"} # {"success"}
    OBVIOUS
  <2>6. NextLabel(n)' = None
    BY <1>1, <2>4, <2>5 DEF NextLabel, LabelAfter, Succeeded, Idle
  <2>7. \A d \in Node : Owned(d)'
    BY <1>1, <2>1, <2>2, <2>3 DEF StopInv, Owned
  <2>8. Covered(n)' /\ Stopped(n)'
    BY <1>1, <2>4, <2>5, <2>6 DEF Covered, Stopped, Succeeded, Idle
  <2>9. faults = 0 => running = {}
    BY <2>2 DEF StopInv, Undisturbed
  <2>10. Undisturbed'
    BY <1>1, <2>3, <2>6, <2>9 DEF Undisturbed, Exact
  <2>11. QED
    BY <2>3, <2>7, <2>8, <2>10 DEF StopInv
<1>6. QED
  BY <1>4, <1>5

(* A node that leaves takes its label and its call along.                  *)
LEMMA LeaveStep ==
  ASSUME TypeOK, StopInv, NEW n \in Node, Leave(n)
  PROVE  StopInv'
<1>1. /\ label'[n] = None /\ call'[n] = Idle
      /\ \A d \in Node : d # n => label'[d] = label[d] /\ call'[d] = call[d]
      /\ jobs' = jobs /\ running' = running
  BY DEF Leave, platformVars, TypeOK
<1>2. /\ ~IsPrimary(n)'
      /\ \A d \in Node : d # n => (IsPrimary(d)' <=> IsPrimary(d))
  BY DEF Leave, HA!Leave, HA!Become, TypeOK, HA!TypeOK, IsPrimary
<1>3. faults' # 0
  <2>1. faults \in Nat
    BY TaskAssumption DEF TypeOK, TaskAssumption
  <2>2. faults' = faults + 1
    BY DEF Leave
  <2>3. QED
    BY <2>1, <2>2
<1>4. ASSUME NEW d \in Node PROVE Owned(d)'
  <2>1. CASE d = n
    <3>1. call'[d] = Idle /\ call'[d].op = "none" /\ label'[d] = None /\ ~IsPrimary(d)'
      BY <1>1, <1>2, <2>1 DEF Idle
    <3>2. QED
      BY <3>1 DEF Owned
  <2>2. CASE d # n
    <3>1. Owned(d)
      BY DEF StopInv
    <3>2. /\ label'[d] = label[d] /\ call'[d] = call[d] /\ jobs' = jobs
          /\ IsPrimary(d)' <=> IsPrimary(d)
          /\ \A m \in Node : IsPrimary(m)' => IsPrimary(m)
      BY <1>1, <1>2, <2>2
    <3>3. QED
      BY <3>1, <3>2 DEF Owned
  <2>3. QED
    BY <2>1, <2>2
<1>5. ASSUME NEW d \in Node, IsPrimary(d)'
      PROVE  Covered(d)' /\ Stopped(d)'
  <2>1. d # n /\ IsPrimary(d)
    BY <1>2, <1>5
  <2>2. label'[d] = label[d] /\ call'[d] = call[d]
    BY <1>1, <2>1
  <2>3. QED
    BY <1>1, <2>1, <2>2 DEF StopInv, Covered, Stopped, NextLabel
<1>6. QED
  BY <1>3, <1>4, <1>5 DEF StopInv, Undisturbed

(* The console can only stop tasks, as a disturbance.                      *)
LEMMA ConsoleStep ==
  ASSUME Undisputed, TypeOK, StopInv, Console
  PROVE  StopInv'
<1>1. \A ls : ~CliDeploy(ls)
  BY DEF CliDeploy, CliActs, Undisputed
<1>2. running' \subseteq running /\ CliActs("cliStop")
  BY <1>1 DEF Console, CliUndeploy, CliReset
<1>3. faults' # 0
  BY <1>2, TaskAssumption DEF CliActs, TypeOK, TaskAssumption
<1>4. QED
  BY <1>2, <1>3, QuietStep DEF CliActs, haVars

LEMMA StopInvariant == Undisputed => (Spec => []StopInv)
<1> SUFFICES ASSUME Undisputed
             PROVE  Spec => []StopInv
  OBVIOUS
<1>1. Init => StopInv
  BY DEF Init, HA!Init, StopInv, Owned, IsPrimary, Undisturbed, Idle
<1>2. TypeOK /\ StopInv /\ [Next]_vars => StopInv'
  <2> SUFFICES ASSUME TypeOK, StopInv, [Next]_vars
               PROVE  StopInv'
    OBVIOUS
  <2>1. ASSUME NEW r \in Request, SendRequest(r)
        PROVE  StopInv'
    BY <2>1, QuietStep DEF SendRequest, haVars, platformVars
  <2>2. CASE Forget
    BY <2>2, QuietStep DEF Forget, HA!Forget, platformVars
  <2>3. CASE UNCHANGED vars
    BY <2>3, QuietStep DEF vars, haVars, platformVars
  <2>4. QED
    BY <2>1, <2>2, <2>3, ListenStep, DeployStep, UndeployStep, ResetStep,
       RefuseStep, RoleStep, LeaveStep, ConsoleStep
      DEF Next, Platform
<1>3. QED
  BY <1>1, <1>2, TypeCorrect, PTL DEF Spec

-----------------------------------------------------------------------------
(* An idle Primary knows the task that runs, or would reset all stacks.    *)
THEOREM StopAlwaysReaches == Undisputed => (Spec => []StopReaches)
<1> SUFFICES ASSUME Undisputed
             PROVE  Spec => []StopReaches
  OBVIOUS
<1>1. StopInv => StopReaches
  <2>1. {"waiting"} # {"success"}
    OBVIOUS
  <2>2. QED
    BY <2>1 DEF StopInv, StopReaches, Covered, NextLabel, LabelAfter, Succeeded, Idle
<1>2. QED
  BY <1>1, StopInvariant, PTL

(* A stop that is answered with success leaves nothing running, whichever  *)
(* stops and deployments have failed before.                               *)
THEOREM StopAlwaysStops == Undisputed => (Spec => StopStops)
<1> SUFFICES ASSUME Undisputed
             PROVE  Spec => StopStops
  OBVIOUS
<1> DEFINE Stops == \A n \in Node :
             Answer(n) /\ call[n].op \in {"undeploy", "reset"} /\ Succeeded(call[n].reply)
               => running = {}
<1>1. StopInv => Stops
  BY DEF StopInv, Owned, Stopped, Answer, Idle
<1>2. QED
  BY <1>1, StopInvariant, PTL DEF StopStops

(* Before the first disturbance a query that finds its task tells what     *)
(* runs.                                                                   *)
THEOREM QueryAlwaysTruthful == Undisputed => (Spec => QueryTruthful)
<1> SUFFICES ASSUME Undisputed
             PROVE  Spec => QueryTruthful
  OBVIOUS
<1> DEFINE Truthful ==
             \A n \in Node : \A r \in inbox[n] : \A answer \in QueryAnswers(n) :
               faults = 0 /\ Query(n, r, answer) /\ answer.found
                 => running = {answer.mode} \ {None}
<1>1. StopInv => Truthful
  <2>1. {"waiting"} # {"success"}
    OBVIOUS
  <2>2. QED
    BY <2>1 DEF StopInv, Undisturbed, Exact, NextLabel, LabelAfter, Succeeded, Idle,
                Query, QueryAnswers, Takes
<1>2. QED
  BY <1>1, StopInvariant, PTL DEF QueryTruthful
=============================================================================
