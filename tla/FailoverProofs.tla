--------------------------- MODULE FailoverProofs ----------------------------
(* Theorems about handovers: they leave no gap, and without a fault there  *)
(* are none that are not called for.  For any cluster and any intervals.   *)
EXTENDS HeartbeatProofs

-----------------------------------------------------------------------------
(* ShouldYieldToOtherPrimary orders the nodes.                             *)
LEMMA SuperiorIrreflexive ==
  ASSUME NEW n \in Node
  PROVE  ~Superior(n, n)
BY HeartbeatAssumption DEF HeartbeatAssumption, Superior

LEMMA SuperiorTransitive ==
  ASSUME NEW p \in Node, NEW q \in Node, NEW r \in Node,
         Superior(p, q), Superior(q, r)
  PROVE  Superior(p, r)
<1>1. /\ Priority[p] \in Int /\ Priority[q] \in Int /\ Priority[r] \in Int
      /\ Ip[p] \in Nat /\ Ip[q] \in Nat /\ Ip[r] \in Nat
  BY HeartbeatAssumption DEF HeartbeatAssumption
<1>2. QED
  BY <1>1 DEF Superior

NoWorse(p, q) == p = q \/ Superior(p, q)

(* For whoever a node is good enough, one that makes it yield is better.   *)
LEMMA NoWorseSuperior ==
  ASSUME NEW p \in Node, NEW q \in Node, NEW r \in Node, NEW s \in Node,
         NoWorse(p, q), Superior(q, r), NoWorse(r, s)
  PROVE  p # r /\ NoWorse(p, s)
<1>1. Superior(p, r)
  BY SuperiorTransitive DEF NoWorse
<1>2. QED
  BY <1>1, SuperiorTransitive, SuperiorIrreflexive DEF NoWorse

-----------------------------------------------------------------------------
(* While no node has crashed or been stopped, the receive thread of a node *)
(* runs exactly from the end of Start on, and before that the node has not *)
(* heard anyone and is not Primary.                                        *)
Alive(n) ==
  /\ main[n] = "up" => rx[n] \in {"wait", "check"}
  /\ main[n] # "up" => lastHb[n] = Never /\ role[n] # "Primary"

AliveInv == \A n \in Node : Alive(n)

(* Who claims to be Primary has a heartbeat thread.                        *)
ClaimInv ==
  \A d \in Node, m \in Message :
    inbox[d][m] > 0 /\ ClaimsPrimary(m) => hb[m.from] # "none"

LEMMA StillAlive ==
  ASSUME TypeOK, Next, NoneHasDied'
  PROVE  /\ NoneHasDied
         /\ \A n \in Node : ~Stop(n) /\ ~Crash(n)
         /\ faults' = 0 => faults = 0
<1> USE DEF mainVars, hbVars, envVars
<1>1. faults \in Nat /\ (faults' = faults \/ faults' = faults + 1)
  BY HeartbeatAssumption
     DEF HeartbeatAssumption, TypeOK, Next, MainStep, Decide, ThreadsStart,
         JoinHeartbeat, JoinReceiver, HbStep, HeartbeatDue, HeartbeatSkip,
         HeartbeatEnd, SendHeartbeat, RxStep, ReceiveHeartbeat, ReceiveElection,
         ReceiveDeclaration, ReceiveForeign, TakeOver, ReceiverEnds, Operator,
         Boot, StartAuto, StartForced, Stop, Environment, BootWithoutSocket,
         Crash, LinkFails, LinkHeals, ForeignDatagram, Tick
<1>2. faults' = 0 => faults = 0
  BY <1>1
<1>3. ASSUME NEW n \in Node, Stop(n) \/ Crash(n) PROVE FALSE
  <2>1. faults' = faults + 1 /\ Faults \cap {"crash", "stop"} # {}
    BY <1>3 DEF Stop, Crash
  <2>2. QED
    BY <1>1, <2>1 DEF NoneHasDied
<1>4. QED
  BY <1>2, <1>3 DEF NoneHasDied

LEMMA AliveElsewhere ==
  ASSUME AliveInv, NEW n \in Node, Alive(n)',
         \A d \in Node \ {n} :
           /\ main'[d] = main[d] /\ rx'[d] = rx[d]
           /\ lastHb'[d] = lastHb[d] /\ role'[d] = role[d]
  PROVE  AliveInv'
BY DEF AliveInv, Alive

LEMMA AliveStep ==
  ASSUME TypeOK, ThreadInv, AliveInv, Next, \A n \in Node : ~Stop(n)
  PROVE  AliveInv'
<1> USE DEF mainVars, hbVars, envVars
<1>1. ASSUME NEW n \in Node, MainStep(n)
      PROVE  AliveInv'
  <2>1. Decide(n)
    BY <1>1 DEF MainStep, JoinHeartbeat, JoinReceiver, ThreadInv, Threads
  <2>2. Alive(n)'
    BY <2>1 DEF Decide, ThreadsStart, TypeOK, Alive
  <2>3. QED
    BY <2>1, <2>2, AliveElsewhere DEF Decide, ThreadsStart, TypeOK
<1>2. ASSUME NEW n \in Node, HbStep(n)
      PROVE  AliveInv'
  BY <1>2 DEF HbStep, HeartbeatDue, HeartbeatSkip, HeartbeatEnd, SendHeartbeat,
              AliveInv, Alive
<1>3. ASSUME NEW n \in Node, RxStep(n)
      PROVE  AliveInv'
  <2>1. main[n] = "up" /\ main' = main /\ Running(n)
    BY <1>3 DEF RxStep, ReceiveHeartbeat, ReceiveElection, ReceiveDeclaration,
                ReceiveForeign, Reads, TakeOver, ReceiverEnds, ThreadInv, Threads,
                Running
  <2>2. rx'[n] \in {"wait", "check"}
    BY <1>3, <2>1 DEF RxStep, ReceiveHeartbeat, ReceiveElection, ReceiveDeclaration,
                ReceiveForeign, GoOn, TakeOver, ReceiverEnds, LoopTop, TypeOK
  <2>3. \A d \in Node \ {n} :
          rx'[d] = rx[d] /\ lastHb'[d] = lastHb[d] /\ role'[d] = role[d]
    BY <1>3 DEF RxStep, ReceiveHeartbeat, ReceiveElection, ReceiveDeclaration,
                ReceiveForeign, YieldOrStay, GoOn, TakeOver, ReceiverEnds, TypeOK
  <2>4. QED
    BY <2>1, <2>2, <2>3, AliveElsewhere DEF Alive
<1>4. ASSUME NEW n \in Node, Operator(n)
      PROVE  AliveInv'
  <2>1. Alive(n)'
    BY <1>4 DEF Operator, Boot, StartAuto, StartForced, ThreadsStart, TypeOK,
                AliveInv, Alive
  <2>2. QED
    BY <1>4, <2>1, AliveElsewhere
       DEF Operator, Boot, StartAuto, StartForced, ThreadsStart, TypeOK
<1>5. ASSUME NEW n \in Node, Environment(n)
      PROVE  AliveInv'
  <2>1. Alive(n)'
    BY <1>5 DEF Environment, BootWithoutSocket, Crash, LinkFails, LinkHeals,
                ForeignDatagram, TypeOK, AliveInv, Alive
  <2>2. QED
    BY <1>5, <2>1, AliveElsewhere
       DEF Environment, BootWithoutSocket, Crash, LinkFails, LinkHeals,
           ForeignDatagram, TypeOK
<1>6. CASE Tick
  <2>1. \A n \in Node : lastHb[n] = Never => lastHb'[n] = Never
    BY <1>6, HeartbeatAssumption DEF Tick, Expired, Never, HeartbeatAssumption
  <2>2. QED
    BY <1>6, <2>1 DEF Tick, AliveInv, Alive
<1>7. QED
  BY <1>1, <1>2, <1>3, <1>4, <1>5, <1>6 DEF Next

(* While Stop is not called, whoever waits in Start wins: the datagrams it *)
(* waits for are read by a thread that does not exist yet, so no answer    *)
(* and no heartbeat can make it a Standby, however many Primaries there    *)
(* are.  LateStarterStandsBy fails for this reason, not by bad luck.       *)
THEOREM ElectionIsAlwaysWon ==
  "stop" \notin Faults =>
    (Spec => [][\A n \in Node :
                  main[n] = "electing" /\ main'[n] = "up" => role'[n] = "Primary"]_vars)
<1> SUFFICES ASSUME "stop" \notin Faults
             PROVE  Spec => [][\A n \in Node :
                      main[n] = "electing" /\ main'[n] = "up" => role'[n] = "Primary"]_vars
  OBVIOUS
<1>1. Init => ThreadInv /\ AliveInv
  BY DEF Init, ThreadInv, Threads, AliveInv, Alive
<1>2. TypeOK /\ ThreadInv /\ AliveInv /\ [Next]_vars => ThreadInv' /\ AliveInv'
  <2>1. TypeOK /\ ThreadInv /\ AliveInv /\ Next => ThreadInv' /\ AliveInv'
    BY ThreadStep, AliveStep DEF Stop
  <2>2. ThreadInv /\ AliveInv /\ UNCHANGED vars => ThreadInv' /\ AliveInv'
    BY DEF vars, ThreadInv, Threads, AliveInv, Alive
  <2>3. QED
    BY <2>1, <2>2
<1>3. TypeOK /\ AliveInv /\ [Next]_vars
        => [\A n \in Node :
              main[n] = "electing" /\ main'[n] = "up" => role'[n] = "Primary"]_vars
  <2>1. SUFFICES ASSUME TypeOK, AliveInv, Next, NEW n \in Node,
                        main[n] = "electing", main'[n] = "up"
                 PROVE  role'[n] = "Primary"
    BY DEF vars
  <2>2. Decide(n)
    BY <2>1 DEF Next, MainStep, Decide, ThreadsStart, JoinHeartbeat, JoinReceiver,
         HbStep, HeartbeatDue, HeartbeatSkip, HeartbeatEnd, SendHeartbeat, RxStep,
         ReceiveHeartbeat, ReceiveElection, ReceiveDeclaration, ReceiveForeign,
         TakeOver, ReceiverEnds, Operator, Boot, StartAuto, StartForced, Stop,
         Environment, BootWithoutSocket, Crash, LinkFails, LinkHeals,
         ForeignDatagram, Tick, TypeOK, mainVars, hbVars, envVars
  <2>3. Elected(n) = "Primary"
    BY <2>1 DEF Elected, AliveInv, Alive
  <2>4. QED
    BY <2>1, <2>2, <2>3 DEF Decide, ThreadsStart, TypeOK
<1>4. QED
  BY <1>1, <1>2, <1>3, TypeCorrect, PTL DEF Spec

-----------------------------------------------------------------------------
(* What is left of Next when no node is stopped or crashes: nobody joins a *)
(* thread and no thread ends.                                              *)
Receives(n, m) ==
  \/ ReceiveHeartbeat(n, m)
  \/ ReceiveElection(n, m)
  \/ ReceiveDeclaration(n, m)
  \/ ReceiveForeign(n, m)

Step(n) ==
  \/ Decide(n)
  \/ HeartbeatDue(n) \/ HeartbeatSkip(n) \/ SendHeartbeat(n)
  \/ \E m \in Message : Receives(n, m)
  \/ TakeOver(n)
  \/ Boot(n) \/ StartAuto(n)
  \/ \E r \in ForcedRoles : StartForced(n, r)
  \/ BootWithoutSocket(n) \/ LinkFails(n) \/ LinkHeals(n) \/ ForeignDatagram(n)

NextLeft == (\E n \in Node : Step(n)) \/ Tick

LEMMA StepsLeft ==
  ASSUME ThreadInv, Next, \A n \in Node : ~Stop(n) /\ ~Crash(n)
  PROVE  NextLeft
<1>1. ASSUME NEW n \in Node
      PROVE  /\ ~JoinHeartbeat(n) /\ ~JoinReceiver(n)
             /\ ~HeartbeatEnd(n) /\ ~ReceiverEnds(n)
  BY DEF JoinHeartbeat, JoinReceiver, HeartbeatEnd, HeartbeatAwake, ReceiverEnds,
         Running, ThreadInv, Threads
<1>2. QED
  BY <1>1 DEF Next, MainStep, HbStep, RxStep, Operator, Environment, NextLeft, Step,
              Receives

(* Heartbeat threads are never lost, and one appears only with a Primary,  *)
(* awake at once.                                                          *)
LEMMA HbStays ==
  ASSUME TypeOK, ThreadInv, AliveInv, NEW n \in Node, Step(n) \/ Tick,
         NEW q \in Node
  PROVE  /\ hb[q] # "none" => hb'[q] # "none"
         /\ hb[q] = "none" /\ hb'[q] # "none" => role'[q] = "Primary" /\ hbWait'[q] = 0
<1> USE DEF mainVars, hbVars, envVars, TypeOK
<1>1. ASSUME NEW m \in Message, Receives(n, m)
      PROVE  hb' = hb
  BY <1>1 DEF Receives, ReceiveHeartbeat, ReceiveElection, ReceiveDeclaration, ReceiveForeign
<1>2. CASE Decide(n)
  BY <1>2 DEF Decide, ThreadsStart, SpawnHb
<1>3. ASSUME NEW r \in ForcedRoles, StartForced(n, r)
      PROVE  /\ hb[q] # "none" => hb'[q] # "none"
             /\ hb[q] = "none" /\ hb'[q] # "none"
                  => role'[q] = "Primary" /\ hbWait'[q] = 0
  BY <1>3 DEF StartForced, ThreadsStart, SpawnHb
<1>4. CASE TakeOver(n)
  BY <1>4 DEF TakeOver, SpawnHb
<1>5. CASE HeartbeatDue(n) \/ HeartbeatSkip(n) \/ SendHeartbeat(n)
  BY <1>5 DEF HeartbeatDue, HeartbeatSkip, SendHeartbeat, HeartbeatAwake
<1>6. CASE \/ Boot(n) \/ StartAuto(n) \/ BootWithoutSocket(n) \/ LinkFails(n)
           \/ LinkHeals(n) \/ ForeignDatagram(n) \/ Tick
  BY <1>6 DEF Boot, StartAuto, BootWithoutSocket, LinkFails, LinkHeals,
              ForeignDatagram, Tick
<1>7. QED
  BY <1>1, <1>2, <1>3, <1>4, <1>5, <1>6 DEF Step

(* A claim that waits after a step waited before, or its sender has a      *)
(* heartbeat thread.                                                       *)
LEMMA ClaimSent ==
  ASSUME TypeOK, ThreadInv, AliveInv, NEW n \in Node, Step(n),
         NEW d \in Node, NEW m \in Message, inbox'[d][m] > 0, ClaimsPrimary(m)
  PROVE  inbox[d][m] > 0 \/ (m.from = n /\ hb'[n] # "none")
<1> USE DEF mainVars, hbVars, envVars
<1>0. inbox \in Inboxes
  BY DEF TypeOK, Inboxes
<1>1. ASSUME NEW t \in Message, Receives(n, t)
      PROVE  inbox[d][m] > 0 \/ (m.from = n /\ hb'[n] # "none")
  <2>1. inbox[n][t] > 0 /\ rx[n] = "wait" /\ hb' = hb
    BY <1>1 DEF Receives, Reads, ReceiveHeartbeat, ReceiveElection,
                ReceiveDeclaration, ReceiveForeign
  <2>2. Taken(n, t) \in Inboxes
    BY <1>0, <2>1, TakenType
  <2>3. \/ inbox' = Taken(n, t)
        \/ inbox' = Sent(Taken(n, t), n, Declaration(n, "Standby"))
        \/ /\ inbox' = Sent(Taken(n, t), n, Declaration(n, "Primary"))
           /\ role[n] = "Primary"
    BY <1>1 DEF Receives, ReceiveHeartbeat, ReceiveElection,
                ReceiveDeclaration, ReceiveForeign, YieldOrStay
  <2>4. CASE inbox' = Taken(n, t)
    BY <1>0, <2>1, <2>4, TakenOnly
  <2>5. CASE inbox' = Sent(Taken(n, t), n, Declaration(n, "Standby"))
    <3>1. m # Declaration(n, "Standby")
      BY DEF ClaimsPrimary, Declaration
    <3>2. Taken(n, t)[d][m] > 0
      BY <2>2, <2>5, <3>1, SentOnly, SentMessages
    <3>3. QED
      BY <1>0, <2>1, <3>2, TakenOnly
  <2>6. CASE /\ inbox' = Sent(Taken(n, t), n, Declaration(n, "Primary"))
             /\ role[n] = "Primary"
    <3>1. hb'[n] # "none"
      BY <2>1, <2>6 DEF ThreadInv, Threads
    <3>2. Taken(n, t)[d][m] > 0 \/ m = Declaration(n, "Primary")
      BY <2>2, <2>6, SentOnly, SentMessages
    <3>3. QED
      BY <1>0, <2>1, <3>1, <3>2, TakenOnly DEF Declaration
  <2>7. QED
    BY <2>3, <2>4, <2>5, <2>6
<1>2. CASE Decide(n)
  <2>1. Elected(n) \in {"Primary", "Standby"}
    BY DEF Elected
  <2>2. inbox[d][m] > 0 \/ m = Declaration(n, Elected(n))
    BY <1>0, <1>2, <2>1, SentOnly, SentMessages DEF Decide
  <2>3. Elected(n) = "Primary" => hb'[n] # "none"
    BY <1>2, SpawnedHb DEF Decide, ThreadsStart, ThreadInv, Threads
  <2>4. QED
    BY <2>1, <2>2, <2>3 DEF ClaimsPrimary, Declaration
<1>3. CASE TakeOver(n)
  <2>1. inbox[d][m] > 0 \/ m = Declaration(n, "Primary")
    BY <1>0, <1>3, SentOnly, SentMessages DEF TakeOver
  <2>2. hb'[n] # "none"
    BY <1>3, SpawnedHb DEF TakeOver, ThreadInv, Threads
  <2>3. QED
    BY <2>1, <2>2 DEF Declaration
<1>4. CASE SendHeartbeat(n)
  <2>1. inbox[d][m] > 0 \/ m = Beat(n)
    BY <1>0, <1>4, SentOnly, SentMessages DEF SendHeartbeat
  <2>2. hb'[n] # "none"
    BY <1>4 DEF SendHeartbeat, TypeOK
  <2>3. QED
    BY <2>1, <2>2 DEF Beat
<1>5. CASE StartAuto(n) \/ ForeignDatagram(n)
  <2>1. inbox[d][m] > 0 \/ m = Election(n) \/ m = Foreign(n)
    BY <1>0, <1>5, SentOnly, SentMessages DEF StartAuto, ForeignDatagram
  <2>2. QED
    BY <2>1 DEF ClaimsPrimary, Election, Foreign
<1>6. CASE \/ HeartbeatDue(n) \/ HeartbeatSkip(n) \/ Boot(n) \/ BootWithoutSocket(n)
           \/ LinkFails(n) \/ LinkHeals(n) \/ \E r \in ForcedRoles : StartForced(n, r)
  BY <1>6 DEF HeartbeatDue, HeartbeatSkip, Boot, BootWithoutSocket, LinkFails,
              LinkHeals, StartForced
<1>7. QED
  BY <1>1, <1>2, <1>3, <1>4, <1>5, <1>6 DEF Step

LEMMA ClaimStep ==
  ASSUME TypeOK, ThreadInv, AliveInv, ClaimInv, NextLeft
  PROVE  ClaimInv'
<1>1. SUFFICES ASSUME NEW d \in Node, NEW m \in Message,
                      inbox'[d][m] > 0, ClaimsPrimary(m)
               PROVE  hb'[m.from] # "none"
  BY DEF ClaimInv
<1>2. CASE inbox[d][m] > 0
  BY <1>1, <1>2, HbStays, MessageSender DEF ClaimInv, NextLeft
<1>3. CASE inbox[d][m] = 0
  BY <1>1, <1>3, ClaimSent DEF NextLeft, Tick, envVars
<1>4. QED
  BY <1>2, <1>3 DEF TypeOK

(* A Primary that is one no longer has left the role to a node that has    *)
(* been one and outranks it, and nobody else changed its role.             *)
LEMMA RoleStep ==
  ASSUME TypeOK, ThreadInv, AliveInv, ClaimInv, NEW n \in Node, Step(n) \/ Tick,
         NEW p \in Node, role[p] = "Primary", role'[p] # "Primary"
  PROVE  \E q \in Node : /\ hb[q] # "none" /\ Superior(q, p)
                         /\ \A d \in Node \ {p} : role'[d] = role[d]
<1> USE DEF mainVars, hbVars, envVars
<1>1. ASSUME NEW m \in Message, Receives(n, m)
      PROVE  \E q \in Node : /\ hb[q] # "none" /\ Superior(q, p)
                             /\ \A d \in Node \ {p} : role'[d] = role[d]
  <2>1. /\ n = p /\ MustYield(n, m) /\ inbox[n][m] > 0
        /\ role' = [role EXCEPT ![n] = "Standby"]
    BY <1>1 DEF Receives, Reads, ReceiveHeartbeat, ReceiveElection,
                ReceiveDeclaration, ReceiveForeign, YieldOrStay, TypeOK
  <2>2. m.from \in Node /\ hb[m.from] # "none" /\ Superior(m.from, p)
    BY <2>1, MessageSender DEF MustYield, ClaimInv
  <2>3. \A d \in Node \ {p} : role'[d] = role[d]
    BY <2>1 DEF TypeOK
  <2>4. QED
    BY <2>2, <2>3
<1>2. CASE Decide(n) \/ StartAuto(n) \/ \E r \in ForcedRoles : StartForced(n, r)
  BY <1>2 DEF Decide, StartAuto, StartForced, ThreadsStart, AliveInv, Alive, TypeOK
<1>3. CASE TakeOver(n)
  BY <1>3 DEF TakeOver, TypeOK
<1>4. CASE \/ HeartbeatDue(n) \/ HeartbeatSkip(n) \/ SendHeartbeat(n) \/ Boot(n)
           \/ BootWithoutSocket(n) \/ LinkFails(n) \/ LinkHeals(n)
           \/ ForeignDatagram(n) \/ Tick
  BY <1>4 DEF HeartbeatDue, HeartbeatSkip, SendHeartbeat, Boot, BootWithoutSocket,
              LinkFails, LinkHeals, ForeignDatagram, Tick
<1>5. QED
  BY <1>1, <1>2, <1>3, <1>4 DEF Step

-----------------------------------------------------------------------------
(* Whoever has a heartbeat thread is covered by a Primary no worse.        *)
Covered(q) == \E p \in Node : role[p] = "Primary" /\ NoWorse(p, q)

CoverInv == \A q \in Node : hb[q] # "none" => Covered(q)

LEMMA CoverStep ==
  ASSUME TypeOK, ThreadInv, AliveInv, ClaimInv, CoverInv, NextLeft
  PROVE  CoverInv'
<1>1. SUFFICES ASSUME NEW q \in Node, hb'[q] # "none"
               PROVE  \E p \in Node : role'[p] = "Primary" /\ NoWorse(p, q)
  BY DEF CoverInv, Covered, NoWorse, Superior
<1>2. CASE hb[q] = "none"
  BY <1>1, <1>2, HbStays DEF NoWorse, NextLeft
<1>3. CASE hb[q] # "none"
  <2>1. PICK p \in Node : role[p] = "Primary" /\ NoWorse(p, q)
    BY <1>3 DEF CoverInv, Covered
  <2>2. CASE role'[p] = "Primary"
    BY <2>1, <2>2
  <2>3. CASE role'[p] # "Primary"
    <3>1. PICK r \in Node : /\ hb[r] # "none" /\ Superior(r, p)
                            /\ \A d \in Node \ {p} : role'[d] = role[d]
      BY <2>1, <2>3, RoleStep DEF NextLeft
    <3>2. PICK s \in Node : role[s] = "Primary" /\ NoWorse(s, r)
      BY <3>1 DEF CoverInv, Covered
    <3>3. s # p /\ NoWorse(s, q)
      BY <2>1, <3>1, <3>2, NoWorseSuperior
    <3>4. QED
      BY <3>1, <3>2, <3>3
  <2>4. QED
    BY <2>2, <2>3
<1>4. QED
  BY <1>2, <1>3

HandoverInv == NoneHasDied => ThreadInv /\ AliveInv /\ ClaimInv /\ CoverInv

(* No handover leaves a gap: until a node dies, every node that has been   *)
(* Primary is covered by a Primary that is no worse, whatever links fail   *)
(* and however stale the claims are that make nodes yield.                 *)
THEOREM ServiceAlwaysContinues == Spec => []ServiceContinues
<1>1. Init => HandoverInv
  BY DEF Init, HandoverInv, ThreadInv, Threads, AliveInv, Alive, ClaimInv,
         NoMessage, CoverInv
<1>2. TypeOK /\ HandoverInv /\ [Next]_vars => HandoverInv'
  <2>1. SUFFICES ASSUME TypeOK, HandoverInv, [Next]_vars, NoneHasDied'
                 PROVE  (ThreadInv /\ AliveInv /\ ClaimInv /\ CoverInv)'
    BY DEF HandoverInv
  <2>2. CASE Next
    <3>1. NoneHasDied /\ \A n \in Node : ~Stop(n) /\ ~Crash(n)
      BY <2>1, <2>2, StillAlive
    <3>2. ThreadInv /\ AliveInv /\ ClaimInv /\ CoverInv
      BY <2>1, <3>1 DEF HandoverInv
    <3>3. ThreadInv' /\ AliveInv'
      BY <2>1, <2>2, <3>1, <3>2, ThreadStep, AliveStep
    <3>4. NextLeft
      BY <2>2, <3>1, <3>2, StepsLeft
    <3>5. ClaimInv' /\ CoverInv'
      BY <2>1, <3>2, <3>4, ClaimStep, CoverStep
    <3>6. QED
      BY <3>3, <3>5
  <2>3. CASE UNCHANGED vars
    <3>1. NoneHasDied /\ UNCHANGED <<main, role, lastHb, hb, rx, inbox>>
      BY <2>1, <2>3 DEF vars, NoneHasDied
    <3>2. ThreadInv /\ AliveInv /\ ClaimInv /\ CoverInv
      BY <2>1, <3>1 DEF HandoverInv
    <3>3. ThreadInv' /\ AliveInv' /\ ClaimInv'
      BY <3>1, <3>2 DEF ThreadInv, Threads, AliveInv, Alive, ClaimInv
    <3>4. CoverInv'
      BY <3>1, <3>2 DEF CoverInv, Covered, NoWorse, Superior
    <3>5. QED
      BY <3>3, <3>4
  <2>4. QED
    BY <2>1, <2>2, <2>3
<1>3. HandoverInv => ServiceContinues
  BY DEF HandoverInv, CoverInv, Covered, NoWorse, ServiceContinues
<1>4. QED
  BY <1>1, <1>2, <1>3, TypeCorrect, PTL DEF Spec

-----------------------------------------------------------------------------
(* Timing.  p serves when it is Primary and every node that measures p's   *)
(* silence has its next heartbeat waiting or due before the age reaches    *)
(* the interval.                                                           *)
InTime(p) ==
  \A d \in Node : lastHb[d] # Never =>
    inbox[d][Beat(p)] > 0 \/ lastHb[d] + hbWait[p] <= HeartbeatInterval

Serves(p) == role[p] = "Primary" /\ InTime(p)

Served(q) == \E p \in Node : Serves(p) /\ NoWorse(p, q)

(* Whoever has a heartbeat thread is served, so that whoever has heard a   *)
(* heartbeat hears the next one within the interval.                       *)
TimingInv ==
  /\ \A n \in Node : link[n]
  /\ \A n \in Node : lastHb[n] # Never =>
       lastHb[n] <= HeartbeatInterval /\ \E q \in Node : hb[q] # "none"
  /\ \A q \in Node : hb[q] # "none" => Served(q)

LEMMA CalmStep ==
  ASSUME TypeOK, TimingInv, NEW n \in Node, Step(n), faults = 0, faults' = 0
  PROVE  \/ Decide(n)
         \/ HeartbeatDue(n) \/ HeartbeatSkip(n) \/ SendHeartbeat(n)
         \/ \E m \in Message : Receives(n, m)
         \/ TakeOver(n)
         \/ Boot(n) \/ StartAuto(n)
         \/ \E r \in ForcedRoles : StartForced(n, r)
BY DEF Step, TimingInv, BootWithoutSocket, LinkFails, LinkHeals, ForeignDatagram

(* Who serves goes on serving unless it yields, whatever another thread    *)
(* does.                                                                   *)
LEMMA InTimeStep ==
  ASSUME TypeOK, ThreadInv, AliveInv, TimingInv, NEW n \in Node, Step(n),
         faults = 0, faults' = 0, NEW p \in Node, Serves(p)
  PROVE  InTime(p)'
<1> USE DEF mainVars, hbVars, envVars
<1>0. inbox \in Inboxes /\ Beat(p) \in Message
  BY SentMessages DEF TypeOK, Inboxes
<1>1. SUFFICES ASSUME NEW d \in Node, lastHb'[d] # Never
               PROVE  \/ inbox'[d][Beat(p)] > 0
                      \/ lastHb'[d] + hbWait'[p] <= HeartbeatInterval
  BY DEF InTime, Beat
<1>2. lastHb[d] # Never => \/ inbox[d][Beat(p)] > 0
                           \/ lastHb[d] + hbWait[p] <= HeartbeatInterval
  BY DEF Serves, InTime
<1>3. ASSUME NEW m \in Message, Receives(n, m)
      PROVE  \/ inbox'[d][Beat(p)] > 0
             \/ lastHb'[d] + hbWait'[p] <= HeartbeatInterval
  <2>1. inbox[n][m] > 0 /\ hbWait' = hbWait
    BY <1>3 DEF Receives, Reads, ReceiveHeartbeat, ReceiveElection,
                ReceiveDeclaration, ReceiveForeign
  <2>2. CASE d = n /\ m = Beat(p)
    <3>1. ReceiveHeartbeat(n, m)
      BY <1>3, <2>2 DEF Receives, Reads, ReceiveElection, ReceiveDeclaration,
                        ReceiveForeign, Beat
    <3>2. lastHb'[d] = 0 /\ hbWait'[p] \in 0 .. HeartbeatInterval
      BY <2>1, <2>2, <3>1 DEF ReceiveHeartbeat, TypeOK
    <3>3. QED
      BY <3>2, HeartbeatAssumption DEF HeartbeatAssumption
  <2>3. CASE d # n \/ m # Beat(p)
    <3>1. Taken(n, m) \in Inboxes /\ Taken(n, m)[d][Beat(p)] = inbox[d][Beat(p)]
      BY <1>0, <2>1, <2>3, TakenType, TakenKeeps
    <3>2. \/ inbox' = Taken(n, m)
          \/ inbox' = Sent(Taken(n, m), n, Declaration(n, "Standby"))
          \/ inbox' = Sent(Taken(n, m), n, Declaration(n, "Primary"))
      BY <1>3 DEF Receives, ReceiveHeartbeat, ReceiveElection,
                  ReceiveDeclaration, ReceiveForeign, YieldOrStay
    <3>3. inbox[d][Beat(p)] > 0 => inbox'[d][Beat(p)] > 0
      BY <1>0, <3>1, <3>2, SentKeeps, SentMessages
    <3>4. lastHb'[d] = lastHb[d] \/ lastHb'[d] = 0
      BY <1>3 DEF Receives, ReceiveHeartbeat, ReceiveElection,
                  ReceiveDeclaration, ReceiveForeign, TypeOK
    <3>5. CASE lastHb'[d] = lastHb[d]
      BY <1>1, <1>2, <2>1, <3>3, <3>5
    <3>6. CASE lastHb'[d] = 0
      BY <2>1, <3>6, HeartbeatAssumption DEF HeartbeatAssumption, TypeOK
    <3>7. QED
      BY <3>4, <3>5, <3>6
  <2>4. QED
    BY <2>2, <2>3
<1>4. CASE SendHeartbeat(n)
  <2>1. lastHb' = lastHb /\ inbox' = Sent(inbox, n, Beat(n))
    BY <1>4 DEF SendHeartbeat
  <2>2. CASE n = p
    <3>1. Listening(d)
      BY <1>1, <2>1 DEF Listening, AliveInv, Alive
    <3>2. ActsOn(d, Beat(p)) /\ link[p]
      BY DEF ActsOn, Beat, TimingInv
    <3>3. QED
      BY <1>0, <2>1, <2>2, <3>1, <3>2, SentArrives
  <2>3. CASE n # p
    <3>1. hbWait'[p] = hbWait[p]
      BY <1>4, <2>3 DEF SendHeartbeat, TypeOK
    <3>2. inbox[d][Beat(p)] > 0 => inbox'[d][Beat(p)] > 0
      BY <1>0, <2>1, SentKeeps, SentMessages
    <3>3. QED
      BY <1>1, <1>2, <2>1, <3>1, <3>2
  <2>4. QED
    BY <2>2, <2>3
<1>5. CASE HeartbeatDue(n) \/ HeartbeatSkip(n) \/ Boot(n)
  <2>1. /\ lastHb' = lastHb /\ inbox' = inbox
        /\ hbWait'[p] = hbWait[p]
    BY <1>5 DEF HeartbeatDue, HeartbeatSkip, Boot, Serves, TypeOK
  <2>2. QED
    BY <1>1, <1>2, <2>1
<1>6. CASE \/ Decide(n) \/ StartAuto(n) \/ TakeOver(n)
           \/ \E r \in ForcedRoles : StartForced(n, r)
  <2>1. n # p
    BY <1>6 DEF Decide, StartAuto, TakeOver, StartForced, Serves, AliveInv, Alive
  <2>2. lastHb' = lastHb /\ hbWait'[p] = hbWait[p]
    BY <1>6, <2>1 DEF Decide, StartAuto, TakeOver, StartForced, ThreadsStart,
                      SpawnHb, TypeOK
  <2>3. \/ inbox' = inbox
        \/ inbox' = Sent(inbox, n, Declaration(n, "Standby"))
        \/ inbox' = Sent(inbox, n, Declaration(n, "Primary"))
        \/ inbox' = Sent(inbox, n, Election(n))
    BY <1>6 DEF Decide, Elected, StartAuto, TakeOver, StartForced
  <2>4. inbox[d][Beat(p)] > 0 => inbox'[d][Beat(p)] > 0
    BY <1>0, <2>3, SentKeeps, SentMessages
  <2>5. QED
    BY <1>1, <1>2, <2>2, <2>4
<1>7. QED
  BY <1>3, <1>4, <1>5, <1>6, CalmStep

(* An age starts with a heartbeat, and only Tick lets it grow.             *)
LEMMA AgeStep ==
  ASSUME TypeOK, ClaimInv, NEW n \in Node, Step(n),
         NEW d \in Node, lastHb'[d] # lastHb[d]
  PROVE  lastHb'[d] = 0 /\ \E q \in Node : hb[q] # "none"
<1> USE DEF mainVars, hbVars, envVars
<1>1. PICK m \in Message : ReceiveHeartbeat(n, m)
  BY DEF Step, Receives, Decide, HeartbeatDue, HeartbeatSkip, SendHeartbeat,
         ReceiveElection, ReceiveDeclaration, ReceiveForeign, TakeOver, Boot,
         StartAuto, StartForced, BootWithoutSocket, LinkFails, LinkHeals,
         ForeignDatagram
<1>2. m.from \in Node /\ ClaimsPrimary(m) /\ inbox[n][m] > 0
  BY <1>1, MessageSender
     DEF ReceiveHeartbeat, Reads, ClaimsPrimary, Message, Election, Beat,
         Declaration, Foreign
<1>3. hb[m.from] # "none"
  BY <1>2 DEF ClaimInv
<1>4. QED
  BY <1>1, <1>2, <1>3 DEF ReceiveHeartbeat, TypeOK

(* A node that becomes Primary for the first time sends its first          *)
(* heartbeat at once.                                                      *)
LEMMA FirstBeat ==
  ASSUME TypeOK, ThreadInv, AliveInv, ClaimInv, TimingInv, NEW n \in Node, Step(n),
         NEW q \in Node, hb[q] = "none", hb'[q] # "none"
  PROVE  Serves(q)'
<1>1. role'[q] = "Primary" /\ hbWait'[q] = 0
  BY HbStays
<1>2. ASSUME NEW d \in Node, lastHb'[d] # Never
      PROVE  lastHb'[d] + hbWait'[q] <= HeartbeatInterval
  <2>1. lastHb'[d] <= HeartbeatInterval
    BY <1>2, AgeStep, HeartbeatAssumption DEF HeartbeatAssumption, TimingInv
  <2>2. lastHb'[d] \in Int
    BY AgeStep DEF TypeOK
  <2>3. QED
    BY <1>1, <2>1, <2>2
<1>3. QED
  BY <1>1, <1>2 DEF Serves, InTime

LEMMA TimingStep ==
  ASSUME TypeOK, ThreadInv, AliveInv, ClaimInv, TimingInv, NEW n \in Node, Step(n),
         faults = 0, faults' = 0
  PROVE  TimingInv'
<1>1. \A d \in Node : link'[d]
  BY CalmStep DEF TimingInv, Decide, HeartbeatDue, HeartbeatSkip, SendHeartbeat,
         Receives, ReceiveHeartbeat, ReceiveElection, ReceiveDeclaration,
         ReceiveForeign, TakeOver, Boot, StartAuto, StartForced, envVars
<1>2. ASSUME NEW d \in Node, lastHb'[d] # Never
      PROVE  lastHb'[d] <= HeartbeatInterval /\ \E q \in Node : hb'[q] # "none"
  <2>1. lastHb'[d] <= HeartbeatInterval
    BY <1>2, AgeStep, HeartbeatAssumption DEF HeartbeatAssumption, TimingInv
  <2>2. PICK q \in Node : hb[q] # "none"
    BY <1>2, AgeStep DEF TimingInv
  <2>3. QED
    BY <2>1, <2>2, HbStays
<1>3. ASSUME NEW q \in Node, hb'[q] # "none"
      PROVE  \E p \in Node : Serves(p)' /\ NoWorse(p, q)
  <2>1. CASE hb[q] = "none"
    BY <1>3, <2>1, FirstBeat DEF NoWorse
  <2>2. CASE hb[q] # "none"
    <3>1. PICK p \in Node : Serves(p) /\ NoWorse(p, q)
      BY <2>2 DEF TimingInv, Served
    <3>2. CASE role'[p] = "Primary"
      <4>1. Serves(p)'
        BY <3>1, <3>2, InTimeStep DEF Serves
      <4>2. QED
        BY <3>1, <4>1
    <3>3. CASE role'[p] # "Primary"
      <4>1. PICK r \in Node : /\ hb[r] # "none" /\ Superior(r, p)
                              /\ \A d \in Node \ {p} : role'[d] = role[d]
        BY <3>1, <3>3, RoleStep DEF Serves
      <4>2. PICK s \in Node : Serves(s) /\ NoWorse(s, r)
        BY <4>1 DEF TimingInv, Served
      <4>3. s # p /\ NoWorse(s, q)
        BY <3>1, <4>1, <4>2, NoWorseSuperior
      <4>4. Serves(s)'
        BY <4>1, <4>2, <4>3, InTimeStep DEF Serves
      <4>5. QED
        BY <4>3, <4>4
    <3>4. QED
      BY <3>2, <3>3
  <2>3. QED
    BY <2>1, <2>2
<1>4. QED
  BY <1>1, <1>2, <1>3 DEF TimingInv, Served, NoWorse, Superior

(* A second passes only when every socket is empty, and then who serves    *)
(* still sleeps: the ages stay below the interval.                         *)
LEMMA TimingTick ==
  ASSUME TypeOK, ThreadInv, AliveInv, TimingInv, Timely, Tick
  PROVE  TimingInv'
<1> USE DEF envVars
<1>1. \A n \in Node : Settled(n)
  BY DEF Tick
<1>2. ASSUME NEW p \in Node, Serves(p), NEW d \in Node, lastHb[d] # Never
      PROVE  hbWait[p] >= 1 /\ lastHb[d] + hbWait[p] <= HeartbeatInterval
  <2>1. main[p] = "up" /\ hb[p] \in {"sleep", "send"}
    BY <1>2 DEF Serves, AliveInv, Alive, ThreadInv, Threads
  <2>2. hbWait[p] >= 1
    BY <1>1, <2>1 DEF Settled, HeartbeatAwake, TypeOK
  <2>3. rx[d] = "wait"
    BY <1>1, <1>2 DEF Settled, AliveInv, Alive
  <2>4. inbox[d][Beat(p)] = 0
    BY <1>1, <2>3, SentMessages DEF Settled, NoMessage
  <2>5. QED
    BY <1>2, <2>2, <2>4 DEF Serves, InTime
<1>3. ASSUME NEW d \in Node
      PROVE  /\ lastHb'[d] = Never => lastHb[d] = Never
             /\ lastHb[d] = Never => lastHb'[d] = Never
             /\ lastHb'[d] \in {lastHb[d], lastHb[d] + 1}
             /\ lastHb[d] \in Nat
  BY HeartbeatAssumption DEF Tick, TypeOK, HeartbeatAssumption, Expired, Never
<1>4. ASSUME NEW p \in Node, Serves(p)
      PROVE  Serves(p)'
  <2>1. ASSUME NEW d \in Node, lastHb'[d] # Never
        PROVE  lastHb'[d] + hbWait'[p] <= HeartbeatInterval
    <3>1. hbWait[p] >= 1 /\ lastHb[d] + hbWait[p] <= HeartbeatInterval
      BY <1>2, <1>3, <1>4, <2>1
    <3>2. hbWait'[p] = hbWait[p] - 1 /\ hbWait[p] \in Nat
      BY <3>1, HeartbeatAssumption DEF Tick, Minus1, TypeOK, HeartbeatAssumption
    <3>3. QED
      BY <1>3, <3>1, <3>2, HeartbeatAssumption DEF HeartbeatAssumption
  <2>2. role'[p] = "Primary"
    BY <1>4 DEF Serves, Tick
  <2>3. QED
    BY <2>1, <2>2 DEF Serves, InTime, Beat
<1>5. ASSUME NEW d \in Node, lastHb'[d] # Never
      PROVE  lastHb'[d] <= HeartbeatInterval /\ \E q \in Node : hb'[q] # "none"
  <2>1. lastHb[d] # Never
    BY <1>3, <1>5
  <2>2. PICK q \in Node : hb[q] # "none"
    BY <2>1 DEF TimingInv
  <2>3. PICK p \in Node : Serves(p)
    BY <2>2 DEF TimingInv, Served
  <2>4. hbWait[p] >= 1 /\ lastHb[d] + hbWait[p] <= HeartbeatInterval /\ hbWait[p] \in Nat
    BY <1>2, <2>1, <2>3, HeartbeatAssumption DEF TypeOK, HeartbeatAssumption
  <2>5. lastHb'[d] <= HeartbeatInterval
    BY <1>3, <2>4, HeartbeatAssumption DEF HeartbeatAssumption
  <2>6. QED
    BY <2>2, <2>5 DEF Tick
<1>6. ASSUME NEW q \in Node, hb'[q] # "none"
      PROVE  \E p \in Node : Serves(p)' /\ NoWorse(p, q)
  <2>1. hb[q] # "none"
    BY <1>6 DEF Tick
  <2>2. QED
    BY <1>4, <2>1 DEF TimingInv, Served
<1>7. \A n \in Node : link'[n]
  BY DEF Tick, TimingInv
<1>8. QED
  BY <1>5, <1>6, <1>7 DEF TimingInv, Served, NoWorse, Superior

CalmInv == faults = 0 => ThreadInv /\ AliveInv /\ ClaimInv /\ TimingInv

LEMMA CalmInvStep ==
  ASSUME TypeOK, CalmInv, Timely, [Next]_vars
  PROVE  CalmInv'
<1>1. SUFFICES ASSUME faults' = 0
               PROVE  ThreadInv' /\ AliveInv' /\ ClaimInv' /\ TimingInv'
  BY DEF CalmInv
<1>2. CASE Next
  <2>1. faults = 0 /\ \A n \in Node : ~Stop(n) /\ ~Crash(n)
    BY <1>1, <1>2, StillAlive DEF NoneHasDied
  <2>2. ThreadInv /\ AliveInv /\ ClaimInv /\ TimingInv
    BY <2>1 DEF CalmInv
  <2>3. ThreadInv' /\ AliveInv'
    BY <1>2, <2>1, <2>2, ThreadStep, AliveStep
  <2>4. NextLeft
    BY <1>2, <2>1, <2>2, StepsLeft
  <2>5. ClaimInv'
    BY <2>2, <2>4, ClaimStep
  <2>6. TimingInv'
    BY <1>1, <2>1, <2>2, <2>4, TimingStep, TimingTick DEF NextLeft
  <2>7. QED
    BY <2>3, <2>5, <2>6
<1>3. CASE UNCHANGED vars
  <2>1. UNCHANGED <<main, role, lastHb, hb, hbWait, rx, inbox, link>> /\ faults = 0
    BY <1>1, <1>3 DEF vars
  <2>2. ThreadInv /\ AliveInv /\ ClaimInv /\ TimingInv
    BY <2>1 DEF CalmInv
  <2>3. ThreadInv' /\ AliveInv' /\ ClaimInv'
    BY <2>1, <2>2 DEF ThreadInv, Threads, AliveInv, Alive, ClaimInv
  <2>4. TimingInv'
    BY <2>1, <2>2 DEF TimingInv, Served, Serves, InTime, NoWorse, Superior, Beat
  <2>5. QED
    BY <2>3, <2>4
<1>4. QED
  BY <1>2, <1>3

(* When the threads run within the second they are due and the interval    *)
(* does not exceed the timeout, a Standby that has heard a Primary takes   *)
(* over only after a fault, in any cluster.  With a longer interval TLC    *)
(* finds a false failover.                                                 *)
THEOREM NoFailoverIsFalse ==
  Timely /\ HeartbeatInterval <= TimeoutThreshold => (Spec => NoFalseFailover)
<1> SUFFICES ASSUME Timely, HeartbeatInterval <= TimeoutThreshold
             PROVE  Spec => NoFalseFailover
  OBVIOUS
<1>1. Init => CalmInv
  BY DEF Init, CalmInv, ThreadInv, Threads, AliveInv, Alive, ClaimInv, NoMessage,
         TimingInv
<1>2. TypeOK /\ CalmInv /\ [Next]_vars => CalmInv'
  BY CalmInvStep
<1>3. TypeOK /\ CalmInv /\ [Next]_vars
        => [\A n \in Node : faults' = 0 /\ role[n] = "Standby" /\ lastHb[n] # Never
              => role'[n] # "Primary"]_vars
  <2>1. SUFFICES ASSUME TypeOK, CalmInv, Next, NEW n \in Node,
                        faults' = 0, role[n] = "Standby", lastHb[n] # Never,
                        role'[n] = "Primary"
                 PROVE  FALSE
    BY DEF vars
  <2>2. faults = 0 /\ \A d \in Node : ~Stop(d) /\ ~Crash(d)
    BY <2>1, StillAlive DEF NoneHasDied
  <2>3. ThreadInv /\ AliveInv /\ TimingInv /\ NextLeft
    BY <2>1, <2>2, StepsLeft DEF CalmInv
  <2>4. ~Tick
    BY <2>1 DEF Tick
  <2>5. PICK d \in Node : Step(d)
    BY <2>3, <2>4 DEF NextLeft
  <2>6. d = n /\ (Decide(n) \/ TakeOver(n) \/ \E r \in ForcedRoles : StartForced(n, r))
    BY <2>1, <2>2, <2>3, <2>5, CalmStep
       DEF Decide, HeartbeatDue, HeartbeatSkip, SendHeartbeat, Receives,
           ReceiveHeartbeat, ReceiveElection, ReceiveDeclaration, ReceiveForeign,
           YieldOrStay, TakeOver, Boot, StartAuto, StartForced, ThreadsStart, TypeOK
  <2>7. TakeOver(n)
    BY <2>1, <2>3, <2>6 DEF Decide, StartForced, AliveInv, Alive
  <2>8. lastHb[n] > TimeoutThreshold /\ lastHb[n] <= HeartbeatInterval
    BY <2>1, <2>3, <2>7 DEF TakeOver, TimedOut, TimingInv
  <2>9. QED
    BY <2>1, <2>8, HeartbeatAssumption DEF HeartbeatAssumption, TypeOK
<1>4. QED
  BY <1>1, <1>2, <1>3, TypeCorrect, PTL DEF Spec, NoFalseFailover

=============================================================================
