--------------------------- MODULE HeartbeatProofs ---------------------------
(* Theorems about Heartbeat, for any cluster and any intervals.            *)
EXTENDS Heartbeat, TLAPS

Inboxes == [Node -> [Message -> 0 .. MaxCopies]]

(* The datagrams a node sends are messages.                                *)
LEMMA SentMessages ==
  ASSUME NEW n \in Node
  PROVE  /\ Election(n) \in Message
         /\ Beat(n) \in Message
         /\ Foreign(n) \in Message
         /\ Declaration(n, "Primary") \in Message
         /\ Declaration(n, "Standby") \in Message
BY DEF Message

(* A message is sent by a node.                                            *)
LEMMA MessageSender ==
  ASSUME NEW m \in Message
  PROVE  m.from \in Node
BY DEF Message, Election, Beat, Foreign, Declaration

(* Sending to the group keeps every socket within its bound.               *)
LEMMA SentType ==
  ASSUME NEW box \in Inboxes, NEW n \in Node, NEW m \in Message
  PROVE  Sent(box, n, m) \in Inboxes
<1> USE HeartbeatAssumption
<1>1. SUFFICES ASSUME NEW d \in Node
               PROVE  Sent(box, n, m)[d] \in [Message -> 0 .. MaxCopies]
  BY Zenon DEF Sent, Inboxes
<1>2. CASE box[d][m] < MaxCopies
  <2>1. box[d] \in [Message -> 0 .. MaxCopies]
    BY DEF Inboxes
  <2>2. box[d][m] + 1 \in 0 .. MaxCopies
    BY <1>2, <2>1 DEF HeartbeatAssumption
  <2>3. [box[d] EXCEPT ![m] = @ + 1] \in [Message -> 0 .. MaxCopies]
    BY <2>1, <2>2
  <2>4. QED
    BY <2>1, <2>3 DEF Sent
<1>3. CASE ~(box[d][m] < MaxCopies)
  BY <1>3 DEF Sent, Inboxes
<1>4. QED
  BY <1>2, <1>3

(* Reading a datagram does.                                                *)
LEMMA TakenType ==
  ASSUME inbox \in Inboxes, NEW n \in Node, NEW m \in Message, inbox[n][m] > 0
  PROVE  Taken(n, m) \in Inboxes
<1>1. inbox[n] \in [Message -> 0 .. MaxCopies]
  BY DEF Inboxes
<1>2. inbox[n][m] - 1 \in 0 .. MaxCopies
  BY <1>1, HeartbeatAssumption DEF HeartbeatAssumption
<1>3. [inbox[n] EXCEPT ![m] = @ - 1] \in [Message -> 0 .. MaxCopies]
  BY <1>1, <1>2
<1>4. QED
  BY <1>3 DEF Taken, Inboxes

(* A datagram that waits after a send waited before or is the one sent.    *)
LEMMA SentOnly ==
  ASSUME NEW box \in Inboxes, NEW n \in Node, NEW sent \in Message,
         NEW d \in Node, NEW m \in Message, Sent(box, n, sent)[d][m] > 0
  PROVE  box[d][m] > 0 \/ m = sent
<1>1. box[d] \in [Message -> 0 .. MaxCopies]
  BY DEF Inboxes
<1>2. Sent(box, n, sent)[d] = box[d]
      \/ Sent(box, n, sent)[d] = [box[d] EXCEPT ![sent] = @ + 1]
  BY DEF Sent
<1>3. QED
  BY <1>1, <1>2

(* A datagram that waits after another was read waited before.             *)
LEMMA TakenOnly ==
  ASSUME inbox \in Inboxes, NEW n \in Node, NEW taken \in Message,
         inbox[n][taken] > 0,
         NEW d \in Node, NEW m \in Message, Taken(n, taken)[d][m] > 0
  PROVE  inbox[d][m] > 0
<1>1. inbox[d] \in [Message -> 0 .. MaxCopies]
  BY DEF Inboxes
<1>2. Taken(n, taken)[d] = inbox[d]
      \/ (d = n /\ Taken(n, taken)[d] = [inbox[d] EXCEPT ![taken] = @ - 1])
  BY DEF Taken, Inboxes
<1>3. QED
  BY <1>1, <1>2

(* Sending takes nothing out of a socket, and what can be delivered waits. *)
LEMMA SentKeeps ==
  ASSUME NEW box \in Inboxes, NEW n \in Node, NEW sent \in Message,
         NEW d \in Node, NEW m \in Message, box[d][m] > 0
  PROVE  Sent(box, n, sent)[d][m] > 0
<1>1. box[d] \in [Message -> 0 .. MaxCopies]
  BY DEF Inboxes
<1>2. Sent(box, n, sent)[d] = box[d]
      \/ Sent(box, n, sent)[d] = [box[d] EXCEPT ![sent] = @ + 1]
  BY DEF Sent
<1>3. QED
  BY <1>1, <1>2

LEMMA SentArrives ==
  ASSUME NEW box \in Inboxes, NEW n \in Node, NEW m \in Message, NEW d \in Node,
         Listening(d), ActsOn(d, m), link[n]
  PROVE  Sent(box, n, m)[d][m] > 0
<1>1. box[d] \in [Message -> 0 .. MaxCopies]
  BY DEF Inboxes
<1>2. CASE box[d][m] < MaxCopies
  <2>1. Sent(box, n, m)[d] = [box[d] EXCEPT ![m] = @ + 1]
    BY <1>2 DEF Sent
  <2>2. QED
    BY <1>1, <2>1
<1>3. CASE ~(box[d][m] < MaxCopies)
  <2>1. Sent(box, n, m)[d] = box[d]
    BY <1>3 DEF Sent
  <2>2. QED
    BY <1>1, <1>3, <2>1, HeartbeatAssumption DEF HeartbeatAssumption
<1>4. QED
  BY <1>2, <1>3

(* Reading a datagram leaves the others where they are.                    *)
LEMMA TakenKeeps ==
  ASSUME inbox \in Inboxes, NEW n \in Node, NEW taken \in Message,
         NEW d \in Node, NEW m \in Message, d # n \/ m # taken
  PROVE  Taken(n, taken)[d][m] = inbox[d][m]
BY DEF Taken, Inboxes

-----------------------------------------------------------------------------
(* What one step of a node keeps of TypeOK, thread by thread.              *)
LEMMA SpawnType ==
  ASSUME TypeOK, NEW n \in Node, SpawnHb(n)
  PROVE  /\ hb' \in [Node -> {"none", "sleep", "send", "done"}]
         /\ hbWait' \in [Node -> 0 .. HeartbeatInterval]
<1>1. hb' \in [Node -> {"none", "sleep", "send", "done"}]
  BY DEF SpawnHb, TypeOK
<1>2. hbWait' \in [Node -> 0 .. HeartbeatInterval]
  BY HeartbeatAssumption DEF SpawnHb, TypeOK, HeartbeatAssumption
<1>3. QED
  BY <1>1, <1>2

LEMMA ThreadsType ==
  ASSUME TypeOK, NEW n \in Node, NEW r \in Role, ThreadsStart(n, r)
  PROVE  /\ main' \in [Node -> {"down", "noSocket", "idle", "electing", "up",
                                "joinHb", "joinRx"}]
         /\ role' \in [Node -> Role]
         /\ rx' \in [Node -> {"none", "wait", "check", "done"}]
         /\ hb' \in [Node -> {"none", "sleep", "send", "done"}]
         /\ hbWait' \in [Node -> 0 .. HeartbeatInterval]
<1>1. /\ hb' \in [Node -> {"none", "sleep", "send", "done"}]
      /\ hbWait' \in [Node -> 0 .. HeartbeatInterval]
  BY SpawnType DEF ThreadsStart, TypeOK, hbVars
<1>2. QED
  BY <1>1 DEF ThreadsStart, TypeOK

LEMMA MainType ==
  ASSUME TypeOK, NEW n \in Node, MainStep(n)
  PROVE  TypeOK'
<1> USE HeartbeatAssumption
    DEF TypeOK, HeartbeatAssumption, mainVars, hbVars, envVars, Inboxes
<1>1. CASE Decide(n)
  <2>1. Elected(n) \in {"Primary", "Standby"}
    BY DEF Elected
  <2>2. inbox' \in Inboxes
    BY <1>1, <2>1, SentType, SentMessages DEF Decide
  <2>3. QED
    BY <1>1, <2>1, <2>2, ThreadsType DEF Decide, Role
<1>2. CASE JoinHeartbeat(n)
  BY <1>2 DEF JoinHeartbeat
<1>3. CASE JoinReceiver(n)
  BY <1>3 DEF JoinReceiver
<1>4. QED
  BY <1>1, <1>2, <1>3 DEF MainStep

LEMMA HbType ==
  ASSUME TypeOK, NEW n \in Node, HbStep(n)
  PROVE  TypeOK'
<1> USE HeartbeatAssumption
    DEF TypeOK, HeartbeatAssumption, mainVars, hbVars, envVars, Inboxes
<1>1. CASE HeartbeatDue(n)
  BY <1>1 DEF HeartbeatDue
<1>2. CASE HeartbeatSkip(n)
  BY <1>2 DEF HeartbeatSkip
<1>3. CASE HeartbeatEnd(n)
  BY <1>3 DEF HeartbeatEnd
<1>4. CASE SendHeartbeat(n)
  <2>1. inbox' \in Inboxes
    BY <1>4, SentType, SentMessages DEF SendHeartbeat
  <2>2. hbWait' \in [Node -> 0 .. HeartbeatInterval]
    BY <1>4 DEF SendHeartbeat
  <2>3. hb' \in [Node -> {"none", "sleep", "send", "done"}]
    BY <1>4 DEF SendHeartbeat
  <2>4. QED
    BY <1>4, <2>1, <2>2, <2>3 DEF SendHeartbeat
<1>5. QED
  BY <1>1, <1>2, <1>3, <1>4 DEF HbStep

LEMMA YieldType ==
  ASSUME TypeOK, NEW n \in Node, NEW m \in Message, inbox[n][m] > 0,
         YieldOrStay(n, m)
  PROVE  inbox' \in Inboxes /\ role' \in [Node -> Role]
<1>1. Taken(n, m) \in Inboxes
  BY TakenType DEF TypeOK, Inboxes
<1>2. inbox' \in Inboxes
  BY <1>1, SentType, SentMessages DEF YieldOrStay
<1>3. role' \in [Node -> Role]
  BY DEF YieldOrStay, TypeOK, Role
<1>4. QED
  BY <1>2, <1>3

LEMMA RxType ==
  ASSUME TypeOK, NEW n \in Node, RxStep(n)
  PROVE  TypeOK'
<1> USE HeartbeatAssumption
    DEF TypeOK, HeartbeatAssumption, mainVars, hbVars, envVars, Inboxes
<1>1. ASSUME NEW m \in Message, ReceiveHeartbeat(n, m)
      PROVE  TypeOK'
  <2>1. inbox' \in Inboxes /\ role' \in [Node -> Role]
    BY <1>1, YieldType DEF ReceiveHeartbeat, Reads
  <2>2. lastHb' \in [Node -> 0 .. Never]
    BY <1>1 DEF ReceiveHeartbeat, Never
  <2>3. rx' \in [Node -> {"none", "wait", "check", "done"}]
    BY <1>1 DEF ReceiveHeartbeat, GoOn, LoopTop
  <2>4. QED
    BY <1>1, <2>1, <2>2, <2>3 DEF ReceiveHeartbeat
<1>2. ASSUME NEW m \in Message, ReceiveElection(n, m)
      PROVE  TypeOK'
  BY <1>2, SentType, TakenType, SentMessages DEF ReceiveElection, Reads, GoOn, LoopTop
<1>3. ASSUME NEW m \in Message, ReceiveDeclaration(n, m)
      PROVE  TypeOK'
  <2>1. inbox' \in Inboxes /\ role' \in [Node -> Role]
    BY <1>3, YieldType DEF ReceiveDeclaration, Reads
  <2>2. QED
    BY <1>3, <2>1 DEF ReceiveDeclaration, GoOn, LoopTop
<1>4. ASSUME NEW m \in Message, ReceiveForeign(n, m)
      PROVE  TypeOK'
  BY <1>4, TakenType DEF ReceiveForeign, Reads, LoopTop
<1>5. CASE TakeOver(n)
  <2>1. inbox' \in Inboxes
    BY <1>5, SentType, SentMessages DEF TakeOver
  <2>2. QED
    BY <1>5, <2>1 DEF TakeOver, SpawnHb, LoopTop, Role
<1>6. CASE ReceiverEnds(n)
  BY <1>6 DEF ReceiverEnds
<1>7. QED
  BY <1>1, <1>2, <1>3, <1>4, <1>5, <1>6 DEF RxStep

LEMMA OperatorType ==
  ASSUME TypeOK, NEW n \in Node, Operator(n)
  PROVE  TypeOK'
<1> USE HeartbeatAssumption
    DEF TypeOK, HeartbeatAssumption, mainVars, hbVars, envVars, Inboxes
<1>1. CASE Boot(n)
  BY <1>1 DEF Boot
<1>2. CASE StartAuto(n)
  <2>1. inbox' \in Inboxes
    BY <1>2, SentType, SentMessages DEF StartAuto
  <2>2. wait' \in [Node -> 0 .. ElectionWait]
    BY <1>2 DEF StartAuto
  <2>3. QED
    BY <1>2, <2>1, <2>2 DEF StartAuto, Role
<1>3. ASSUME NEW r \in ForcedRoles, StartForced(n, r)
      PROVE  TypeOK'
  <2>1. r \in Role
    BY DEF Role
  <2>2. QED
    BY <1>3, <2>1, ThreadsType DEF StartForced
<1>4. CASE Stop(n)
  BY <1>4 DEF Stop
<1>5. QED
  BY <1>1, <1>2, <1>3, <1>4 DEF Operator

LEMMA EnvironmentType ==
  ASSUME TypeOK, NEW n \in Node, Environment(n)
  PROVE  TypeOK'
<1> USE HeartbeatAssumption
    DEF TypeOK, HeartbeatAssumption, mainVars, hbVars, envVars, Inboxes
<1>1. CASE BootWithoutSocket(n)
  BY <1>1 DEF BootWithoutSocket
<1>2. CASE Crash(n)
  BY <1>2 DEF Crash, NoMessage, Role, Never
<1>3. CASE LinkFails(n)
  BY <1>3 DEF LinkFails
<1>4. CASE LinkHeals(n)
  BY <1>4 DEF LinkHeals
<1>5. CASE ForeignDatagram(n)
  <2>1. inbox' \in Inboxes
    BY <1>5, SentType, SentMessages DEF ForeignDatagram
  <2>2. QED
    BY <1>5, <2>1 DEF ForeignDatagram
<1>6. QED
  BY <1>1, <1>2, <1>3, <1>4, <1>5 DEF Environment

LEMMA TickType ==
  ASSUME TypeOK, Tick
  PROVE  TypeOK'
BY HeartbeatAssumption
   DEF TypeOK, HeartbeatAssumption, Tick, Minus1, Expired, Never, envVars

(* Every variable keeps its type: ages and sleeps stay within their        *)
(* intervals and no socket ever holds a negative number of datagrams.      *)
THEOREM TypeCorrect == Spec => []TypeOK
<1>1. Init => TypeOK
  BY HeartbeatAssumption
     DEF Init, TypeOK, HeartbeatAssumption, NoMessage, Role, Never
<1>2. TypeOK /\ [Next]_vars => TypeOK'
  <2>1. SUFFICES ASSUME TypeOK, [Next]_vars PROVE TypeOK'
    OBVIOUS
  <2>2. CASE Next
    BY <2>1, <2>2, MainType, HbType, RxType, OperatorType, EnvironmentType, TickType
       DEF Next
  <2>3. CASE UNCHANGED vars
    BY <2>1, <2>3 DEF vars, TypeOK
  <2>4. QED
    BY <2>1, <2>2, <2>3
<1>3. QED
  BY <1>1, <1>2, PTL DEF Spec

-----------------------------------------------------------------------------
(* While Stop is not called, the threads of a node follow its main thread: *)
(* neither exists before Start ends, and none ends before the process.     *)
Threads(n) ==
  /\ main[n] \notin {"joinHb", "joinRx"}
  /\ hb[n] # "done"
  /\ hb[n] # "none" => main[n] = "up"
  /\ rx[n] # "none" => main[n] = "up"
  /\ main[n] = "up" /\ role[n] = "Primary" => hb[n] \in {"sleep", "send"}

ThreadInv == \A n \in Node : Threads(n)

(* The variables of a node other than its socket, its age and its sleeps.  *)
StateOf(n) == <<main[n], role[n], hb[n], rx[n]>>

(* A step that leaves them alone, or changes them for one node only.       *)
LEMMA ThreadsElsewhere ==
  ASSUME ThreadInv, NEW n \in Node, Threads(n)',
         \A d \in Node \ {n} : StateOf(d)' = StateOf(d)
  PROVE  ThreadInv'
BY DEF ThreadInv, Threads, StateOf

LEMMA SpawnedHb ==
  ASSUME TypeOK, NEW n \in Node, SpawnHb(n), hb[n] # "done"
  PROVE  /\ hb'[n] \in {"sleep", "send"}
         /\ \A d \in Node \ {n} : hb'[d] = hb[d]
BY DEF SpawnHb, TypeOK

LEMMA ThreadStep ==
  ASSUME TypeOK, ThreadInv, \A n \in Node : ~Stop(n), Next
  PROVE  ThreadInv'
<1> USE DEF mainVars, hbVars, envVars
<1>1. ASSUME NEW n \in Node, MainStep(n)
      PROVE  ThreadInv'
  <2>1. Decide(n)
    BY <1>1 DEF MainStep, JoinHeartbeat, JoinReceiver, ThreadInv, Threads
  <2>2. /\ main'[n] = "up"
        /\ rx'[n] = "wait"
        /\ hb'[n] # "done"
        /\ role'[n] = "Primary" => hb'[n] \in {"sleep", "send"}
    BY <2>1, SpawnedHb DEF Decide, ThreadsStart, TypeOK, ThreadInv, Threads
  <2>3. \A d \in Node \ {n} : StateOf(d)' = StateOf(d)
    BY <2>1, SpawnedHb DEF Decide, ThreadsStart, TypeOK, ThreadInv, Threads, StateOf
  <2>4. QED
    BY <2>2, <2>3, ThreadsElsewhere DEF Threads
<1>2. ASSUME NEW n \in Node, HbStep(n)
      PROVE  ThreadInv'
  <2>1. ~HeartbeatEnd(n)
    BY DEF HeartbeatEnd, HeartbeatAwake, Running, ThreadInv, Threads
  <2>2. Threads(n)'
    BY <1>2, <2>1
       DEF HbStep, HeartbeatDue, HeartbeatSkip, SendHeartbeat, HeartbeatAwake,
           TypeOK, ThreadInv, Threads
  <2>3. \A d \in Node \ {n} : StateOf(d)' = StateOf(d)
    BY <1>2, <2>1
       DEF HbStep, HeartbeatDue, HeartbeatSkip, SendHeartbeat, TypeOK, StateOf
  <2>4. QED
    BY <2>2, <2>3, ThreadsElsewhere
<1>3. ASSUME NEW n \in Node, RxStep(n)
      PROVE  ThreadInv'
  <2>1. ASSUME NEW m \in Message,
               \/ ReceiveHeartbeat(n, m)
               \/ ReceiveElection(n, m)
               \/ ReceiveDeclaration(n, m)
               \/ ReceiveForeign(n, m)
        PROVE  ThreadInv'
    <3>1. /\ UNCHANGED <<main, hb>>
          /\ rx[n] = "wait"
          /\ role' = role \/ role' = [role EXCEPT ![n] = "Standby"]
          /\ \A d \in Node \ {n} : rx'[d] = rx[d]
      BY <2>1 DEF ReceiveHeartbeat, ReceiveElection, ReceiveDeclaration,
                  ReceiveForeign, Reads, YieldOrStay, GoOn, TypeOK
    <3>2. Threads(n)'
      BY <3>1 DEF TypeOK, ThreadInv, Threads
    <3>3. \A d \in Node \ {n} : StateOf(d)' = StateOf(d)
      BY <3>1 DEF TypeOK, StateOf
    <3>4. QED
      BY <3>2, <3>3, ThreadsElsewhere
  <2>2. CASE TakeOver(n)
    <3>1. Threads(n)'
      BY <2>2, SpawnedHb DEF TakeOver, TypeOK, ThreadInv, Threads
    <3>2. \A d \in Node \ {n} : StateOf(d)' = StateOf(d)
      BY <2>2, SpawnedHb DEF TakeOver, TypeOK, ThreadInv, Threads, StateOf
    <3>3. QED
      BY <3>1, <3>2, ThreadsElsewhere
  <2>3. CASE ReceiverEnds(n)
    BY <2>3 DEF ReceiverEnds, Running, ThreadInv, Threads
  <2>4. QED
    BY <1>3, <2>1, <2>2, <2>3 DEF RxStep
<1>4. ASSUME NEW n \in Node, Operator(n)
      PROVE  ThreadInv'
  <2>1. CASE Boot(n) \/ StartAuto(n)
    <3>1. Threads(n)'
      BY <2>1 DEF Boot, StartAuto, TypeOK, ThreadInv, Threads
    <3>2. \A d \in Node \ {n} : StateOf(d)' = StateOf(d)
      BY <2>1 DEF Boot, StartAuto, TypeOK, StateOf
    <3>3. QED
      BY <3>1, <3>2, ThreadsElsewhere
  <2>2. ASSUME NEW r \in ForcedRoles, StartForced(n, r)
        PROVE  ThreadInv'
    <3>1. Threads(n)'
      BY <2>2, SpawnedHb DEF StartForced, ThreadsStart, TypeOK, ThreadInv, Threads
    <3>2. \A d \in Node \ {n} : StateOf(d)' = StateOf(d)
      BY <2>2, SpawnedHb
         DEF StartForced, ThreadsStart, TypeOK, ThreadInv, Threads, StateOf
    <3>3. QED
      BY <3>1, <3>2, ThreadsElsewhere
  <2>3. ~Stop(n)
    OBVIOUS
  <2>4. QED
    BY <1>4, <2>1, <2>2, <2>3 DEF Operator
<1>5. ASSUME NEW n \in Node, Environment(n)
      PROVE  ThreadInv'
  <2>1. Threads(n)'
    BY <1>5 DEF Environment, BootWithoutSocket, Crash, LinkFails, LinkHeals,
                ForeignDatagram, TypeOK, ThreadInv, Threads
  <2>2. \A d \in Node \ {n} : StateOf(d)' = StateOf(d)
    BY <1>5 DEF Environment, BootWithoutSocket, Crash, LinkFails, LinkHeals,
                ForeignDatagram, TypeOK, StateOf
  <2>3. QED
    BY <2>1, <2>2, ThreadsElsewhere
<1>6. CASE Tick
  BY <1>6 DEF Tick, ThreadInv, Threads
<1>7. QED
  BY <1>1, <1>2, <1>3, <1>4, <1>5, <1>6 DEF Next

(* While Stop is not called, a Primary that has started always has a live  *)
(* heartbeat thread, however often it changes its role.                    *)
THEOREM PrimaryAlwaysBeats ==
  "stop" \notin Faults => (Spec => []PrimaryBeats)
<1> SUFFICES ASSUME "stop" \notin Faults PROVE Spec => []PrimaryBeats
  OBVIOUS
<1>1. Init => ThreadInv
  BY DEF Init, ThreadInv, Threads
<1>2. TypeOK /\ ThreadInv /\ [Next]_vars => ThreadInv'
  <2>1. TypeOK /\ ThreadInv /\ Next => ThreadInv'
    BY ThreadStep DEF Stop
  <2>2. ThreadInv /\ UNCHANGED vars => ThreadInv'
    BY DEF vars, ThreadInv, Threads
  <2>3. QED
    BY <2>1, <2>2
<1>3. ThreadInv => PrimaryBeats
  BY DEF ThreadInv, Threads, PrimaryBeats
<1>4. QED
  BY <1>1, <1>2, <1>3, TypeCorrect, PTL DEF Spec

-----------------------------------------------------------------------------
(* A node that nobody outranks starts without having heard anyone, elects  *)
(* itself, and finds no claim to yield to.                                 *)
TopInv ==
  \A n \in Node : /\ main[n] # "up" => lastHb[n] = Never
                  /\ Top(n) /\ main[n] = "up" => role[n] = "Primary"

LEMMA TopInvStep ==
  ASSUME TypeOK, ThreadInv, TopInv, "Standby" \notin ForcedRoles, Next,
         "stop" \notin Faults
  PROVE  TopInv'
<1> USE DEF mainVars, hbVars, envVars
<1>1. ASSUME NEW n \in Node, MainStep(n)
      PROVE  TopInv'
  <2>1. Decide(n)
    BY <1>1 DEF MainStep, JoinHeartbeat, JoinReceiver, ThreadInv, Threads
  <2>2. lastHb[n] = Never /\ Elected(n) = "Primary"
    BY <2>1 DEF Decide, Elected, TopInv
  <2>3. QED
    BY <2>1, <2>2 DEF Decide, ThreadsStart, TypeOK, TopInv, Top
<1>2. ASSUME NEW n \in Node, HbStep(n)
      PROVE  TopInv'
  BY <1>2 DEF HbStep, HeartbeatDue, HeartbeatSkip, HeartbeatEnd, SendHeartbeat,
              TopInv, Top
<1>3. ASSUME NEW n \in Node, RxStep(n)
      PROVE  TopInv'
  <2>1. CASE main[n] = "up"
    <3>1. ASSUME NEW m \in Message,
                 \/ ReceiveHeartbeat(n, m)
                 \/ ReceiveElection(n, m)
                 \/ ReceiveDeclaration(n, m)
                 \/ ReceiveForeign(n, m)
          PROVE  TopInv'
      <4>1. Top(n) => ~MustYield(n, m)
        BY MessageSender DEF Top, MustYield
      <4>2. /\ main' = main
            /\ \A d \in Node \ {n} : role'[d] = role[d] /\ lastHb'[d] = lastHb[d]
            /\ Top(n) => role'[n] = role[n]
        BY <3>1, <4>1
           DEF ReceiveHeartbeat, ReceiveElection, ReceiveDeclaration,
               ReceiveForeign, YieldOrStay, TypeOK
      <4>3. QED
        BY <2>1, <4>2 DEF TopInv, Top
    <3>2. CASE TakeOver(n)
      BY <3>2 DEF TakeOver, TypeOK, TopInv, Top
    <3>3. CASE ReceiverEnds(n)
      BY <3>3 DEF ReceiverEnds, TopInv, Top
    <3>4. QED
      BY <1>3, <3>1, <3>2, <3>3 DEF RxStep
  <2>2. CASE main[n] # "up"
    BY <1>3, <2>2 DEF RxStep, ReceiveHeartbeat, ReceiveElection, ReceiveDeclaration,
                      ReceiveForeign, Reads, TakeOver, ReceiverEnds, ThreadInv, Threads
  <2>3. QED
    BY <2>1, <2>2
<1>4. ASSUME NEW n \in Node, Operator(n)
      PROVE  TopInv'
  <2>1. CASE Boot(n) \/ StartAuto(n)
    BY <2>1 DEF Boot, StartAuto, TypeOK, TopInv, Top
  <2>2. ASSUME NEW r \in ForcedRoles, StartForced(n, r)
        PROVE  TopInv'
    <3>1. r = "Primary"
      BY HeartbeatAssumption DEF HeartbeatAssumption
    <3>2. QED
      BY <2>2, <3>1 DEF StartForced, ThreadsStart, TypeOK, TopInv, Top
  <2>3. ~Stop(n)
    BY DEF Stop
  <2>4. QED
    BY <1>4, <2>1, <2>2, <2>3 DEF Operator
<1>5. ASSUME NEW n \in Node, Environment(n)
      PROVE  TopInv'
  BY <1>5 DEF Environment, BootWithoutSocket, Crash, LinkFails, LinkHeals,
              ForeignDatagram, TypeOK, TopInv, Top
<1>6. CASE Tick
  <2>1. \A n \in Node : lastHb[n] = Never => lastHb'[n] = Never
    BY <1>6, HeartbeatAssumption DEF Tick, Expired, Never, HeartbeatAssumption
  <2>2. QED
    BY <1>6, <2>1 DEF Tick, TopInv, Top
<1>7. QED
  BY <1>1, <1>2, <1>3, <1>4, <1>5, <1>6 DEF Next

(* In a cluster that is neither stopped through the interface nor told to  *)
(* start as Standby (main.cpp does neither), the node that nobody outranks *)
(* is Primary whenever it is past Start's wait, whatever crashes and       *)
(* whatever the network does.                                              *)
THEOREM TopAlwaysServes ==
  "stop" \notin Faults /\ "Standby" \notin ForcedRoles => (Spec => []TopServes)
<1> SUFFICES ASSUME "stop" \notin Faults, "Standby" \notin ForcedRoles
             PROVE  Spec => []TopServes
  OBVIOUS
<1>1. Init => ThreadInv /\ TopInv
  BY DEF Init, ThreadInv, Threads, TopInv
<1>2. TypeOK /\ ThreadInv /\ TopInv /\ [Next]_vars => ThreadInv' /\ TopInv'
  <2>1. TypeOK /\ ThreadInv /\ TopInv /\ Next => ThreadInv' /\ TopInv'
    BY ThreadStep, TopInvStep DEF Stop
  <2>2. ThreadInv /\ TopInv /\ UNCHANGED vars => ThreadInv' /\ TopInv'
    BY DEF vars, ThreadInv, Threads, TopInv, Top
  <2>3. QED
    BY <2>1, <2>2
<1>3. TopInv => TopServes
  BY DEF TopInv, TopServes
<1>4. QED
  BY <1>1, <1>2, <1>3, TypeCorrect, PTL DEF Spec

-----------------------------------------------------------------------------
(* Whenever the receive thread of a Standby waits for a datagram, whether  *)
(* its service is up, stopping or stopped and started again, the Standby   *)
(* has heard a heartbeat.                                                  *)
Heard(n) == rx[n] = "wait" /\ role[n] = "Standby" => lastHb[n] # Never

HeardInv == \A n \in Node : Heard(n)

LEMMA HeardStep ==
  ASSUME TypeOK, HeardInv, "Standby" \notin ForcedRoles, Next
  PROVE  HeardInv'
<1> USE DEF mainVars, hbVars, envVars
<1>1. ASSUME NEW n \in Node, Heard(n)',
             \A d \in Node \ {n} : UNCHANGED <<rx[d], role[d], lastHb[d]>>
      PROVE  HeardInv'
  BY <1>1 DEF HeardInv, Heard
<1>2. ASSUME NEW n \in Node, MainStep(n)
      PROVE  HeardInv'
  <2>1. CASE Decide(n)
    <3>1. Elected(n) = "Standby" => lastHb[n] # Never
      BY DEF Elected
    <3>2. QED
      BY <1>1, <2>1, <3>1 DEF Decide, ThreadsStart, TypeOK, Heard
  <2>2. CASE JoinHeartbeat(n) \/ JoinReceiver(n)
    BY <1>1, <2>2 DEF JoinHeartbeat, JoinReceiver, TypeOK, HeardInv, Heard
  <2>3. QED
    BY <1>2, <2>1, <2>2 DEF MainStep
<1>3. ASSUME NEW n \in Node, HbStep(n)
      PROVE  HeardInv'
  BY <1>3 DEF HbStep, HeartbeatDue, HeartbeatSkip, HeartbeatEnd, SendHeartbeat,
              HeardInv, Heard
<1>4. ASSUME NEW n \in Node, RxStep(n)
      PROVE  HeardInv'
  <2>1. ASSUME NEW m \in Message,
               \/ ReceiveHeartbeat(n, m)
               \/ ReceiveElection(n, m)
               \/ ReceiveDeclaration(n, m)
        PROVE  HeardInv'
    <3>1. GoOn(n)
      BY <2>1 DEF ReceiveHeartbeat, ReceiveElection, ReceiveDeclaration
    <3>2. rx'[n] = "wait" /\ role'[n] = "Standby" => ~TimedOut(n)'
      BY <3>1 DEF GoOn, TypeOK
    <3>3. \A d \in Node \ {n} : UNCHANGED <<rx[d], role[d], lastHb[d]>>
      BY <2>1, <3>1 DEF ReceiveHeartbeat, ReceiveElection, ReceiveDeclaration,
                        YieldOrStay, GoOn, TypeOK
    <3>4. QED
      BY <1>1, <3>2, <3>3 DEF Heard, TimedOut
  <2>2. ASSUME NEW m \in Message, ReceiveForeign(n, m)
        PROVE  HeardInv'
    BY <1>1, <2>2 DEF ReceiveForeign, Reads, TypeOK, HeardInv, Heard
  <2>3. CASE TakeOver(n)
    BY <1>1, <2>3 DEF TakeOver, TypeOK, Heard
  <2>4. CASE ReceiverEnds(n)
    BY <1>1, <2>4 DEF ReceiverEnds, TypeOK, Heard
  <2>5. QED
    BY <1>4, <2>1, <2>2, <2>3, <2>4 DEF RxStep
<1>5. ASSUME NEW n \in Node, Operator(n)
      PROVE  HeardInv'
  <2>1. CASE StartAuto(n)
    BY <1>1, <2>1 DEF StartAuto, TypeOK, Heard
  <2>2. ASSUME NEW r \in ForcedRoles, StartForced(n, r)
        PROVE  HeardInv'
    <3>1. r # "Standby"
      OBVIOUS
    <3>2. QED
      BY <1>1, <2>2, <3>1 DEF StartForced, ThreadsStart, TypeOK, Heard
  <2>3. CASE Boot(n) \/ Stop(n)
    BY <2>3 DEF Boot, Stop, HeardInv, Heard
  <2>4. QED
    BY <1>5, <2>1, <2>2, <2>3 DEF Operator
<1>6. ASSUME NEW n \in Node, Environment(n)
      PROVE  HeardInv'
  <2>1. CASE Crash(n)
    BY <1>1, <2>1 DEF Crash, TypeOK, Heard
  <2>2. CASE BootWithoutSocket(n) \/ LinkFails(n) \/ LinkHeals(n) \/ ForeignDatagram(n)
    BY <2>2 DEF BootWithoutSocket, LinkFails, LinkHeals, ForeignDatagram, HeardInv, Heard
  <2>3. QED
    BY <1>6, <2>1, <2>2 DEF Environment
<1>7. CASE Tick
  <2>1. \A n \in Node : lastHb[n] # Never => lastHb'[n] # Never
    BY <1>7, HeartbeatAssumption DEF Tick, Expired, Never, HeartbeatAssumption, TypeOK
  <2>2. QED
    BY <1>7, <2>1 DEF Tick, HeardInv, Heard
<1>8. QED
  BY <1>2, <1>3, <1>4, <1>5, <1>6, <1>7 DEF Next

(* Unless it is told to start as Standby, a node that waits as Standby has *)
(* heard a Primary, even if its service was stopped and started before: it *)
(* measures a silence (CheckAndSwitchRole), not the initial time_point.    *)
THEOREM StandbyAlwaysHeard ==
  "Standby" \notin ForcedRoles => (Spec => []StandbyHasHeard)
<1> SUFFICES ASSUME "Standby" \notin ForcedRoles
             PROVE  Spec => []StandbyHasHeard
  OBVIOUS
<1>1. Init => HeardInv
  BY DEF Init, HeardInv, Heard
<1>2. TypeOK /\ HeardInv /\ [Next]_vars => HeardInv'
  <2>1. TypeOK /\ HeardInv /\ Next => HeardInv'
    BY HeardStep
  <2>2. HeardInv /\ UNCHANGED vars => HeardInv'
    BY DEF vars, HeardInv, Heard
  <2>3. QED
    BY <2>1, <2>2
<1>3. HeardInv => StandbyHasHeard
  BY DEF HeardInv, Heard, StandbyHasHeard
<1>4. QED
  BY <1>1, <1>2, <1>3, TypeCorrect, PTL DEF Spec
=============================================================================
