------------------------- MODULE HeartbeatRefinement -------------------------
(* Heartbeat implements PrimaryStandby, for any cluster and any faults.    *)
EXTENDS HeartbeatProofs

(* The receive thread exists from the end of Start to the end of Stop, and *)
(* only it and Start change the role: a node keeps Unknown while it waits. *)
Lifecycle ==
  \A n \in Node :
    /\ rx[n] # "none" => main[n] \in {"up", "joinHb", "joinRx"}
    /\ main[n] = "electing" => role[n] = "Unknown"

-----------------------------------------------------------------------------
LEMMA LifecycleStep ==
  ASSUME TypeOK, Lifecycle, Next
  PROVE  Lifecycle'
<1> USE DEF mainVars, hbVars, envVars
<1>1. ASSUME NEW n \in Node, MainStep(n)
      PROVE  Lifecycle'
  BY <1>1 DEF MainStep, Decide, ThreadsStart, JoinHeartbeat, JoinReceiver,
              TypeOK, Lifecycle
<1>2. ASSUME NEW n \in Node, HbStep(n)
      PROVE  Lifecycle'
  BY <1>2 DEF HbStep, HeartbeatDue, HeartbeatSkip, HeartbeatEnd, SendHeartbeat,
              Lifecycle
<1>3. ASSUME NEW n \in Node, RxStep(n)
      PROVE  Lifecycle'
  <2>1. ASSUME NEW m \in Message,
               \/ ReceiveHeartbeat(n, m)
               \/ ReceiveElection(n, m)
               \/ ReceiveDeclaration(n, m)
               \/ ReceiveForeign(n, m)
        PROVE  Lifecycle'
    <3>1. /\ main' = main /\ rx[n] = "wait"
          /\ \A d \in Node \ {n} : role'[d] = role[d] /\ rx'[d] = rx[d]
      BY <2>1 DEF ReceiveHeartbeat, ReceiveElection, ReceiveDeclaration,
                  ReceiveForeign, Reads, YieldOrStay, GoOn, TypeOK
    <3>2. QED
      BY <3>1 DEF Lifecycle
  <2>2. CASE TakeOver(n)
    BY <2>2 DEF TakeOver, LoopTop, TypeOK, Lifecycle
  <2>3. CASE ReceiverEnds(n)
    BY <2>3 DEF ReceiverEnds, TypeOK, Lifecycle
  <2>4. QED
    BY <1>3, <2>1, <2>2, <2>3 DEF RxStep
<1>4. ASSUME NEW n \in Node, Operator(n)
      PROVE  Lifecycle'
  BY <1>4 DEF Operator, Boot, StartAuto, StartForced, ThreadsStart, Stop,
              TypeOK, Lifecycle
<1>5. ASSUME NEW n \in Node, Environment(n)
      PROVE  Lifecycle'
  BY <1>5 DEF Environment, BootWithoutSocket, Crash, LinkFails, LinkHeals,
              ForeignDatagram, TypeOK, Lifecycle
<1>6. CASE Tick
  BY <1>6 DEF Tick, Lifecycle
<1>7. QED
  BY <1>1, <1>2, <1>3, <1>4, <1>5, <1>6 DEF Next

-----------------------------------------------------------------------------
(* Every step makes claims for nodes that are Primary only.                *)
LEMMA PrimariesClaim == Abs!Primaries \subseteq Claimants
BY DEF Abs!Primaries, Claimants, AbsRole

(* What a step has to do to the heartbeat threads and to the sockets to    *)
(* make no other claims.                                                   *)
NoNewClaims ==
  /\ \A n \in Node : hb'[n] = "send" => n \in Claimants
  /\ \A d, n \in Node, m \in Message :
       inbox'[d][m] > 0 /\ ClaimsPrimary(m) /\ m.from = n
         => n \in Claimants \/ AbsRole'[n] = "Primary"

LEMMA Lapse ==
  ASSUME NoNewClaims
  PROVE  Abs!ClaimsLapse
BY PrimariesClaim DEF NoNewClaims, Abs!ClaimsLapse, Abs!Primaries, Claimants, AbsRole

(* A step that sends no claim.                                             *)
LEMMA Silent ==
  ASSUME TypeOK, \A n \in Node : hb'[n] = "send" => hb[n] = "send",
         \A d \in Node, m \in Message :
           inbox'[d][m] > 0 => inbox[d][m] > 0 \/ ~ClaimsPrimary(m)
  PROVE  NoNewClaims
BY DEF NoNewClaims, Claimants

(* A step in which n sends one claim, as a claimant or as a Primary.       *)
LEMMA Claims ==
  ASSUME TypeOK, \A n \in Node : hb'[n] = "send" => hb[n] = "send",
         NEW s \in Node, s \in Claimants \/ AbsRole'[s] = "Primary",
         \A d \in Node, m \in Message :
           inbox'[d][m] > 0 => inbox[d][m] > 0 \/ m.from = s
  PROVE  NoNewClaims
BY DEF NoNewClaims, Claimants

(* Silent and Claims for a step that sends one datagram on box.            *)
LEMMA SendsOther ==
  ASSUME TypeOK, \A n \in Node : hb'[n] = "send" => hb[n] = "send",
         NEW s \in Node, NEW box \in Inboxes, NEW sent \in Message,
         \A d \in Node, m \in Message : box[d][m] > 0 => inbox[d][m] > 0,
         inbox' = Sent(box, s, sent),
         ClaimsPrimary(sent) => s \in Claimants \/ AbsRole'[s] = "Primary",
         sent.from = s
  PROVE  NoNewClaims
<1>1. \A d \in Node, m \in Message :
        inbox'[d][m] > 0 => inbox[d][m] > 0 \/ m = sent
  BY SentOnly
<1>2. CASE ClaimsPrimary(sent)
  BY <1>1, <1>2, Claims
<1>3. CASE ~ClaimsPrimary(sent)
  BY <1>1, <1>3, Silent
<1>4. QED
  BY <1>2, <1>3

LEMMA Senders ==
  ASSUME NEW n \in Node, NEW r
  PROVE  /\ Election(n).from = n /\ ~ClaimsPrimary(Election(n))
         /\ Beat(n).from = n
         /\ Foreign(n).from = n /\ ~ClaimsPrimary(Foreign(n))
         /\ Declaration(n, r).from = n
         /\ ClaimsPrimary(Declaration(n, r)) => r = "Primary"
BY DEF Election, Beat, Foreign, Declaration, ClaimsPrimary

LEMMA InboxType == TypeOK => inbox \in Inboxes
BY DEF TypeOK, Inboxes

-----------------------------------------------------------------------------
(* One lemma per thread: its steps are steps of PrimaryStandby.            *)
LEMMA MainRefines ==
  ASSUME TypeOK, Lifecycle, NEW n \in Node, MainStep(n)
  PROVE  Abs!Next
<1> USE DEF mainVars, hbVars, envVars
<1>1. CASE Decide(n)
  <2>1. Elected(n) \in {"Primary", "Standby"}
    BY DEF Elected
  <2>2. /\ AbsRole[n] = "Unknown"
        /\ AbsRole' = [AbsRole EXCEPT ![n] = Elected(n)]
    BY <1>1 DEF Decide, ThreadsStart, AbsRole, TypeOK, Lifecycle
  <2>3. \A d \in Node : hb'[d] = "send" => hb[d] = "send"
    BY <1>1 DEF Decide, ThreadsStart, SpawnHb, TypeOK
  <2>4. NoNewClaims
    <3>1. AbsRole'[n] = Elected(n)
      BY <2>2 DEF AbsRole
    <3>2. Declaration(n, Elected(n)) \in Message
      BY <2>1, SentMessages
    <3>3. QED
      BY <1>1, <2>3, <3>1, <3>2, SendsOther, Senders, InboxType DEF Decide
  <2>5. QED
    BY <2>1, <2>2, <2>4, Lapse DEF Abs!Next, Abs!Decide, Abs!Become
<1>2. CASE JoinHeartbeat(n)
  <2>1. AbsRole' = AbsRole
    BY <1>2 DEF JoinHeartbeat, AbsRole, TypeOK
  <2>2. NoNewClaims
    BY <1>2, Silent DEF JoinHeartbeat, TypeOK
  <2>3. QED
    BY <2>1, <2>2, Lapse DEF Abs!Next, Abs!Forget
<1>3. CASE JoinReceiver(n)
  <2>1. AbsRole[n] \in Abs!Roles /\ AbsRole' = [AbsRole EXCEPT ![n] = "Down"]
    BY <1>3 DEF JoinReceiver, AbsRole, TypeOK, Role, Abs!Roles
  <2>2. NoNewClaims
    BY <1>3, Silent DEF JoinReceiver
  <2>3. QED
    BY <2>1, <2>2, Lapse DEF Abs!Next, Abs!Leave, Abs!Become
<1>4. QED
  BY <1>1, <1>2, <1>3 DEF MainStep

LEMMA HbRefines ==
  ASSUME TypeOK, NEW n \in Node, HbStep(n)
  PROVE  Abs!Next
<1> USE DEF mainVars, hbVars, envVars
<1>1. AbsRole' = AbsRole
  BY DEF HbStep, HeartbeatDue, HeartbeatSkip, HeartbeatEnd, SendHeartbeat, AbsRole
<1>2. NoNewClaims
  <2>1. CASE HeartbeatDue(n)
    <3>1. n \in Claimants
      BY <2>1 DEF HeartbeatDue, Running, AbsRole, Claimants
    <3>2. \A d \in Node : hb'[d] = "send" => d \in Claimants
      BY <2>1, <3>1 DEF HeartbeatDue, TypeOK, Claimants
    <3>3. QED
      BY <2>1, <3>2 DEF HeartbeatDue, NoNewClaims, Claimants
  <2>2. CASE HeartbeatSkip(n)
    BY <2>2, Silent DEF HeartbeatSkip
  <2>3. CASE HeartbeatEnd(n)
    BY <2>3, Silent DEF HeartbeatEnd, TypeOK
  <2>4. CASE SendHeartbeat(n)
    <3>1. n \in Claimants
      BY <2>4 DEF SendHeartbeat, Claimants
    <3>2. \A d \in Node : hb'[d] = "send" => hb[d] = "send"
      BY <2>4 DEF SendHeartbeat, TypeOK
    <3>3. QED
      BY <2>4, <3>1, <3>2, SendsOther, Senders, SentMessages, InboxType
         DEF SendHeartbeat
  <2>5. QED
    BY <2>1, <2>2, <2>3, <2>4 DEF HbStep
<1>3. QED
  BY <1>1, <1>2, Lapse DEF Abs!Next, Abs!Forget

(* Reading m, n keeps its role or yields to a claimant that outranks it.   *)
LEMMA YieldRefines ==
  ASSUME TypeOK, Lifecycle, NEW n \in Node, NEW m \in Message,
         Reads(n, m, m.type), YieldOrStay(n, m), UNCHANGED <<main, hb>>
  PROVE  Abs!Next
<1>1. main[n] \in {"up", "joinHb", "joinRx"} /\ inbox[n][m] > 0
  BY DEF Reads, Lifecycle
<1>2. /\ Taken(n, m) \in Inboxes
      /\ \A d \in Node, o \in Message : Taken(n, m)[d][o] > 0 => inbox[d][o] > 0
  BY <1>1, TakenType, TakenOnly, InboxType
<1>3. CASE MustYield(n, m)
  <2>1. m.from \in Claimants /\ Abs!Superior(m.from, n)
    BY <1>1, <1>3, MessageSender DEF MustYield, Claimants, Superior, Abs!Superior
  <2>2. AbsRole[n] = "Primary" /\ AbsRole' = [AbsRole EXCEPT ![n] = "Standby"]
    BY <1>1, <1>3 DEF MustYield, YieldOrStay, AbsRole, TypeOK
  <2>3. NoNewClaims
    BY <1>2, <1>3, SendsOther, Senders, SentMessages DEF YieldOrStay
  <2>4. QED
    BY <2>1, <2>2, <2>3, Lapse DEF Abs!Next, Abs!Yield, Abs!Become
<1>4. CASE ~MustYield(n, m)
  <2>1. AbsRole' = AbsRole
    BY <1>4 DEF YieldOrStay, AbsRole
  <2>2. NoNewClaims
    BY <1>2, <1>4, Silent DEF YieldOrStay
  <2>3. QED
    BY <2>1, <2>2, Lapse DEF Abs!Next, Abs!Forget
<1>5. QED
  BY <1>3, <1>4

LEMMA RxRefines ==
  ASSUME TypeOK, Lifecycle, NEW n \in Node, RxStep(n)
  PROVE  Abs!Next
<1> USE DEF mainVars, hbVars, envVars
<1>1. ASSUME NEW m \in Message, ReceiveHeartbeat(n, m)
      PROVE  Abs!Next
  BY <1>1, YieldRefines DEF ReceiveHeartbeat, Reads
<1>2. ASSUME NEW m \in Message, ReceiveDeclaration(n, m)
      PROVE  Abs!Next
  BY <1>2, YieldRefines DEF ReceiveDeclaration, Reads
<1>3. ASSUME NEW m \in Message, ReceiveElection(n, m)
      PROVE  Abs!Next
  <2>1. AbsRole' = AbsRole
    BY <1>3 DEF ReceiveElection, AbsRole
  <2>2. main[n] \in {"up", "joinHb", "joinRx"} /\ inbox[n][m] > 0
    BY <1>3 DEF ReceiveElection, Reads, Lifecycle
  <2>3. /\ Taken(n, m) \in Inboxes
        /\ \A d \in Node, o \in Message : Taken(n, m)[d][o] > 0 => inbox[d][o] > 0
    BY <2>2, TakenType, TakenOnly, InboxType
  <2>4. CASE role[n] = "Primary"
    <3>1. n \in Claimants
      BY <2>2, <2>4 DEF AbsRole, Claimants
    <3>2. NoNewClaims
      BY <1>3, <2>3, <2>4, <3>1, SendsOther, Senders, SentMessages
         DEF ReceiveElection
    <3>3. QED
      BY <2>1, <3>2, Lapse DEF Abs!Next, Abs!Forget
  <2>5. CASE role[n] # "Primary"
    <3>1. NoNewClaims
      BY <1>3, <2>3, <2>5, Silent DEF ReceiveElection
    <3>2. QED
      BY <2>1, <3>1, Lapse DEF Abs!Next, Abs!Forget
  <2>6. QED
    BY <2>4, <2>5
<1>4. ASSUME NEW m \in Message, ReceiveForeign(n, m)
      PROVE  Abs!Next
  <2>1. AbsRole' = AbsRole
    BY <1>4 DEF ReceiveForeign, AbsRole
  <2>2. \A d \in Node, o \in Message : inbox'[d][o] > 0 => inbox[d][o] > 0
    BY <1>4, TakenOnly, InboxType DEF ReceiveForeign, Reads
  <2>3. NoNewClaims
    BY <1>4, <2>2, Silent DEF ReceiveForeign
  <2>4. QED
    BY <2>1, <2>3, Lapse DEF Abs!Next, Abs!Forget
<1>5. CASE TakeOver(n)
  <2>1. /\ AbsRole[n] = "Standby"
        /\ AbsRole' = [AbsRole EXCEPT ![n] = "Primary"]
        /\ AbsRole'[n] = "Primary"
    BY <1>5 DEF TakeOver, AbsRole, TypeOK, Lifecycle
  <2>2. \A d \in Node : hb'[d] = "send" => hb[d] = "send"
    BY <1>5 DEF TakeOver, SpawnHb, TypeOK
  <2>3. NoNewClaims
    BY <1>5, <2>1, <2>2, SendsOther, Senders, SentMessages, InboxType DEF TakeOver
  <2>4. QED
    BY <2>1, <2>3, Lapse DEF Abs!Next, Abs!TakeOver, Abs!Become
<1>6. CASE ReceiverEnds(n)
  <2>1. AbsRole' = AbsRole /\ NoNewClaims
    BY <1>6, Silent DEF ReceiverEnds, AbsRole
  <2>2. QED
    BY <2>1, Lapse DEF Abs!Next, Abs!Forget
<1>7. QED
  BY <1>1, <1>2, <1>3, <1>4, <1>5, <1>6 DEF RxStep

LEMMA OperatorRefines ==
  ASSUME TypeOK, Lifecycle, NEW n \in Node, Operator(n)
  PROVE  Abs!Next
<1> USE DEF mainVars, hbVars, envVars
<1>1. CASE Boot(n) \/ Stop(n)
  <2>1. AbsRole' = AbsRole
    BY <1>1 DEF Boot, Stop, AbsRole, TypeOK
  <2>2. NoNewClaims
    BY <1>1, Silent DEF Boot, Stop
  <2>3. QED
    BY <2>1, <2>2, Lapse DEF Abs!Next, Abs!Forget
<1>2. CASE StartAuto(n)
  <2>1. AbsRole[n] = "Down" /\ AbsRole' = [AbsRole EXCEPT ![n] = "Unknown"]
    BY <1>2 DEF StartAuto, AbsRole, TypeOK
  <2>2. NoNewClaims
    BY <1>2, SendsOther, Senders, SentMessages, InboxType DEF StartAuto
  <2>3. QED
    BY <2>1, <2>2, Lapse DEF Abs!Next, Abs!Join, Abs!Become
<1>3. ASSUME NEW r \in ForcedRoles, StartForced(n, r)
      PROVE  Abs!Next
  <2>1. r \in {"Primary", "Standby"}
    BY HeartbeatAssumption DEF HeartbeatAssumption
  <2>2. AbsRole[n] = "Down" /\ AbsRole' = [AbsRole EXCEPT ![n] = r]
    BY <1>3 DEF StartForced, ThreadsStart, AbsRole, TypeOK
  <2>3. NoNewClaims
    BY <1>3, Silent DEF StartForced, ThreadsStart, SpawnHb, TypeOK
  <2>4. QED
    BY <2>1, <2>2, <2>3, Lapse DEF Abs!Next, Abs!Join, Abs!Become
<1>4. QED
  BY <1>1, <1>2, <1>3 DEF Operator

LEMMA EnvironmentRefines ==
  ASSUME TypeOK, NEW n \in Node, Environment(n)
  PROVE  Abs!Next
<1> USE DEF mainVars, hbVars, envVars
<1>1. CASE BootWithoutSocket(n) \/ LinkFails(n) \/ LinkHeals(n)
  <2>1. AbsRole' = AbsRole
    BY <1>1 DEF BootWithoutSocket, LinkFails, LinkHeals, AbsRole, TypeOK
  <2>2. NoNewClaims
    BY <1>1, Silent DEF BootWithoutSocket, LinkFails, LinkHeals
  <2>3. QED
    BY <2>1, <2>2, Lapse DEF Abs!Next, Abs!Forget
<1>2. CASE Crash(n)
  <2>1. AbsRole[n] \in Abs!Roles /\ AbsRole' = [AbsRole EXCEPT ![n] = "Down"]
    BY <1>2 DEF Crash, AbsRole, TypeOK, Role, Abs!Roles
  <2>2. \A d \in Node, m \in Message : inbox'[d][m] > 0 => inbox[d][m] > 0
    BY <1>2 DEF Crash, NoMessage, TypeOK
  <2>3. NoNewClaims
    BY <1>2, <2>2, Silent DEF Crash, TypeOK
  <2>4. QED
    BY <2>1, <2>3, Lapse DEF Abs!Next, Abs!Leave, Abs!Become
<1>3. CASE ForeignDatagram(n)
  <2>1. AbsRole' = AbsRole
    BY <1>3 DEF ForeignDatagram, AbsRole
  <2>2. NoNewClaims
    BY <1>3, SendsOther, Senders, SentMessages, InboxType DEF ForeignDatagram
  <2>3. QED
    BY <2>1, <2>2, Lapse DEF Abs!Next, Abs!Forget
<1>4. QED
  BY <1>1, <1>2, <1>3 DEF Environment

(* Whatever crashes, stops, is lost, reordered or read late: the roles     *)
(* change only as PrimaryStandby allows.                                   *)
THEOREM HeartbeatRefinesPrimaryStandby == Spec => ImplementsPrimaryStandby
<1>1. Init => Lifecycle /\ Abs!Init
  <2>1. Init => Lifecycle /\ AbsRole = [n \in Node |-> "Down"]
    BY DEF Init, Lifecycle, AbsRole
  <2>2. ASSUME Init, NEW n \in Node
        PROVE  n \notin Claimants
    <3>1. hb[n] = "none" /\ AbsRole[n] = "Down"
      BY <2>2 DEF Init, AbsRole
    <3>2. ASSUME NEW d \in Node, NEW m \in Message
          PROVE  inbox[d][m] = 0
      BY <2>2 DEF Init, NoMessage
    <3>3. QED
      BY <3>1, <3>2 DEF Claimants
  <2>3. Claimants \subseteq Node
    BY DEF Claimants
  <2>4. QED
    BY <2>1, <2>2, <2>3 DEF Abs!Init
<1>2. TypeOK /\ Lifecycle /\ [Next]_vars => Lifecycle'
  <2>1. Lifecycle /\ UNCHANGED vars => Lifecycle'
    BY DEF vars, Lifecycle
  <2>2. QED
    BY <2>1, LifecycleStep
<1>3. TypeOK /\ Lifecycle /\ [Next]_vars => [Abs!Next]_(Abs!vars)
  <2>1. SUFFICES ASSUME TypeOK, Lifecycle, [Next]_vars
                 PROVE  [Abs!Next]_(Abs!vars)
    OBVIOUS
  <2>2. CASE Tick
    <3>1. AbsRole' = AbsRole /\ Claimants' = Claimants
      BY <2>2 DEF Tick, AbsRole, Claimants
    <3>2. QED
      BY <3>1 DEF Abs!vars
  <2>3. CASE UNCHANGED vars
    <3>1. AbsRole' = AbsRole /\ Claimants' = Claimants
      BY <2>3 DEF vars, AbsRole, Claimants
    <3>2. QED
      BY <3>1 DEF Abs!vars
  <2>4. QED
    BY <2>1, <2>2, <2>3, MainRefines, HbRefines, RxRefines, OperatorRefines,
       EnvironmentRefines DEF Next
<1>4. QED
  BY <1>1, <1>2, <1>3, TypeCorrect, PTL DEF Spec, ImplementsPrimaryStandby, Abs!Spec
=============================================================================
