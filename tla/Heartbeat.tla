------------------------------ MODULE Heartbeat ------------------------------
(***************************************************************************)
(* The primary/standby service of src/src/infrastructure/ha/: every node   *)
(* runs one HeartbeatService, and the services of all nodes talk over one  *)
(* UDP multicast group (looped back to the sender, as the sockets leave    *)
(* IP_MULTICAST_LOOP on).                                                  *)
(*                                                                         *)
(* A node has three threads.  main calls Start and Stop, hb is             *)
(* HeartbeatLoop, rx is ReceiveLoop followed by CheckAndSwitchRole.  Time  *)
(* is counted in seconds by Tick.                                          *)
(***************************************************************************)
EXTENDS Integers

CONSTANTS
  Node,               \* the nodes of the cluster
  Priority,           \* m_priority of each node
  Ip,                 \* m_localNodeId of each node, as the number it denotes
  HeartbeatInterval,  \* m_heartbeatInterval, seconds
  TimeoutThreshold,   \* m_timeoutThreshold, seconds
  ElectionWait,       \* seconds Start waits for answers (2 in the code)
  FreshWindow,        \* age below which Start trusts a heartbeat (5 in the code)
  ForcedRoles,        \* initial roles other than Unknown that Start is given
  Faults,             \* kinds of disturbance that occur: see FaultKinds
  MaxFaults,          \* bound on the number of disturbances
  MaxCopies,          \* bound on equal datagrams waiting in one socket
  Timely              \* TRUE when every thread runs within the second it is due

FaultKinds == {"crash", "link", "stop", "foreign", "socket"}

ASSUME HeartbeatAssumption ==
  /\ Priority \in [Node -> Int]
  /\ Ip \in [Node -> Nat]
  /\ HeartbeatInterval \in Nat \ {0}
  /\ TimeoutThreshold \in Nat
  /\ ElectionWait \in Nat
  /\ FreshWindow \in 0 .. TimeoutThreshold + 1
  /\ ForcedRoles \subseteq {"Primary", "Standby"}
  /\ Faults \subseteq FaultKinds
  /\ MaxFaults \in Nat
  /\ MaxCopies \in Nat \ {0}
  /\ Timely \in BOOLEAN

VARIABLES
  main,    \* where the thread that calls Start and Stop is
  wait,    \* seconds left of Start's wait
  role,    \* m_currentRole
  lastHb,  \* age in seconds of m_lastPrimaryHeartbeat
  hb,      \* heartbeat thread; "none" when not joinable, "done" when it has ended
  hbWait,  \* seconds the heartbeat thread still sleeps
  rx,      \* receive thread; "none" when not joinable, "done" when it has ended
  inbox,   \* how many of each datagram wait in a node's socket
  link,    \* link[n]: datagrams of n reach the other nodes
  faults   \* number of disturbances so far

mainVars == <<main, wait>>
hbVars   == <<hb, hbWait>>
envVars  == <<link, faults>>
vars == <<main, wait, role, lastHb, hb, hbWait, rx, inbox, link, faults>>

-----------------------------------------------------------------------------
(* Ages are saturated: past the timeout they cannot be told apart, except  *)
(* for the initial time_point{}, which is Never.                           *)
Expired == TimeoutThreshold + 1
Never   == TimeoutThreshold + 2

Role == {"Unknown", "Primary", "Standby"}

Election(n)       == [type |-> "election", role |-> "Unknown", from |-> n]
Beat(n)           == [type |-> "heartbeat", role |-> "Primary", from |-> n]
Declaration(n, r) == [type |-> "declaration", role |-> r, from |-> n]
Foreign(n)        == [type |-> "foreign", role |-> "Unknown", from |-> n]

Message ==
  {Election(n) : n \in Node} \cup {Beat(n) : n \in Node} \cup {Foreign(n) : n \in Node}
    \cup {Declaration(n, r) : n \in Node, r \in {"Primary", "Standby"}}

NoMessage == [m \in Message |-> 0]

(* The types of the state: waits, ages and sockets stay within their       *)
(* bounds, and every thread is in a state its loop has.                    *)
TypeOK ==
  /\ main \in [Node -> {"down", "noSocket", "idle", "electing", "up",
                        "joinHb", "joinRx"}]
  /\ wait \in [Node -> 0 .. ElectionWait]
  /\ role \in [Node -> Role]
  /\ lastHb \in [Node -> 0 .. Never]
  /\ hb \in [Node -> {"none", "sleep", "send", "done"}]
  /\ hbWait \in [Node -> 0 .. HeartbeatInterval]
  /\ rx \in [Node -> {"none", "wait", "check", "done"}]
  /\ inbox \in [Node -> [Message -> 0 .. MaxCopies]]
  /\ link \in [Node -> BOOLEAN]
  /\ faults \in 0 .. MaxFaults

RunningUntilJoined(n) == main[n] \in {"electing", "up", "joinHb", "joinRx"}

(* m_running, which Start sets first and Stop clears first.                *)
Running(n) == main[n] \in {"electing", "up"}

(* The socket is bound and joined to the group by the constructor, and     *)
(* stays open until the process ends.                                      *)
Listening(n) == main[n] \notin {"down", "noSocket"}

(* ShouldYieldToOtherPrimary and CompareNodeId: m outranks n.              *)
Superior(m, n) ==
  \/ Priority[m] > Priority[n]
  \/ Priority[m] = Priority[n] /\ Ip[m] < Ip[n]

(* A datagram claims that its sender is Primary.                           *)
ClaimsPrimary(m) == m.type \in {"heartbeat", "declaration"} /\ m.role = "Primary"

YieldToAnyPrimary(n, m) ==
  ClaimsPrimary(m) /\ role[n] = "Primary" /\ Ip[m.from] # Ip[n]

YieldToDeclarations(n, m) ==
  m.type = "declaration" /\ YieldToAnyPrimary(n, m) /\ Superior(m.from, n)

(* The claim in m makes node n step down.                                  *)
MustYield(n, m) ==
  /\ ClaimsPrimary(m)
  /\ role[n] = "Primary"
  /\ Ip[m.from] # Ip[n]
  /\ Superior(m.from, n)

TimedOutIfHeard(n)  == lastHb[n] # Never /\ lastHb[n] > TimeoutThreshold
TimedOutIfNever(n)  == lastHb[n] = Never
TimedOutInterval(n) == lastHb[n] = Never \/ lastHb[n] >= HeartbeatInterval

TimedOut(n) == lastHb[n] = Never \/ lastHb[n] > TimeoutThreshold

(* Node d may act on datagram m.  A declaration of a Standby, or under d's *)
(* own address, only makes its loop go round, which TakeOver allows at any *)
(* time: it is not kept.                                                   *)
ActsOn(d, m) ==
  m.type = "declaration" => m.role = "Primary" /\ Ip[m.from] # Ip[d]

(* box with m sent to the group by n; a full socket drops the datagram.    *)
Sent(box, n, m) ==
  [d \in Node |->
     IF /\ Listening(d) /\ ActsOn(d, m)
        /\ d = n \/ link[n]
        /\ box[d][m] < MaxCopies
       THEN [box[d] EXCEPT ![m] = @ + 1]
       ELSE box[d]]

Taken(n, m) == [inbox EXCEPT ![n][m] = @ - 1]

(* Where the receive thread goes at the top of its loop.                   *)
LoopTop(n) == IF Running(n) THEN "wait" ELSE "done"

SpawnHbNever(n) == n \in Node /\ UNCHANGED hbVars

(* A heartbeat thread is created unless one is joinable.                   *)
SpawnHb(n) ==
  /\ hb' = [hb EXCEPT ![n] = IF @ = "none" THEN "sleep" ELSE @]
  /\ hbWait' = [hbWait EXCEPT ![n] = IF hb[n] = "none" THEN 0 ELSE @]

-----------------------------------------------------------------------------
(* The process starts: the constructor binds the socket, or fails to.      *)
Boot(n) ==
  /\ main[n] = "down"
  /\ main' = [main EXCEPT ![n] = "idle"]
  /\ UNCHANGED <<wait, role, lastHb, hbVars, rx, inbox, envVars>>

BootWithoutSocket(n) ==
  /\ main[n] = "down"
  /\ "socket" \in Faults /\ faults < MaxFaults
  /\ faults' = faults + 1
  /\ main' = [main EXCEPT ![n] = "noSocket"]
  /\ UNCHANGED <<wait, role, lastHb, hbVars, rx, inbox, link>>

(* Start(Unknown): announce an election and wait.  Without a socket Start  *)
(* returns at once, and while m_running it does nothing.                   *)
StartAuto(n) ==
  /\ main[n] = "idle"
  /\ main' = [main EXCEPT ![n] = "electing"]
  /\ wait' = [wait EXCEPT ![n] = ElectionWait]
  /\ role' = [role EXCEPT ![n] = "Unknown"]
  /\ inbox' = Sent(inbox, n, Election(n))
  /\ UNCHANGED <<lastHb, hbVars, rx, envVars>>

(* The end of Start: create the receive thread, and the heartbeat thread   *)
(* of a Primary unless SwitchToPrimary has created it.                     *)
ThreadsStart(n, r) ==
  /\ main' = [main EXCEPT ![n] = "up"]
  /\ role' = [role EXCEPT ![n] = r]
  /\ rx' = [rx EXCEPT ![n] = "wait"]
  /\ IF r = "Primary" THEN SpawnHb(n) ELSE UNCHANGED hbVars

StartForced(n, r) ==
  /\ main[n] = "idle"
  /\ ThreadsStart(n, r)
  /\ UNCHANGED <<wait, lastHb, inbox, envVars>>

(* The wait is over: Start decides on the age of the last heartbeat, which *)
(* nobody has been receiving since StartAuto.                              *)
Elected(n) ==
  IF lastHb[n] # Never /\ lastHb[n] < FreshWindow THEN "Standby" ELSE "Primary"

Decide(n) ==
  /\ main[n] = "electing" /\ wait[n] = 0
  /\ ThreadsStart(n, Elected(n))
  /\ inbox' = Sent(inbox, n, Declaration(n, Elected(n)))
  /\ UNCHANGED <<wait, lastHb, envVars>>

-----------------------------------------------------------------------------
(* Stop: clear m_running, join the heartbeat thread, join the receive      *)
(* thread.  Role and age of the last heartbeat are kept.                   *)
Stop(n) ==
  /\ main[n] = "up"
  /\ "stop" \in Faults /\ faults < MaxFaults
  /\ faults' = faults + 1
  /\ main' = [main EXCEPT ![n] = "joinHb"]
  /\ UNCHANGED <<wait, role, lastHb, hbVars, rx, inbox, link>>

JoinHeartbeat(n) ==
  /\ main[n] = "joinHb" /\ hb[n] \in {"none", "done"}
  /\ main' = [main EXCEPT ![n] = "joinRx"]
  /\ hb' = [hb EXCEPT ![n] = "none"]
  /\ UNCHANGED <<wait, role, lastHb, hbWait, rx, inbox, envVars>>

JoinReceiver(n) ==
  /\ main[n] = "joinRx" /\ rx[n] = "done"
  /\ main' = [main EXCEPT ![n] = "idle"]
  /\ rx' = [rx EXCEPT ![n] = "none"]
  /\ UNCHANGED <<wait, role, lastHb, hbVars, inbox, envVars>>

-----------------------------------------------------------------------------
(* HeartbeatLoop at the top of its loop, awake.                            *)
HeartbeatAwake(n) == hb[n] = "sleep" /\ (hbWait[n] = 0 \/ ~Running(n))

HeartbeatDue(n) ==
  /\ HeartbeatAwake(n)
  /\ Running(n) /\ role[n] = "Primary"
  /\ hb' = [hb EXCEPT ![n] = "send"]
  /\ UNCHANGED <<mainVars, role, lastHb, hbWait, rx, inbox, envVars>>

(* A node that is no longer Primary keeps its heartbeat thread, idling.    *)
HeartbeatSkip(n) ==
  /\ HeartbeatAwake(n)
  /\ Running(n) /\ role[n] # "Primary"
  /\ hbWait' = [hbWait EXCEPT ![n] = HeartbeatInterval]
  /\ UNCHANGED <<mainVars, role, lastHb, hb, rx, inbox, envVars>>

HeartbeatEnd(n) ==
  /\ HeartbeatAwake(n)
  /\ ~Running(n)
  /\ hb' = [hb EXCEPT ![n] = "done"]
  /\ hbWait' = [hbWait EXCEPT ![n] = 0]
  /\ UNCHANGED <<mainVars, role, lastHb, rx, inbox, envVars>>

(* SendHeartbeat after its own check of the role: the role may have        *)
(* changed since, and the message says Primary all the same.               *)
SendHeartbeat(n) ==
  /\ hb[n] = "send"
  /\ hb' = [hb EXCEPT ![n] = "sleep"]
  /\ hbWait' = [hbWait EXCEPT ![n] = HeartbeatInterval]
  /\ inbox' = Sent(inbox, n, Beat(n))
  /\ UNCHANGED <<mainVars, role, lastHb, rx, envVars>>

-----------------------------------------------------------------------------
(* ReceiveLoop reads datagram m.  Datagrams are read in any order.         *)
Reads(n, m, type) ==
  /\ rx[n] = "wait"
  /\ m.type = type
  /\ inbox[n][m] > 0

(* The rest of an iteration: CheckAndSwitchRole is a step of its own when  *)
(* it has a role to switch, else the loop is back at its top.              *)
GoOn(n) ==
  rx' = [rx EXCEPT ![n] = IF role'[n] = "Standby" /\ TimedOut(n)'
                            THEN "check" ELSE LoopTop(n)]

(* Reading m makes n a Standby, which it declares, or leaves its role.     *)
YieldOrStay(n, m) ==
  IF MustYield(n, m)
    THEN /\ role' = [role EXCEPT ![n] = "Standby"]
         /\ inbox' = Sent(Taken(n, m), n, Declaration(n, "Standby"))
    ELSE /\ inbox' = Taken(n, m)
         /\ UNCHANGED role

(* Every heartbeat renews the age, the node's own looped-back one too.     *)
ReceiveHeartbeat(n, m) ==
  /\ Reads(n, m, "heartbeat")
  /\ lastHb' = [lastHb EXCEPT ![n] = 0]
  /\ YieldOrStay(n, m)
  /\ GoOn(n)
  /\ UNCHANGED <<mainVars, hbVars, envVars>>

(* A Primary answers every announcement, its own too, with a declaration.  *)
ReceiveElection(n, m) ==
  /\ Reads(n, m, "election")
  /\ inbox' = IF role[n] = "Primary"
                THEN Sent(Taken(n, m), n, Declaration(n, "Primary"))
                ELSE Taken(n, m)
  /\ UNCHANGED <<mainVars, role, lastHb, hbVars, envVars>>
  /\ GoOn(n)

(* A declaration can make a Primary yield but does not renew the age.      *)
ReceiveDeclaration(n, m) ==
  /\ Reads(n, m, "declaration")
  /\ YieldOrStay(n, m)
  /\ UNCHANGED <<mainVars, lastHb, hbVars, envVars>>
  /\ GoOn(n)

(* A datagram without the magic number: the loop continues, without        *)
(* CheckAndSwitchRole.                                                     *)
ReceiveForeign(n, m) ==
  /\ Reads(n, m, "foreign")
  /\ inbox' = Taken(n, m)
  /\ rx' = [rx EXCEPT ![n] = LoopTop(n)]
  /\ UNCHANGED <<mainVars, role, lastHb, hbVars, envVars>>

(* CheckAndSwitchRole switches a Standby to Primary, at the end of an      *)
(* iteration that read a datagram or in which recvfrom timed out.          *)
TakeOver(n) ==
  /\ rx[n] \in {"wait", "check"}
  /\ role[n] = "Standby" /\ TimedOut(n)
  /\ role' = [role EXCEPT ![n] = "Primary"]
  /\ inbox' = Sent(inbox, n, Declaration(n, "Primary"))
  /\ SpawnHb(n)
  /\ rx' = [rx EXCEPT ![n] = LoopTop(n)]
  /\ UNCHANGED <<mainVars, lastHb, envVars>>

(* recvfrom timed out after Stop, and the loop ends.                       *)
ReceiverEnds(n) ==
  /\ rx[n] = "wait" /\ ~Running(n)
  /\ rx' = [rx EXCEPT ![n] = "done"]
  /\ UNCHANGED <<mainVars, role, lastHb, hbVars, inbox, envVars>>

-----------------------------------------------------------------------------
(* The environment: the process dies at any point, a link loses what n     *)
(* sends until it heals, another program sends to the group.               *)
Crash(n) ==
  /\ main[n] # "down"
  /\ "crash" \in Faults /\ faults < MaxFaults
  /\ faults' = faults + 1
  /\ main' = [main EXCEPT ![n] = "down"]
  /\ wait' = [wait EXCEPT ![n] = 0]
  /\ role' = [role EXCEPT ![n] = "Unknown"]
  /\ lastHb' = [lastHb EXCEPT ![n] = Never]
  /\ hb' = [hb EXCEPT ![n] = "none"]
  /\ hbWait' = [hbWait EXCEPT ![n] = 0]
  /\ rx' = [rx EXCEPT ![n] = "none"]
  /\ inbox' = [inbox EXCEPT ![n] = NoMessage]
  /\ UNCHANGED link

LinkFails(n) ==
  /\ link[n]
  /\ "link" \in Faults /\ faults < MaxFaults
  /\ faults' = faults + 1
  /\ link' = [link EXCEPT ![n] = FALSE]
  /\ UNCHANGED <<mainVars, role, lastHb, hbVars, rx, inbox>>

LinkHeals(n) ==
  /\ ~link[n]
  /\ link' = [link EXCEPT ![n] = TRUE]
  /\ UNCHANGED <<mainVars, role, lastHb, hbVars, rx, inbox, faults>>

ForeignDatagram(n) ==
  /\ "foreign" \in Faults /\ faults < MaxFaults
  /\ faults' = faults + 1
  /\ inbox' = Sent(inbox, n, Foreign(n))
  /\ UNCHANGED <<mainVars, role, lastHb, hbVars, rx, link>>

(* Nothing that is due within this second is left to do on node n.         *)
Settled(n) ==
  /\ ~(main[n] = "electing" /\ wait[n] = 0)
  /\ ~(main[n] = "joinHb" /\ hb[n] \in {"none", "done"})
  /\ ~(main[n] = "joinRx" /\ rx[n] = "done")
  /\ hb[n] # "send" /\ ~HeartbeatAwake(n)
  /\ rx[n] # "check"
  /\ rx[n] = "wait" => /\ Running(n)
                       /\ inbox[n] = NoMessage
                       /\ ~(role[n] = "Standby" /\ TimedOut(n))

Minus1Unguarded(k) == k - 1

Minus1(k) == IF k > 0 THEN k - 1 ELSE 0

(* One second passes.                                                      *)
Tick ==
  /\ Timely => \A n \in Node : Settled(n)
  /\ wait' = [n \in Node |-> Minus1(wait[n])]
  /\ lastHb' = [n \in Node |-> IF lastHb[n] < Expired THEN lastHb[n] + 1 ELSE lastHb[n]]
  /\ hbWait' = [n \in Node |-> Minus1(hbWait[n])]
  /\ UNCHANGED <<main, role, hb, rx, inbox, envVars>>

-----------------------------------------------------------------------------
Init ==
  /\ main = [n \in Node |-> "down"]
  /\ wait = [n \in Node |-> 0]
  /\ role = [n \in Node |-> "Unknown"]
  /\ lastHb = [n \in Node |-> Never]
  /\ hb = [n \in Node |-> "none"]
  /\ hbWait = [n \in Node |-> 0]
  /\ rx = [n \in Node |-> "none"]
  /\ inbox = [n \in Node |-> NoMessage]
  /\ link = [n \in Node |-> TRUE]
  /\ faults = 0

MainStep(n) ==
  \/ Decide(n)
  \/ JoinHeartbeat(n)
  \/ JoinReceiver(n)

HbStep(n) ==
  \/ HeartbeatDue(n)
  \/ HeartbeatSkip(n)
  \/ HeartbeatEnd(n)
  \/ SendHeartbeat(n)

RxStep(n) ==
  \/ \E m \in Message : \/ ReceiveHeartbeat(n, m)
                        \/ ReceiveElection(n, m)
                        \/ ReceiveDeclaration(n, m)
                        \/ ReceiveForeign(n, m)
  \/ TakeOver(n)
  \/ ReceiverEnds(n)

Operator(n) ==
  \/ Boot(n)
  \/ StartAuto(n)
  \/ \E r \in ForcedRoles : StartForced(n, r)
  \/ Stop(n)

Environment(n) ==
  \/ BootWithoutSocket(n)
  \/ Crash(n)
  \/ LinkFails(n)
  \/ LinkHeals(n)
  \/ ForeignDatagram(n)

Next ==
  \/ \E n \in Node : \/ MainStep(n)
                     \/ HbStep(n)
                     \/ RxStep(n)
                     \/ Operator(n)
                     \/ Environment(n)
  \/ Tick

Spec == Init /\ [][Next]_vars

(* The operating system runs every thread that can run, and time passes.   *)
(* Nothing obliges an operator to act or a link to fail or heal.           *)
Fairness ==
  /\ \A n \in Node : WF_vars(MainStep(n)) /\ WF_vars(HbStep(n)) /\ WF_vars(RxStep(n))
  /\ WF_vars(Tick)

FairSpec == Spec /\ Fairness

-----------------------------------------------------------------------------
(* The refinement mapping.  A node whose service does not run is Down, and *)
(* a claim is outstanding while its node is Primary, is about to send the  *)
(* heartbeat it decided on as Primary, or has a claim waiting in a socket. *)
AbsRole == [n \in Node |-> IF main[n] \in {"down", "noSocket", "idle"}
                             THEN "Down" ELSE role[n]]

Claimants ==
  {n \in Node :
     \/ AbsRole[n] = "Primary"
     \/ hb[n] = "send"
     \/ \E d \in Node, m \in Message :
          inbox[d][m] > 0 /\ ClaimsPrimary(m) /\ m.from = n}

Abs == INSTANCE PrimaryStandby WITH role <- AbsRole, claims <- Claimants

(* The roles change only as PrimaryStandby allows: whatever is lost,       *)
(* delayed, reordered or crashes, a Primary steps down only for a node     *)
(* that outranks it and that really was Primary (ReceiveLoop and           *)
(* ShouldYieldToOtherPrimary).                                             *)
ImplementsPrimaryStandby == Abs!Spec

-----------------------------------------------------------------------------
(* Properties.                                                             *)

Top(n) == \A m \in Node : ~Superior(m, n)

(* The node nobody outranks is Primary whenever it is past Start's wait    *)
(* (HA_DESIGN.md 7.1: the node of the higher priority always becomes       *)
(* Primary), so two nodes never step down for each other.                  *)
TopServes ==
  \A n \in Node :
    Top(n) /\ main[n] = "up" => role[n] = "Primary"

(* A Primary that has started has a live heartbeat thread (the joinable()  *)
(* tests of lines 176 and 328): a Primary nobody hears lets its Standby    *)
(* take over and never makes the other one step down.                      *)
PrimaryBeats ==
  \A n \in Node :
    main[n] = "up" /\ role[n] = "Primary" => hb[n] \in {"sleep", "send"}

(* A node is Standby in steady state only when it has heard a Primary and  *)
(* may therefore measure its silence: outside an iteration of ReceiveLoop  *)
(* no Standby waits on the initial time_point (lines 302-309).             *)
StandbyHasHeard ==
  \A n \in Node :
    rx[n] = "wait" /\ main[n] = "up" /\ role[n] = "Standby" => lastHb[n] # Never

NoneHasDied == faults = 0 \/ Faults \cap {"crash", "stop"} = {}

(* As long as no node crashes or is stopped, whoever has been Primary (it  *)
(* has a heartbeat thread) is Primary or has left the role to a Primary    *)
(* that outranks it: links may fail and claims may be stale, but no        *)
(* handover leaves the cluster without a Primary, even for a moment        *)
(* (ShouldYieldToOtherPrimary; HA_DESIGN.md 1.2 and 7.1, item 2).          *)
ServiceContinues ==
  NoneHasDied =>
    \A q \in Node : hb[q] # "none" =>
      \E p \in Node : role[p] = "Primary" /\ (p = q \/ Superior(p, q))

(* Until a fault occurs, a Standby that has heard a Primary never takes    *)
(* over: the three heartbeat intervals of the timeout are enough for the   *)
(* delays of the loops (HeartbeatLoop against CheckAndSwitchRole).         *)
NoFalseFailover ==
  [][\A n \in Node :
       faults' = 0 /\ role[n] = "Standby" /\ lastHb[n] # Never
         => role'[n] # "Primary"]_vars

(* A node that ends Start's wait while another node, whose datagrams reach *)
(* it, has been Primary becomes Standby (HA_DESIGN.md 5.2.1 and 6.2).      *)
LateStarterStandsBy ==
  [][\A n, p \in Node :
       main[n] = "electing" /\ main'[n] = "up" /\ p # n /\ inbox[n][Beat(p)] > 0
         => role'[n] = "Standby"]_vars

OnlyPrimary(p) == \A n \in Node : role[n] = IF n = p THEN "Primary" ELSE "Standby"

(* Once all nodes run and all links stay up, the node of the highest rank  *)
(* is the only Primary for good (HA_DESIGN.md 7.1, items 1 and 4).         *)
Converges ==
  <>[](\A n \in Node : main[n] = "up" /\ link[n])
    => <>[](\E p \in Node : Top(p) /\ OnlyPrimary(p))

(* A node that stays up alone becomes and stays Primary.                   *)
Failover ==
  \A n \in Node :
    <>[](main[n] = "up" /\ \A m \in Node \ {n} : main[m] = "down")
      => <>[](role[n] = "Primary")

(* Stop returns: neither thread it joins can wait for the other.           *)
StopReturns == \A n \in Node : main[n] = "joinHb" ~> main[n] \in {"idle", "down"}

=============================================================================
