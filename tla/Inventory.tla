------------------------------ MODULE Inventory -------------------------------
(***************************************************************************)
(* What a node knows of the boards of a chassis and of the business        *)
(* stacks, and the three threads that write it: the DataCollectorService,  *)
(* which polls the platform, the AlertReceiverServer, to which the         *)
(* platform reports, and the BmcReceiver, which hears from the chassis     *)
(* which boards are plugged in.  The repositories have a mutex each, but   *)
(* they hand out pointers to their boards, through which the collector and *)
(* the alert server read and write without it.                             *)
(*                                                                         *)
(* Chassis do not influence each other, so there is one.  A stack has one  *)
(* task, and that on the board Home[t].                                    *)
(***************************************************************************)
EXTENDS Integers, FiniteSets, Sequences

CONSTANTS
  Slots,           \* slots of the chassis, 1 .. 14 in the code
  Home,            \* the slot on which the task of a stack runs, by stack
  Reports,         \* what the platform says of a board: 0 .. 3 or 4 (omitted)
  Timeout,         \* board timeout, in collection intervals (60 s and 10 s)
  Handlers,        \* threads of the HTTP server
  Alerts,          \* batches of alerts that the platform may send
  MaxDisturbances  \* bound on changes, alerts, failures and delays

Omitted == 4

ASSUME InventoryAssumption ==
  /\ Slots \subseteq 1 .. 14
  /\ Reports \subseteq (0 .. 3) \cup {Omitted}
  /\ 0 \in Reports
  /\ Timeout \in Nat \ {0}
  /\ MaxDisturbances \in Nat

Stacks   == DOMAIN Home
Switches == {6, 7}
Status   == {"Unknown", "Normal", "Abnormal", "Offline"}

(* The slots that a datagram of the chassis has an entry for.              *)
Reported == {1, 2, 3, 4, 6, 7, 9, 10, 11, 12} \cap Slots

(* Addresses are numbered like the slots whose boards have them at first;  *)
(* 0 is the empty one, of a board for which the platform gives none.       *)
Addresses == Slots \cup {0}

(* An alert names a board by its address (0: not given; 15: one that no    *)
(* board has) and by its slot (0: not given; 15: one that no chassis has); *)
(* "damaged" stands for one in which a field has a type that the parser    *)
(* refuses.                                                                *)
Alert == [form : {"whole", "damaged"}, address : Addresses \cup {15},
          slot : Slots \cup {0, 15}, status : 0 .. 3]

ASSUME AlertAssumption ==
  Home \in [Stacks -> Slots] /\ Alerts \subseteq Seq(Alert) \ {<<>>}

VARIABLES
  boards,     \* the boards in the chassis repository, by slot
  stacks,     \* the stacks in the stack repository
  report,     \* the platform: what it says of the board in a slot,
  location,   \*   the address it gives for it,
  deployed,   \*   and how the task of a stack is doing, if it has the stack
  plugged,    \* the chassis: whether a board is in a slot
  disturbed,  \* number of disturbances so far
  phase,      \* collector: what it does next,
  listing,    \*   the boards of the answer that are still to be stored,
  checking,   \*   the board whose timeout it checks,
  answer,     \*   and the stacks of the answer that are still to be stored
  alert,      \* alert server: the alerts at hand and the board found, by thread
  bmc         \* BMC receiver: what it is about to write, with the mutex held

store     == <<boards, stacks>>
world     == <<report, location, deployed, plugged>>
collector == <<phase, listing, checking, answer>>
vars == <<store, world, disturbed, collector, alert, bmc>>

-----------------------------------------------------------------------------
Tasks == {"none", "running", "failed"}
Board == [status : Status, age : 0 .. Timeout, number : Slots,
          address : Addresses, tasks : [Stacks -> Tasks]]
Entry == [status : 0 .. 3, address : Addresses, tasks : [Stacks -> Tasks]]
Phases == {"sleep", "boards", "fields", "tasks", "stacks", "clear", "save",
           "check", "mark", "copy"}

Empty    == [s \in {} |-> 0]
Nothing  == [slot |-> 0, number |-> 0, expired |-> FALSE]
NoAlert  == [phase |-> "idle", batch |-> <<>>, found |-> 0]
NoUpdate == [slot |-> 0, status |-> "Unknown"]

(* The types of the state.  Above all, an entry of the platform that is    *)
(* about to be stored has a board to go to, and no board is older than the *)
(* timeout can tell.                                                       *)
TypeOK ==
  /\ boards \in [Slots -> Board]
  /\ stacks \subseteq Stacks
  /\ report \in [Slots -> Reports]
  /\ location \in [Slots -> Addresses]
  /\ deployed \in [Stacks -> Tasks]
  /\ plugged \in [Slots -> BOOLEAN]
  /\ disturbed \in 0 .. MaxDisturbances
  /\ phase \in Phases
  /\ DOMAIN listing \subseteq Slots /\ listing \in [DOMAIN listing -> Entry]
  /\ phase \in {"fields", "tasks"} => listing # Empty
  /\ checking \in [slot : Slots \cup {0}, number : Slots \cup {0}, expired : BOOLEAN]
  /\ phase \in {"check", "mark", "copy"} => checking.slot \in Slots
  /\ answer \subseteq Stacks
  /\ alert \in [Handlers -> [phase : {"idle", "find", "update", "copy"},
                             batch : Seq(Alert), found : Slots \cup {0}]]
  /\ \A h \in Handlers :
       /\ alert[h].phase # "idle" => alert[h].batch # <<>>
       /\ alert[h].phase \in {"update", "copy"} => alert[h].found \in Slots
  /\ bmc \in [slot : Slots, status : Status] \cup {NoUpdate}

-----------------------------------------------------------------------------
(* Boards (board.h) and the chassis repository.                            *)

IsFirst(s, S) == s \in S /\ \A t \in S : s <= t

(* UpdateStatus with the number of the platform.                           *)
FromApi(n) ==
  CASE n = 0 -> "Normal" [] n = 2 -> "Offline" [] OTHER -> "Abnormal"

UpdateStatus(b, st) == [b EXCEPT !.status = st, !.age = 0]

(* Variant of UpdateFields: the number moves along with the address.       *)
UpdateFieldsAndNumber(b, e) ==
  [UpdateStatus(b, FromApi(e.status)) EXCEPT !.address = e.address, !.number = e.address]

(* UpdateFromApiData leaves the number alone; the tasks come last.         *)
UpdateFields(b, e) ==
  [UpdateStatus(b, FromApi(e.status)) EXCEPT !.address = e.address]
UpdateTasks(b, e) == [b EXCEPT !.tasks = e.tasks, !.age = 0]

UpdateBoardUnchecked(bs, slot, b) ==
  [s \in Slots \cup {slot} |-> IF s = slot THEN b ELSE bs[s]]

(* UpdateBoard: a board is copied into a slot, if the chassis has it.      *)
UpdateBoard(bs, slot, b) ==
  IF slot \in Slots THEN [bs EXCEPT ![slot] = b] ELSE bs

(* GetBoardByAddress, then GetBoardBySlot.  An alert without an address    *)
(* has the empty one, by which it finds the first board that has none.     *)
Found(a) ==
  LET byAddress == {s \in Slots : boards[s].address = a.address}
  IN IF byAddress # {} THEN {s \in byAddress : IsFirst(s, byAddress)}
     ELSE {a.slot} \cap Slots

(* Variants of PresenceUpdate: only switch boards come back, and only a    *)
(* normal board is seen to go.                                             *)
PresenceOfSwitches(s) ==
  LET st == boards[s].status
  IN CASE ~plugged[s] /\ st # "Offline" -> "Offline"
       [] plugged[s] /\ st = "Offline" /\ s \in Switches -> "Normal"
       [] OTHER -> "none"
PresenceIfNormal(s) ==
  LET st == boards[s].status
  IN CASE ~plugged[s] /\ st = "Normal" -> "Offline"
       [] plugged[s] /\ st = "Offline" ->
            IF s \in Switches THEN "Normal" ELSE "Abnormal"
       [] OTHER -> "none"

(* UpdateAllBoardsStatus, for one slot: what is to be written there.       *)
PresenceUpdate(s) ==
  LET st == boards[s].status
  IN CASE ~plugged[s] /\ st # "Offline" -> "Offline"
       [] plugged[s] /\ st = "Offline"  ->
            IF s \in Switches THEN "Normal" ELSE "Abnormal"
       [] OTHER -> "none"

-----------------------------------------------------------------------------
(* The world around the node.                                              *)

Disturb ==
  /\ disturbed < MaxDisturbances
  /\ disturbed' = disturbed + 1

Calm == UNCHANGED disturbed

(* A board is pulled out or put in.                                        *)
Plug(s) ==
  /\ Disturb
  /\ plugged' = [plugged EXCEPT ![s] = ~@]
  /\ UNCHANGED <<store, report, location, deployed, collector, alert, bmc>>

(* The platform changes its mind on a board,                               *)
Judge(s) ==
  /\ Disturb
  /\ \E r \in Reports \ {report[s]} : report' = [report EXCEPT ![s] = r]
  /\ UNCHANGED <<store, location, deployed, plugged, collector, alert, bmc>>

(* two boards swap their addresses, or one gets another one or none,       *)
Readdress ==
  /\ Disturb
  /\ \/ \E s, t \in Slots :
          s < t /\ location' = [location EXCEPT ![s] = location[t], ![t] = location[s]]
     \/ \E s \in Slots, a \in {0} \cup (Slots \ {location[t] : t \in Slots}) :
          location' = [location EXCEPT ![s] = a]
  /\ UNCHANGED <<store, report, deployed, plugged, collector, alert, bmc>>

(* and a stack is deployed or removed, or its task fails.                  *)
Deploy(t) ==
  /\ Disturb
  /\ \E d \in Tasks \ {deployed[t]} : deployed' = [deployed EXCEPT ![t] = d]
  /\ UNCHANGED <<store, report, location, plugged, collector, alert, bmc>>

OneOlder(age) == IF age < Timeout THEN age + 1 ELSE age

Older(bs) == [s \in Slots |-> [bs[s] EXCEPT !.age = OneOlder(@)]]

(* A call takes long: as much time passes as between two collections.      *)
Delay ==
  /\ Disturb
  /\ boards' = Older(boards)
  /\ UNCHANGED <<stacks, world, collector, alert, bmc>>

-----------------------------------------------------------------------------
(* DataCollectorService.                                                   *)

Proceed(to) == phase' = to /\ UNCHANGED <<listing, checking, answer>>

(* sleep_for, after which the next collection starts.                      *)
Wake ==
  /\ phase = "sleep"
  /\ boards' = Older(boards)
  /\ Proceed("boards")
  /\ Calm
  /\ UNCHANGED <<stacks, world, alert, bmc>>

Listed == {s \in Slots : report[s] # Omitted}
EntryOf(s) == [status |-> report[s], address |-> location[s],
               tasks |-> [t \in Stacks |-> IF Home[t] = s THEN deployed[t] ELSE "none"]]

(* GetBoardInfo: all boards that the platform lists; the first ones, if    *)
(* the answer is damaged; or none, if it does not come.                    *)
GetBoardInfo ==
  /\ phase = "boards"
  /\ \E k \in {15} \cup Slots :
       LET got == {s \in Listed : s < k}
       IN /\ IF got = Listed THEN Calm ELSE Disturb
          /\ listing' = [s \in got |-> EntryOf(s)]
          /\ phase' = IF got = {} THEN "stacks" ELSE "fields"
  /\ UNCHANGED <<store, world, checking, answer, alert, bmc>>

(* UpdateFromApiData on the board itself: name, address, status, ...       *)
ApplyFields(s) ==
  /\ phase = "fields"
  /\ IsFirst(s, DOMAIN listing)
  /\ boards' = [boards EXCEPT ![s] = UpdateFields(@, listing[s])]
  /\ Proceed("tasks")
  /\ Calm
  /\ UNCHANGED <<stacks, world, alert, bmc>>

(* ... and the tasks.  The UpdateBoard that follows copies the board to    *)
(* itself.                                                                 *)
ApplyTasks(s) ==
  /\ phase = "tasks"
  /\ IsFirst(s, DOMAIN listing)
  /\ boards' = [boards EXCEPT ![s] = UpdateTasks(@, listing[s])]
  /\ listing' = [t \in DOMAIN listing \ {s} |-> listing[t]]
  /\ phase' = IF DOMAIN listing = {s} THEN "stacks" ELSE "fields"
  /\ Calm
  /\ UNCHANGED <<stacks, world, checking, answer, alert, bmc>>

StartCheck ==
  \E s \in Slots :
    /\ IsFirst(s, Slots)
    /\ checking' = [Nothing EXCEPT !.slot = s]
    /\ phase' = "check"

Existing == {t \in Stacks : deployed[t] # "none"}

(* ParseStackInfoResponse: what an answer may be found to say.             *)
StackAnswers == SUBSET Existing

(* GetStackInfo: an error of the network keeps what is stored; an answer   *)
(* that cannot be parsed to its end, or has another code than 0, is taken  *)
(* for one with the stacks parsed so far.                                  *)
GetStackInfo ==
  /\ phase = "stacks"
  /\ \/ Disturb /\ StartCheck /\ UNCHANGED answer
     \/ \E got \in StackAnswers :
          /\ IF got = Existing THEN Calm ELSE Disturb
          /\ answer' = got
          /\ phase' = "clear"
          /\ UNCHANGED checking
  /\ UNCHANGED <<store, world, listing, alert, bmc>>

(* The stacks of the answer are added to those stored.                     *)
ClearNot ==
  /\ phase = "clear"
  /\ Proceed("save")
  /\ Calm
  /\ UNCHANGED <<store, world, alert, bmc>>

Clear ==
  /\ phase = "clear"
  /\ stacks' = {}
  /\ Proceed("save")
  /\ Calm
  /\ UNCHANGED <<boards, world, alert, bmc>>

(* Each stack replaces those saved before it.                              *)
SaveOver ==
  /\ phase = "save"
  /\ \/ \E t \in answer :
          /\ stacks' = {t}
          /\ answer' = answer \ {t}
          /\ UNCHANGED <<phase, checking>>
     \/ answer = {} /\ StartCheck /\ UNCHANGED <<stacks, answer>>
  /\ Calm
  /\ UNCHANGED <<boards, world, listing, alert, bmc>>

Save ==
  /\ phase = "save"
  /\ \/ \E t \in answer :
          /\ stacks' = stacks \cup {t}
          /\ answer' = answer \ {t}
          /\ UNCHANGED <<phase, checking>>
     \/ answer = {} /\ StartCheck /\ UNCHANGED <<stacks, answer>>
  /\ Calm
  /\ UNCHANGED <<boards, world, listing, alert, bmc>>

(* The next board, or sleep.                                               *)
NextCheck(s) ==
  LET rest == {t \in Slots : t > s}
  IN \/ \E t \in rest :
          /\ IsFirst(t, rest)
          /\ checking' = [Nothing EXCEPT !.slot = t]
          /\ phase' = "check"
     \/ rest = {} /\ checking' = Nothing /\ phase' = "sleep"

(* A switch board ends the check of all boards.                            *)
CheckToSwitch ==
  LET s == checking.slot
  IN /\ phase = "check"
     /\ IF boards[s].number \in Switches
        THEN checking' = Nothing /\ phase' = "sleep"
        ELSE /\ checking' = [checking EXCEPT !.number = boards[s].number,
                                             !.expired = boards[s].age >= Timeout]
             /\ phase' = "mark"
     /\ Calm
     /\ UNCHANGED <<store, world, listing, answer, alert, bmc>>

(* CheckAndMarkAbnormalBoards: the number and the age of a board are read; *)
(* boards with the number of a switch board are passed over.               *)
Check ==
  LET s == checking.slot
  IN /\ phase = "check"
     /\ IF boards[s].number \in Switches THEN NextCheck(s)
        ELSE /\ checking' = [checking EXCEPT !.number = boards[s].number,
                                             !.expired = boards[s].age >= Timeout]
             /\ phase' = "mark"
     /\ Calm
     /\ UNCHANGED <<store, world, listing, answer, alert, bmc>>

(* The status is read and written, on the board itself.                    *)
Mark ==
  LET s == checking.slot
  IN /\ phase = "mark"
     /\ IF checking.expired /\ boards[s].status = "Normal"
        THEN /\ boards' = [boards EXCEPT ![s].status = "Abnormal"]
             /\ phase' = "copy"
             /\ UNCHANGED checking
        ELSE NextCheck(s) /\ UNCHANGED boards
     /\ Calm
     /\ UNCHANGED <<stacks, world, listing, answer, alert, bmc>>

(* The board is copied to the slot whose number it bears.  UpdateBoard     *)
(* waits for the mutex of the repository.                                  *)
CopyMarked ==
  LET s == checking.slot
  IN /\ phase = "copy"
     /\ bmc = NoUpdate
     /\ boards' = UpdateBoard(boards, checking.number, boards[s])
     /\ NextCheck(s)
     /\ Calm
     /\ UNCHANGED <<stacks, world, listing, answer, alert, bmc>>

-----------------------------------------------------------------------------
(* AlertReceiverServer: HandleBoardAlert, which asks for no role.          *)

ReceiveAlerts(h) ==
  /\ alert[h].phase = "idle"
  /\ Disturb
  /\ \E batch \in Alerts :
       alert' = [alert EXCEPT ![h] = [NoAlert EXCEPT !.phase = "find", !.batch = batch]]
  /\ UNCHANGED <<store, world, collector, bmc>>

NextAlert(batch) ==
  IF Len(batch) = 1 THEN NoAlert
  ELSE [NoAlert EXCEPT !.phase = "find", !.batch = Tail(batch)]

(* A damaged alert ends the batch; what came before it has been done.      *)
FindBoard(h) ==
  LET a == Head(alert[h].batch)
      Then(x) == alert' = [alert EXCEPT ![h] = x]
  IN /\ alert[h].phase = "find"
     /\ \/ a.form = "damaged" /\ Then(NoAlert)
        \/ a.form = "whole" /\ Found(a) = {} /\ Then(NextAlert(alert[h].batch))
        \/ /\ a.form = "whole"
           /\ \E s \in Found(a) : Then([alert[h] EXCEPT !.phase = "update", !.found = s])
     /\ Calm
     /\ UNCHANGED <<store, world, collector, bmc>>

(* Through the pointer, without the mutex.                                 *)
AlertStatus(h) ==
  LET s == alert[h].found
      n == Head(alert[h].batch).status
  IN /\ alert[h].phase = "update"
     /\ boards' = [boards EXCEPT ![s] = UpdateStatus(@, FromApi(n))]
     /\ alert' = [alert EXCEPT ![h].phase = "copy"]
     /\ Calm
     /\ UNCHANGED <<stacks, world, collector, bmc>>

(* The whole board is copied into the slot that the alert names.           *)
AlertCopy(h) ==
  LET a == Head(alert[h].batch)
      b == boards[alert[h].found]
  IN /\ alert[h].phase = "copy"
     /\ bmc = NoUpdate
     /\ boards' = UpdateBoard(boards, IF a.slot > 0 THEN a.slot ELSE b.number, b)
     /\ alert' = [alert EXCEPT ![h] = NextAlert(alert[h].batch)]
     /\ Calm
     /\ UNCHANGED <<stacks, world, collector, bmc>>

-----------------------------------------------------------------------------
(* BmcReceiver: a datagram says of ten slots whether a board is in them,   *)
(* which are looked at one after the other, with the mutex held, for which *)
(* the writers of statuses do not ask.  A datagram is handled at once: it  *)
(* tells how the slot is when it is looked at.                             *)

BmcLook(s) ==
  /\ bmc = NoUpdate
  /\ PresenceUpdate(s) # "none"
  /\ bmc' = [slot |-> s, status |-> PresenceUpdate(s)]
  /\ Calm
  /\ UNCHANGED <<store, world, collector, alert>>

BmcWrite ==
  /\ bmc # NoUpdate
  /\ boards' = [boards EXCEPT ![bmc.slot] = UpdateStatus(@, bmc.status)]
  /\ bmc' = NoUpdate
  /\ Calm
  /\ UNCHANGED <<stacks, world, collector, alert>>

-----------------------------------------------------------------------------
(* ChassisFactory puts every board where the configuration has it; the     *)
(* platform starts with all boards well and no stack.                      *)
Init ==
  /\ boards = [s \in Slots |-> [status |-> "Unknown", age |-> Timeout, number |-> s,
                                address |-> s, tasks |-> [t \in Stacks |-> "none"]]]
  /\ stacks = {}
  /\ report = [s \in Slots |-> 0]
  /\ location = [s \in Slots |-> s]
  /\ deployed = [t \in Stacks |-> "none"]
  /\ plugged = [s \in Slots |-> TRUE]
  /\ disturbed = 0
  /\ phase = "boards"
  /\ listing = Empty
  /\ checking = Nothing
  /\ answer = {}
  /\ alert = [h \in Handlers |-> NoAlert]
  /\ bmc = NoUpdate

Collect ==
  \/ Wake \/ GetBoardInfo \/ (\E s \in Slots : ApplyFields(s) \/ ApplyTasks(s))
  \/ GetStackInfo \/ Clear \/ Save \/ Check \/ Mark \/ CopyMarked

HandleAlerts(h) == FindBoard(h) \/ AlertStatus(h) \/ AlertCopy(h)

World ==
  \/ \E s \in Slots : Plug(s) \/ Judge(s)
  \/ Readdress
  \/ \E t \in Stacks : Deploy(t)
  \/ Delay
  \/ \E h \in Handlers : ReceiveAlerts(h)

Next ==
  \/ World
  \/ Collect
  \/ \E h \in Handlers : HandleAlerts(h)
  \/ \E s \in Reported : BmcLook(s)
  \/ BmcWrite

Spec == Init /\ [][Next]_vars

(* The threads run and sleeps end; calls return, for httplib gives up      *)
(* after a time; and the chassis keeps sending what is in the slots that   *)
(* its datagrams cover (bmc_receiver.cpp:172: neither 5 nor 8, nor 13 and  *)
(* 14), so one of them that time and again needs a new status is got to.   *)
FairSpec ==
  /\ Spec
  /\ WF_vars(Collect)
  /\ \A h \in Handlers : WF_vars(HandleAlerts(h))
  /\ \A s \in Reported : SF_vars(BmcLook(s))
  /\ WF_vars(BmcWrite)

-----------------------------------------------------------------------------
(* What others read.                                                       *)

(* MapBoardStatusToArray: the byte of a board in the monitoring response.  *)
BoardByte(s) ==
  CASE boards[s].status = "Normal" -> 0
    [] boards[s].status = "Abnormal" -> 1
    [] OTHER -> 2

(* BuildTaskQueryResponse, and PrintTaskDetail of the console: the task is *)
(* on its board, and then looked up in the stacks.                         *)
TaskFound(t) == boards[Home[t]].tasks[t] # "none" /\ t \in stacks

(* MapTaskStatusToArray: the byte of a task in the monitoring response.    *)
TaskByte(t) ==
  CASE boards[Home[t]].tasks[t] = "running" -> 0
    [] boards[Home[t]].tasks[t] = "failed" -> 1
    [] OTHER -> 2

-----------------------------------------------------------------------------
(* Properties.                                                             *)

(* Platform and chassis agree about a slot: a board is there and is not    *)
(* reported absent, or it is not and is reported absent or not at all; or  *)
(* the datagrams of the chassis do not cover the slot.                     *)
Agreed(s) ==
  \/ s \notin Reported
  \/ IF plugged[s] THEN report[s] # 2 ELSE report[s] \in {2, Omitted}

(* Boards bear the numbers of their slots (see AlertCopy).                 *)
Intact == \A s \in Slots : boards[s].number = s

Settled(s) ==
  /\ boards[s].status \in
       CASE report[s] = 0 -> {"Normal"}
         [] report[s] = 2 -> {"Offline"}
         [] report[s] \in {1, 3} -> {"Abnormal"}
         [] s \notin Reported -> {"Abnormal", "Unknown", "Offline"}
         [] ~plugged[s] -> {"Offline"}
         [] s \in Switches -> {"Normal", "Abnormal", "Unknown"}
         [] OTHER -> {"Abnormal", "Unknown"}
  /\ report[s] # Omitted => boards[s].address = location[s]

(* Once the world is quiet, a board is shown as platform and chassis agree *)
(* it is, and if the platform does not say, not as normal, whatever stale  *)
(* answers, alerts and presence updates have been written over each other. *)
StoreSettles ==
  \A s \in Slots : <>[](Intact /\ Agreed(s) => Settled(s))

(* No board other than a switch board stays normal when nothing has        *)
(* renewed it for the timeout, though copies and checks race.              *)
NormalExpires ==
  \A s \in Slots :
    []<>~(/\ boards[s].status = "Normal"
          /\ boards[s].age = Timeout
          /\ boards[s].number \notin Switches)

(* A board that is pulled out of a slot that the datagrams cover is in the *)
(* end shown as absent at least once, even if the platform goes on         *)
(* reporting it.                                                           *)
UnplugShown ==
  \A s \in Reported : ~plugged[s] ~> plugged[s] \/ BoardByte(s) = 2

(* Once the world is quiet, the tasks of a listed board are shown as they  *)
(* are, and a query finds one exactly if the platform has it, but for the  *)
(* time of a replacement: board and stack come from two calls.             *)
QueriesSettle ==
  \A t \in Stacks :
    <>[](report[Home[t]] # Omitted =>
           /\ TaskByte(t) = CASE deployed[t] = "running" -> 0
                              [] deployed[t] = "failed"  -> 1
                              [] deployed[t] = "none"    -> 2
           /\ phase # "save" => (TaskFound(t) <=> t \in Existing))

(* The alert at hand has found a board by its address, which may be empty  *)
(* on both sides (line 209), and names the slot of another, so the whole   *)
(* of the one is copied over the other (line 223).                         *)
Misdirected(h) ==
  LET a == Head(alert[h].batch)
  IN /\ alert[h].phase = "copy"
     /\ a.slot \in Slots \ {alert[h].found}

(* Boards bear the numbers of their slots until an alert is carried out    *)
(* that finds one board and names the slot of another: no poll, no         *)
(* datagram, no other alert and no check of the timeout, which copies a    *)
(* board to a number read two steps before, does it, however they race.    *)
(* The number decides which board is exempt from the timeout               *)
(* (data_collector_service.cpp:258).                                       *)
OnlyMisdirection ==
  [][Intact => Intact' \/ \E h \in Handlers : Misdirected(h) /\ AlertCopy(h)]_vars

Borne == {boards[s].number : s \in Slots}

(* A number that no board bears any more is lost for the life of the       *)
(* process: nothing that the platform says or the chassis report gives it  *)
(* back (the note on UpdateFromApiData: the number is never updated).      *)
NumbersLostForGood == [][Borne' \subseteq Borne]_vars

(* Apart from readers in between, the stacks are replaced as a whole.      *)
Mirror == INSTANCE StackMirror WITH
  source <- Existing,
  answer <- IF phase = "clear" THEN {answer} ELSE {},
  mirror <- IF phase = "save" THEN stacks \cup answer ELSE stacks

ImplementsStackMirror == Mirror!Spec
=============================================================================
