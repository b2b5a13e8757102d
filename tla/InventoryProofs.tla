---------------------------- MODULE InventoryProofs ----------------------------
(* Theorems about Inventory, for any slots, stacks, alerts, reports and    *)
(* timeouts, and any number of HTTP threads and disturbances.              *)
EXTENDS Inventory, TLAPS

-----------------------------------------------------------------------------
(* Boards.                                                                 *)

(* Whatever the platform says becomes a status.                            *)
LEMMA FromApiType == ASSUME NEW n PROVE FromApi(n) \in Status
BY DEF FromApi, Status

(* What becomes of a board is a board.                                     *)
LEMMA UpdateStatusType ==
  ASSUME NEW b \in Board, NEW st \in Status
  PROVE  UpdateStatus(b, st) \in Board
<1>1. 0 \in 0 .. Timeout
  BY InventoryAssumption
<1>2. QED
  BY <1>1 DEF UpdateStatus, Board

LEMMA UpdateFieldsType ==
  ASSUME NEW b \in Board, NEW e \in Entry
  PROVE  UpdateFields(b, e) \in Board
<1>1. UpdateStatus(b, FromApi(e.status)) \in Board
  BY FromApiType, UpdateStatusType
<1>2. e.address \in Addresses
  BY DEF Entry
<1>3. QED
  BY <1>1, <1>2 DEF UpdateFields, Board

LEMMA UpdateTasksType ==
  ASSUME NEW b \in Board, NEW e \in Entry
  PROVE  UpdateTasks(b, e) \in Board
<1>1. 0 \in 0 .. Timeout
  BY InventoryAssumption
<1>2. e.tasks \in [Stacks -> Tasks]
  BY DEF Entry
<1>3. QED
  BY <1>1, <1>2 DEF UpdateTasks, Board

LEMMA OlderType ==
  ASSUME NEW bs \in [Slots -> Board]
  PROVE  Older(bs) \in [Slots -> Board]
<1>1. ASSUME NEW age \in 0 .. Timeout PROVE OneOlder(age) \in 0 .. Timeout
  BY InventoryAssumption DEF OneOlder
<1>2. ASSUME NEW b \in Board PROVE [b EXCEPT !.age = OneOlder(@)] \in Board
  <2>1. OneOlder(b.age) \in 0 .. Timeout
    BY <1>1 DEF Board
  <2>2. QED
    BY <2>1 DEF Board
<1>3. QED
  BY <1>2 DEF Older

(* A copy of a board goes to a slot of the chassis or nowhere.             *)
LEMMA UpdateBoardType ==
  ASSUME NEW bs \in [Slots -> Board], NEW slot, NEW b \in Board
  PROVE  UpdateBoard(bs, slot, b) \in [Slots -> Board]
BY DEF UpdateBoard

(* What the platform says of the boards is fit to be stored.               *)
LEMMA EntryOfType ==
  ASSUME TypeOK, NEW s \in Listed
  PROVE  EntryOf(s) \in Entry
<1>1. s \in Slots /\ report[s] \in 0 .. 3
  BY InventoryAssumption DEF Listed, TypeOK, Omitted
<1>2. location[s] \in Addresses
  BY <1>1 DEF TypeOK
<1>3. [t \in Stacks |-> IF Home[t] = s THEN deployed[t] ELSE "none"] \in [Stacks -> Tasks]
  BY DEF TypeOK, Tasks
<1>4. QED
  BY <1>1, <1>2, <1>3 DEF EntryOf, Entry

-----------------------------------------------------------------------------
(* The collector.                                                          *)

(* What it goes on to check is a slot.                                     *)
LEMMA StartCheckType ==
  ASSUME StartCheck
  PROVE  /\ checking' \in [slot : Slots \cup {0}, number : Slots \cup {0}, expired : BOOLEAN]
         /\ checking'.slot \in Slots
         /\ phase' = "check"
BY DEF StartCheck, Nothing

LEMMA NextCheckType ==
  ASSUME NEW s, NextCheck(s)
  PROVE  /\ checking' \in [slot : Slots \cup {0}, number : Slots \cup {0}, expired : BOOLEAN]
         /\ \/ phase' = "check" /\ checking'.slot \in Slots
            \/ phase' = "sleep"
<1>1. Nothing \in [slot : Slots \cup {0}, number : Slots \cup {0}, expired : BOOLEAN]
  BY DEF Nothing
<1>2. ASSUME NEW t \in Slots
      PROVE  /\ [Nothing EXCEPT !.slot = t] \in
                  [slot : Slots \cup {0}, number : Slots \cup {0}, expired : BOOLEAN]
             /\ [Nothing EXCEPT !.slot = t].slot = t
  BY DEF Nothing
<1>3. QED
  BY <1>1, <1>2 DEF NextCheck

(* The collector keeps the types.                                          *)
LEMMA CollectType ==
  ASSUME TypeOK, Collect
  PROVE  TypeOK'
<1> USE DEF Calm, store, world, collector
<1>1. /\ boards \in [Slots -> Board]
      /\ DOMAIN listing \subseteq Slots /\ listing \in [DOMAIN listing -> Entry]
      /\ checking \in [slot : Slots \cup {0}, number : Slots \cup {0}, expired : BOOLEAN]
  BY DEF TypeOK
<1>2. CASE Wake
  BY <1>1, <1>2, OlderType DEF Wake, Proceed, TypeOK, Phases
<1>3. CASE GetBoardInfo
  <2>1. PICK k \in {15} \cup Slots :
          LET got == {s \in Listed : s < k}
          IN /\ IF got = Listed THEN Calm ELSE Disturb
             /\ listing' = [s \in got |-> EntryOf(s)]
             /\ phase' = IF got = {} THEN "stacks" ELSE "fields"
    BY <1>3 DEF GetBoardInfo
  <2> DEFINE got == {s \in Listed : s < k}
  <2>2. listing' = [s \in got |-> EntryOf(s)] /\ got \subseteq Slots
    BY <2>1 DEF Listed
  <2>3. listing' \in [got -> Entry] /\ DOMAIN listing' = got
    BY <2>2, EntryOfType
  <2>4. phase' = "fields" => listing' # Empty
    BY <2>1, <2>3 DEF Empty
  <2>5. disturbed' \in 0 .. MaxDisturbances
    BY <2>1, InventoryAssumption DEF Disturb, TypeOK
  <2>6. phase' \in {"stacks", "fields"}
    BY <2>1
  <2> HIDE DEF got
  <2>7. QED
    BY <1>3, <2>2, <2>3, <2>4, <2>5, <2>6 DEF GetBoardInfo, TypeOK, Phases
<1>4. ASSUME NEW s \in Slots, ApplyFields(s) PROVE TypeOK'
  <2>1. listing[s] \in Entry
    BY <1>1, <1>4 DEF ApplyFields, IsFirst
  <2>2. boards' \in [Slots -> Board]
    BY <1>1, <1>4, <2>1, UpdateFieldsType DEF ApplyFields
  <2>3. listing # Empty
    BY <1>4 DEF ApplyFields, TypeOK
  <2>4. QED
    BY <1>4, <2>2, <2>3 DEF ApplyFields, Proceed, TypeOK, Phases
<1>5. ASSUME NEW s \in Slots, ApplyTasks(s) PROVE TypeOK'
  <2>1. listing[s] \in Entry /\ s \in DOMAIN listing
    BY <1>1, <1>5 DEF ApplyTasks, IsFirst
  <2>2. boards' \in [Slots -> Board]
    BY <1>1, <1>5, <2>1, UpdateTasksType DEF ApplyTasks
  <2>3. listing' = [t \in DOMAIN listing \ {s} |-> listing[t]]
    BY <1>5 DEF ApplyTasks
  <2>4. /\ DOMAIN listing' = DOMAIN listing \ {s}
        /\ listing' \in [DOMAIN listing' -> Entry]
    BY <1>1, <2>3
  <2>5. phase' = "fields" => listing' # Empty
    BY <1>5, <2>1, <2>4 DEF ApplyTasks, Empty
  <2>6. phase' \in {"stacks", "fields"}
    BY <1>5 DEF ApplyTasks
  <2>7. QED
    BY <1>1, <1>5, <2>2, <2>4, <2>5, <2>6 DEF ApplyTasks, TypeOK, Phases
<1>6. CASE GetStackInfo
  <2>1. disturbed' \in 0 .. MaxDisturbances
    BY <1>6, InventoryAssumption DEF GetStackInfo, Disturb, TypeOK
  <2>2. CASE StartCheck /\ UNCHANGED answer
    BY <1>6, <2>1, <2>2, StartCheckType DEF GetStackInfo, TypeOK, Phases
  <2>3. CASE \E got \in StackAnswers :
               answer' = got /\ phase' = "clear" /\ UNCHANGED checking
    BY <1>6, <2>1, <2>3 DEF GetStackInfo, StackAnswers, Existing, TypeOK, Phases
  <2>4. QED
    BY <1>6, <2>2, <2>3 DEF GetStackInfo
<1>7. CASE Clear
  BY <1>7 DEF Clear, Proceed, TypeOK, Phases
<1>8. CASE Save
  <2>1. CASE StartCheck /\ UNCHANGED <<stacks, answer>>
    BY <1>8, <2>1, StartCheckType DEF Save, TypeOK, Phases
  <2>2. CASE \E t \in answer :
               /\ stacks' = stacks \cup {t}
               /\ answer' = answer \ {t}
               /\ UNCHANGED <<phase, checking>>
    BY <1>8, <2>2 DEF Save, TypeOK
  <2>3. QED
    BY <1>8, <2>1, <2>2 DEF Save
<1>9. CASE Check
  <2> DEFINE s == checking.slot
  <2>1. s \in Slots /\ boards[s].number \in Slots
    BY <1>1, <1>9 DEF Check, TypeOK, Board
  <2>2. CASE NextCheck(s)
    BY <1>9, <2>2, NextCheckType DEF Check, TypeOK, Phases
  <2>3. CASE /\ checking' = [checking EXCEPT !.number = boards[s].number,
                                             !.expired = boards[s].age >= Timeout]
             /\ phase' = "mark"
    <3>1. (boards[s].age >= Timeout) \in BOOLEAN
      OBVIOUS
    <3>2. /\ checking' \in [slot : Slots \cup {0}, number : Slots \cup {0}, expired : BOOLEAN]
          /\ checking'.slot = s
      BY <1>1, <2>1, <2>3, <3>1
    <3>3. QED
      BY <1>9, <2>1, <2>3, <3>2 DEF Check, TypeOK, Phases
  <2>4. QED
    BY <1>9, <2>2, <2>3 DEF Check
<1>10. CASE Mark
  <2> DEFINE s == checking.slot
  <2>1. s \in Slots
    BY <1>10 DEF Mark, TypeOK
  <2>2. CASE /\ boards' = [boards EXCEPT ![s].status = "Abnormal"]
             /\ phase' = "copy"
             /\ UNCHANGED checking
    <3>1. [boards[s] EXCEPT !.status = "Abnormal"] \in Board
      BY <1>1, <2>1 DEF Board, Status
    <3>2. boards' \in [Slots -> Board]
      BY <1>1, <2>1, <2>2, <3>1
    <3>3. QED
      BY <1>10, <2>1, <2>2, <3>2 DEF Mark, TypeOK, Phases
  <2>3. CASE NextCheck(s) /\ UNCHANGED boards
    BY <1>10, <2>3, NextCheckType DEF Mark, TypeOK, Phases
  <2>4. QED
    BY <1>10, <2>2, <2>3 DEF Mark
<1>11. CASE CopyMarked
  <2>1. checking.slot \in Slots
    BY <1>11 DEF CopyMarked, TypeOK
  <2>2. boards' \in [Slots -> Board]
    BY <1>1, <1>11, <2>1, UpdateBoardType DEF CopyMarked
  <2>3. QED
    BY <1>11, <2>2, NextCheckType DEF CopyMarked, TypeOK, Phases
<1>12. QED
  BY <1>2, <1>3, <1>4, <1>5, <1>6, <1>7, <1>8, <1>9, <1>10, <1>11 DEF Collect

-----------------------------------------------------------------------------
(* The alert server and the BMC receiver.                                  *)

Handler == [phase : {"idle", "find", "update", "copy"},
            batch : Seq(Alert), found : Slots \cup {0}]

(* What a thread of the HTTP server may be doing.                          *)
Proper(x) ==
  /\ x \in Handler
  /\ x.phase # "idle" => x.batch # <<>>
  /\ x.phase \in {"update", "copy"} => x.found \in Slots

(* The thread goes on with the next alert, or is done.                     *)
LEMMA NextAlertType ==
  ASSUME NEW batch \in Seq(Alert), batch # <<>>
  PROVE  Proper(NextAlert(batch))
<1>1. Tail(batch) \in Seq(Alert)
  OBVIOUS
<1>2. CASE Len(batch) = 1
  BY <1>2 DEF NextAlert, NoAlert, Proper, Handler
<1>3. CASE Len(batch) # 1
  <2>1. Len(batch) \in Nat /\ Len(batch) # 0
    OBVIOUS
  <2>2. Len(Tail(batch)) = Len(batch) - 1
    OBVIOUS
  <2>3. Tail(batch) # <<>>
    <3>1. Len(batch) - 1 # 0
      BY <1>3, <2>1
    <3>2. Len(<<>>) = 0
      OBVIOUS
    <3>3. QED
      BY <2>2, <3>1, <3>2, Zenon
  <2>4. NextAlert(batch) = [phase |-> "find", batch |-> Tail(batch), found |-> 0]
    BY <1>3 DEF NextAlert, NoAlert
  <2>5. QED
    BY <1>1, <2>3, <2>4 DEF Proper, Handler
<1>4. QED
  BY <1>2, <1>3

LEMMA NoAlertType == Proper(NoAlert)
BY DEF NoAlert, Proper, Handler

(* The alert server keeps the types.                                       *)
LEMMA AlertsType ==
  ASSUME TypeOK, NEW h \in Handlers, ReceiveAlerts(h) \/ HandleAlerts(h)
  PROVE  TypeOK'
<1> USE DEF Calm, store, world, collector
<1>1. /\ boards \in [Slots -> Board]
      /\ alert \in [Handlers -> Handler]
      /\ \A g \in Handlers : Proper(alert[g])
  BY DEF TypeOK, Proper, Handler
<1>2. ASSUME boards' \in [Slots -> Board], disturbed' \in 0 .. MaxDisturbances,
             NEW x, Proper(x), alert' = [alert EXCEPT ![h] = x],
             UNCHANGED <<stacks, world, collector, bmc>>
      PROVE  TypeOK'
  <2>1. alert' \in [Handlers -> Handler] /\ \A g \in Handlers : Proper(alert'[g])
    BY <1>1, <1>2 DEF Proper
  <2>2. QED
    BY <1>2, <2>1 DEF TypeOK, Proper, Handler
<1>3. disturbed' \in 0 .. MaxDisturbances
  <2>1. CASE ReceiveAlerts(h)
    <3>1. disturbed \in 0 .. MaxDisturbances
      BY DEF TypeOK
    <3>2. disturbed < MaxDisturbances /\ disturbed' = disturbed + 1
      BY <2>1 DEF ReceiveAlerts, Disturb
    <3>3. QED
      BY <3>1, <3>2, InventoryAssumption
  <2>2. CASE FindBoard(h)
    <3>1. disturbed' = disturbed
      BY <2>2 DEF FindBoard
    <3>2. QED
      BY <3>1 DEF TypeOK
  <2>3. CASE AlertStatus(h) \/ AlertCopy(h)
    <3>1. disturbed' = disturbed
      BY <2>3 DEF AlertStatus, AlertCopy
    <3>2. QED
      BY <3>1 DEF TypeOK
  <2>4. QED
    BY <2>1, <2>2, <2>3 DEF HandleAlerts
<1>4. CASE ReceiveAlerts(h)
  <2>1. PICK batch \in Alerts :
          alert' = [alert EXCEPT ![h] = [NoAlert EXCEPT !.phase = "find", !.batch = batch]]
    BY <1>4 DEF ReceiveAlerts
  <2>2. batch \in Seq(Alert) /\ batch # <<>>
    BY AlertAssumption
  <2>3. Proper([NoAlert EXCEPT !.phase = "find", !.batch = batch])
    BY <2>2 DEF Proper, NoAlert, Handler
  <2>4. QED
    BY <1>1, <1>2, <1>3, <1>4, <2>1, <2>3 DEF ReceiveAlerts
<1>5. CASE FindBoard(h)
  <2>1. alert[h].batch \in Seq(Alert) /\ alert[h].batch # <<>>
    BY <1>1, <1>5 DEF FindBoard, Proper, Handler
  <2>2. ASSUME NEW s \in Found(Head(alert[h].batch))
        PROVE  Proper([alert[h] EXCEPT !.phase = "update", !.found = s])
    <3>1. s \in Slots
      BY DEF Found
    <3>2. QED
      BY <1>1, <2>1, <3>1 DEF Proper, Handler
  <2>3. \E x : Proper(x) /\ alert' = [alert EXCEPT ![h] = x]
    BY <1>5, <2>1, <2>2, NextAlertType, NoAlertType DEF FindBoard
  <2>4. QED
    BY <1>1, <1>2, <1>3, <1>5, <2>3 DEF FindBoard
<1>6. CASE AlertStatus(h)
  <2>1. alert[h].found \in Slots
    BY <1>1, <1>6 DEF AlertStatus, Proper
  <2>2. boards' \in [Slots -> Board]
    BY <1>1, <1>6, <2>1, FromApiType, UpdateStatusType DEF AlertStatus
  <2>3. Proper([alert[h] EXCEPT !.phase = "copy"])
    BY <1>1, <1>6 DEF AlertStatus, Proper, Handler
  <2>4. alert' = [alert EXCEPT ![h] = [alert[h] EXCEPT !.phase = "copy"]]
    BY <1>1, <1>6 DEF AlertStatus
  <2>5. QED
    BY <1>2, <1>3, <1>6, <2>2, <2>3, <2>4 DEF AlertStatus
<1>7. CASE AlertCopy(h)
  <2>1. /\ alert[h].found \in Slots
        /\ alert[h].batch \in Seq(Alert) /\ alert[h].batch # <<>>
    BY <1>1, <1>7 DEF AlertCopy, Proper, Handler
  <2>2. boards' \in [Slots -> Board]
    BY <1>1, <1>7, <2>1, UpdateBoardType DEF AlertCopy
  <2>3. Proper(NextAlert(alert[h].batch))
    BY <2>1, NextAlertType
  <2>4. QED
    BY <1>2, <1>3, <1>7, <2>2, <2>3 DEF AlertCopy
<1>8. QED
  BY <1>4, <1>5, <1>6, <1>7 DEF HandleAlerts

(* So does the BMC receiver.                                               *)
LEMMA BmcType ==
  ASSUME TypeOK, BmcWrite \/ \E s \in Reported : BmcLook(s)
  PROVE  TypeOK'
<1> USE DEF Calm, store, world, collector
<1>1. ASSUME NEW s \in Reported, BmcLook(s) PROVE TypeOK'
  <2>1. PresenceUpdate(s) \in Status
    BY <1>1 DEF BmcLook, PresenceUpdate, Status
  <2>2. bmc' \in [slot : Slots, status : Status]
    BY <1>1, <2>1 DEF BmcLook, Reported
  <2>3. QED
    BY <1>1, <2>2 DEF BmcLook, TypeOK
<1>2. CASE BmcWrite
  <2>1. bmc \in [slot : Slots, status : Status]
    BY <1>2 DEF BmcWrite, TypeOK
  <2>2. boards' \in [Slots -> Board]
    BY <1>2, <2>1, UpdateStatusType DEF BmcWrite, TypeOK
  <2>3. QED
    BY <1>2, <2>2 DEF BmcWrite, TypeOK
<1>3. QED
  BY <1>1, <1>2

(* The world may do what it likes.                                         *)
LEMMA WorldType ==
  ASSUME TypeOK, World
  PROVE  TypeOK'
<1> USE DEF Disturb, store, world, collector
<1>1. Disturb => disturbed' \in 0 .. MaxDisturbances
  BY InventoryAssumption DEF TypeOK
<1>2. ASSUME NEW s \in Slots, Plug(s) PROVE TypeOK'
  BY <1>1, <1>2 DEF Plug, TypeOK
<1>3. ASSUME NEW s \in Slots, Judge(s) PROVE TypeOK'
  BY <1>1, <1>3 DEF Judge, TypeOK
<1>4. CASE Readdress
  <2>1. location \in [Slots -> Addresses] /\ Slots \subseteq Addresses /\ 0 \in Addresses
    BY DEF TypeOK, Addresses
  <2>2. location' \in [Slots -> Addresses]
    BY <1>4, <2>1 DEF Readdress
  <2>3. QED
    BY <1>1, <1>4, <2>2 DEF Readdress, TypeOK
<1>5. ASSUME NEW t \in Stacks, Deploy(t) PROVE TypeOK'
  BY <1>1, <1>5 DEF Deploy, TypeOK
<1>6. CASE Delay
  BY <1>1, <1>6, OlderType DEF Delay, TypeOK
<1>7. QED
  BY <1>2, <1>3, <1>4, <1>5, <1>6, AlertsType DEF World

(* Every step keeps the types.                                             *)
LEMMA TypeStep ==
  ASSUME TypeOK, [Next]_vars
  PROVE  TypeOK'
<1>1. CASE UNCHANGED vars
  BY <1>1 DEF vars, store, world, collector, TypeOK
<1>2. QED
  BY <1>1, CollectType, AlertsType, BmcType, WorldType DEF Next

(* The types of the state hold: an entry of the platform that is about to  *)
(* be stored has a board to go to, and a copy of a board never makes one   *)
(* in a slot that the chassis does not have.                               *)
THEOREM TypeCorrect == Spec => []TypeOK
<1>1. ASSUME Init PROVE TypeOK
  <2>1. boards \in [Slots -> Board]
    BY <1>1, InventoryAssumption DEF Init, Board, Status, Tasks, Addresses
  <2>2. listing = Empty /\ DOMAIN Empty = {} /\ Empty \in [{} -> Entry]
    BY <1>1 DEF Init, Empty
  <2>3. NoAlert \in Handler
    BY DEF NoAlert, Handler
  <2>4. QED
    BY <1>1, <2>1, <2>2, <2>3, InventoryAssumption
      DEF Init, TypeOK, Phases, Nothing, NoAlert, Handler, Tasks, Addresses
<1>2. TypeOK /\ [Next]_vars => TypeOK'
  BY TypeStep
<1>3. QED
  BY <1>1, <1>2, PTL DEF Spec

-----------------------------------------------------------------------------
(* The stacks.                                                             *)

(* At the start the store has what nobody has put there yet: nothing.      *)
LEMMA MirrorInit == Init => Mirror!Init
BY DEF Init, Mirror!Init, Existing

(* Every step replaces the stacks as a whole, takes an answer, changes     *)
(* what the platform has, or leaves all of that alone.                     *)
LEMMA MirrorStep ==
  ASSUME TypeOK, [Next]_vars
  PROVE  [Mirror!Next]_(Mirror!vars)
<1> DEFINE pending == IF phase = "clear" THEN {answer} ELSE {}
           shown   == IF phase = "save" THEN stacks \cup answer ELSE stacks
<1>1. ASSUME UNCHANGED <<Existing, pending, shown>>
      PROVE  [Mirror!Next]_(Mirror!vars)
  BY <1>1 DEF Mirror!vars
<1>2. UNCHANGED deployed => UNCHANGED Existing
  BY DEF Existing
<1>3. ASSUME UNCHANGED <<deployed, stacks, phase, answer>>
      PROVE  [Mirror!Next]_(Mirror!vars)
  BY <1>1, <1>2, <1>3
<1>4. ASSUME UNCHANGED <<deployed, stacks>>, phase \notin {"clear", "save"},
             phase' \notin {"clear", "save"}
      PROVE  [Mirror!Next]_(Mirror!vars)
  BY <1>1, <1>2, <1>4
<1> USE DEF Calm, store, world, collector
<1>5. CASE Wake \/ GetBoardInfo \/ \E s \in Slots : ApplyFields(s) \/ ApplyTasks(s)
  BY <1>4, <1>5 DEF Wake, GetBoardInfo, ApplyFields, ApplyTasks, Proceed
<1>6. CASE GetStackInfo
  <2>1. CASE StartCheck
    BY <1>4, <1>6, <2>1 DEF GetStackInfo, StartCheck
  <2>2. CASE \E got \in StackAnswers : answer' = got /\ phase' = "clear"
    <3>1. PICK got \in SUBSET Existing : answer' = got /\ phase' = "clear"
      BY <2>2 DEF StackAnswers
    <3>2. pending = {} /\ pending' = {got} /\ shown' = shown /\ Existing' = Existing
      BY <1>2, <1>6, <3>1 DEF GetStackInfo
    <3>3. Mirror!Fetch
      BY <3>1, <3>2 DEF Mirror!Fetch
    <3>4. QED
      BY <3>3 DEF Mirror!Next
  <2>3. QED
    BY <1>6, <2>1, <2>2 DEF GetStackInfo
<1>7. CASE Clear
  <2>1. pending = {answer} /\ pending' = {} /\ shown' = answer /\ Existing' = Existing
    BY <1>2, <1>7 DEF Clear, Proceed
  <2>2. Mirror!Replace
    BY <2>1 DEF Mirror!Replace
  <2>3. QED
    BY <2>2 DEF Mirror!Next
<1>8. CASE Save
  <2>1. CASE StartCheck
    BY <1>1, <1>2, <1>8, <2>1 DEF Save, StartCheck
  <2>2. CASE \E t \in answer :
               /\ stacks' = stacks \cup {t}
               /\ answer' = answer \ {t}
               /\ UNCHANGED <<phase, checking>>
    BY <1>1, <1>2, <1>8, <2>2 DEF Save
  <2>3. QED
    BY <1>8, <2>1, <2>2 DEF Save
<1>9. CASE Check \/ Mark \/ CopyMarked
  BY <1>4, <1>9 DEF Check, Mark, CopyMarked, NextCheck
<1>10. ASSUME NEW t \in Stacks, Deploy(t) PROVE [Mirror!Next]_(Mirror!vars)
  <2>1. Existing' \in SUBSET Stacks /\ UNCHANGED <<pending, shown>>
    BY <1>10 DEF Deploy, Existing
  <2>2. Mirror!Change
    BY <2>1 DEF Mirror!Change
  <2>3. QED
    BY <2>2 DEF Mirror!Next
<1>11. CASE \/ Readdress \/ Delay
            \/ \E s \in Slots : Plug(s) \/ Judge(s)
            \/ \E h \in Handlers : ReceiveAlerts(h) \/ HandleAlerts(h)
            \/ BmcWrite \/ \E s \in Reported : BmcLook(s)
  BY <1>3, <1>11 DEF Readdress, Delay, Plug, Judge, ReceiveAlerts, HandleAlerts,
                     FindBoard, AlertStatus, AlertCopy, BmcLook, BmcWrite
<1>12. CASE UNCHANGED vars
  BY <1>3, <1>12 DEF vars
<1>13. QED
  BY <1>5, <1>6, <1>7, <1>8, <1>9, <1>10, <1>11, <1>12 DEF Next, World, Collect

(* Apart from readers in between, the stacks of the store are replaced as  *)
(* a whole by those of one answer, and kept when there is no answer        *)
(* (CollectStackInfo).                                                     *)
THEOREM InventoryMirrorsStacks == Spec => ImplementsStackMirror
<1>1. QED
  BY MirrorInit, MirrorStep, TypeCorrect, PTL DEF Spec, ImplementsStackMirror, Mirror!Spec
-----------------------------------------------------------------------------
(* The numbers of the boards.                                              *)

(* The number that the collector has read is that of the slot it is at,    *)
(* while boards bear the numbers of their slots; and if any board bears    *)
(* the number of another slot, a number is lost.  The latter is what makes *)
(* the former inductive: numbers that have gone wrong are never right      *)
(* again, so none that was read when they were wrong is used when they are *)
(* right.                                                                  *)
NumbersInv ==
  /\ Intact \/ Borne # Slots
  /\ phase \in {"mark", "copy"} /\ Intact => checking.number = checking.slot

(* A copy of a board brings no number that was not there, and spoils the   *)
(* numbers only if it goes to another slot, whose number it loses.         *)
LEMMA Copied ==
  ASSUME TypeOK, NEW s \in Slots, NEW t, boards' = UpdateBoard(boards, t, boards[s])
  PROVE  /\ Borne' \subseteq Borne
         /\ Intact => \/ Intact'
                      \/ t \in Slots \ {s} /\ t \notin Borne'
<1>1. boards \in [Slots -> Board]
  BY DEF TypeOK
<1>2. ASSUME NEW r \in Slots
      PROVE  boards'[r] = IF r = t THEN boards[s] ELSE boards[r]
  BY <1>1, <1>2 DEF UpdateBoard
<1>3. Borne' \subseteq Borne
  BY <1>2 DEF Borne
<1>4. ASSUME Intact, t \notin Slots \/ t = s PROVE Intact'
  BY <1>2, <1>4 DEF Intact
<1>5. ASSUME Intact, t \in Slots, t # s PROVE t \notin Borne'
  BY <1>2, <1>5 DEF Intact, Borne
<1>6. QED
  BY <1>3, <1>4, <1>5

(* Only the two copies move numbers.                                       *)
LEMMA NumbersStay ==
  ASSUME TypeOK, [Next]_vars, ~CopyMarked, \A h \in Handlers : ~AlertCopy(h)
  PROVE  \A s \in Slots : boards'[s].number = boards[s].number
<1> USE DEF store, world, collector
<1>1. boards \in [Slots -> Board]
  BY DEF TypeOK
<1>2. ASSUME boards' = boards PROVE \A s \in Slots : boards'[s].number = boards[s].number
  BY <1>2
<1>3. CASE Wake \/ Delay
  BY <1>1, <1>3 DEF Wake, Delay, Older, Board
<1>4. ASSUME NEW r \in Slots, ApplyFields(r)
      PROVE  \A s \in Slots : boards'[s].number = boards[s].number
  BY <1>1, <1>4 DEF ApplyFields, UpdateFields, UpdateStatus, Board
<1>5. ASSUME NEW r \in Slots, ApplyTasks(r)
      PROVE  \A s \in Slots : boards'[s].number = boards[s].number
  BY <1>1, <1>5 DEF ApplyTasks, UpdateTasks, Board
<1>6. CASE Mark
  BY <1>1, <1>2, <1>6 DEF Mark, Board
<1>7. ASSUME NEW h \in Handlers, AlertStatus(h)
      PROVE  \A s \in Slots : boards'[s].number = boards[s].number
  BY <1>1, <1>7 DEF AlertStatus, UpdateStatus, Board
<1>8. CASE BmcWrite
  BY <1>1, <1>8 DEF BmcWrite, UpdateStatus, Board
<1>9. CASE \/ GetBoardInfo \/ GetStackInfo \/ Clear \/ Save \/ Check
            \/ Readdress \/ (\E s \in Slots : Plug(s) \/ Judge(s)) \/ (\E s \in Reported : BmcLook(s))
            \/ (\E t \in Stacks : Deploy(t))
            \/ (\E h \in Handlers : ReceiveAlerts(h) \/ FindBoard(h))
            \/ UNCHANGED vars
  BY <1>2, <1>9 DEF GetBoardInfo, GetStackInfo, Clear, Save, Check, Readdress, Plug,
       Judge, BmcLook, Deploy, ReceiveAlerts, FindBoard, vars
<1>10. QED
  BY <1>3, <1>4, <1>5, <1>6, <1>7, <1>8, <1>9
    DEF Next, World, Collect, HandleAlerts

(* No step brings a number back.                                           *)
LEMMA BorneShrinks ==
  ASSUME TypeOK, [Next]_vars
  PROVE  Borne' \subseteq Borne
<1>1. CASE CopyMarked
  <2>1. checking.slot \in Slots
    BY <1>1 DEF CopyMarked, TypeOK
  <2>2. QED
    BY <1>1, <2>1, Copied DEF CopyMarked
<1>2. ASSUME NEW h \in Handlers, AlertCopy(h) PROVE Borne' \subseteq Borne
  <2>1. alert[h].found \in Slots
    BY <1>2 DEF AlertCopy, TypeOK
  <2>2. QED
    BY <1>2, <2>1, Copied DEF AlertCopy
<1>3. CASE ~CopyMarked /\ \A h \in Handlers : ~AlertCopy(h)
  BY <1>3, NumbersStay DEF Borne
<1>4. QED
  BY <1>1, <1>2, <1>3

(* In good order, the numbers are spoiled only by a misdirected alert, and *)
(* then the number of its slot is lost.                                    *)
LEMMA SpoiledByAlert ==
  ASSUME TypeOK, NumbersInv, [Next]_vars, Intact, ~Intact'
  PROVE  /\ \E h \in Handlers : Misdirected(h) /\ AlertCopy(h)
         /\ Borne' # Slots
<1>1. ~CopyMarked
  <2>1. SUFFICES ASSUME CopyMarked PROVE FALSE
    OBVIOUS
  <2>2. checking.slot \in Slots /\ checking.number = checking.slot
    BY <2>1 DEF CopyMarked, TypeOK, NumbersInv
  <2>3. QED
    BY <2>1, <2>2, Copied DEF CopyMarked
<1>2. PICK h \in Handlers : AlertCopy(h)
  <2>1. SUFFICES ASSUME \A h \in Handlers : ~AlertCopy(h) PROVE FALSE
    OBVIOUS
  <2>2. QED
    BY <1>1, <2>1, NumbersStay DEF Intact
<1> DEFINE a == Head(alert[h].batch)
           s == alert[h].found
           t == IF a.slot > 0 THEN a.slot ELSE boards[s].number
<1>3. s \in Slots /\ alert[h].phase = "copy"
  BY <1>2 DEF AlertCopy, TypeOK
<1>4. boards' = UpdateBoard(boards, t, boards[s])
  BY <1>2 DEF AlertCopy
<1>5. t \in Slots \ {s} /\ t \notin Borne'
  BY <1>3, <1>4, Copied
<1>6. boards[s].number = s
  BY <1>3 DEF Intact
<1>7. a.slot \in Slots \ {s}
  BY <1>5, <1>6
<1>8. QED
  BY <1>2, <1>3, <1>5, <1>7 DEF Misdirected

(* The invariant is kept.                                                  *)
LEMMA NumbersStep ==
  ASSUME TypeOK, NumbersInv, [Next]_vars
  PROVE  NumbersInv'
<1> USE DEF store, world, collector
<1>1. TypeOK'
  BY TypeStep
<1>2. Borne \subseteq Slots
  BY DEF Borne, TypeOK, Board
<1>3. Intact' => Borne' = Slots
  BY DEF Intact, Borne
<1>4. Intact' => Intact
  BY <1>2, <1>3, BorneShrinks DEF NumbersInv
<1>5. Intact' \/ Borne' # Slots
  BY <1>2, BorneShrinks, SpoiledByAlert DEF NumbersInv
<1>6. phase' \in {"mark", "copy"} /\ Intact' => checking'.number = checking'.slot
  <2>1. SUFFICES ASSUME phase' \in {"mark", "copy"}, Intact'
                 PROVE  checking'.number = checking'.slot
    OBVIOUS
  <2>2. CASE UNCHANGED <<phase, checking>>
    BY <1>4, <2>1, <2>2 DEF NumbersInv
  <2>3. CASE Check
    <3>1. checking.slot \in Slots
      BY <2>3 DEF Check, TypeOK
    <3>2. checking \in [slot : Slots \cup {0}, number : Slots \cup {0}, expired : BOOLEAN]
      BY DEF TypeOK
    <3>3. boards[checking.slot].number = checking.slot
      BY <1>4, <2>1, <3>1 DEF Intact
    <3>4. QED
      BY <2>1, <2>3, <3>2, <3>3 DEF Check, NextCheck
  <2>4. CASE Mark
    BY <1>4, <2>1, <2>4 DEF Mark, NextCheck, NumbersInv
  <2>5. CASE \/ Wake \/ GetBoardInfo \/ (\E s \in Slots : ApplyFields(s) \/ ApplyTasks(s))
             \/ GetStackInfo \/ Clear \/ Save \/ CopyMarked
    BY <2>1, <2>2, <2>5 DEF Wake, GetBoardInfo, ApplyFields, ApplyTasks, GetStackInfo,
         Clear, Save, CopyMarked, Proceed, StartCheck, NextCheck
  <2>6. CASE \/ World \/ UNCHANGED vars \/ BmcWrite \/ (\E s \in Reported : BmcLook(s))
             \/ \E h \in Handlers : HandleAlerts(h)
    BY <2>2, <2>6 DEF World, Plug, Judge, Readdress, Deploy, Delay, ReceiveAlerts, vars,
         BmcWrite, BmcLook, HandleAlerts, FindBoard, AlertStatus, AlertCopy
  <2>7. QED
    BY <2>3, <2>4, <2>5, <2>6 DEF Next, Collect
<1>7. QED
  BY <1>5, <1>6 DEF NumbersInv

LEMMA NumbersAlways == Spec => [](TypeOK /\ NumbersInv)
<1>1. ASSUME Init PROVE NumbersInv
  <2>1. Intact
    BY <1>1 DEF Init, Intact
  <2>2. QED
    BY <1>1, <2>1 DEF Init, NumbersInv, NoAlert
<1>2. TypeOK /\ NumbersInv /\ [Next]_vars => NumbersInv'
  BY NumbersStep
<1>3. QED
  BY <1>1, <1>2, TypeCorrect, PTL DEF Spec

(* Whatever the threads, the platform and the chassis do, boards bear the  *)
(* numbers of their slots until HandleBoardAlert carries out an alert that *)
(* has found one board by its address, given or empty, and names another   *)
(* one's slot.                                                             *)
THEOREM OnlyMisdirectionSpoils == Spec => OnlyMisdirection
<1>1. TypeOK /\ NumbersInv /\ [Next]_vars
        => [Intact => Intact' \/ \E h \in Handlers : Misdirected(h) /\ AlertCopy(h)]_vars
  BY SpoiledByAlert
<1>2. QED
  BY <1>1, NumbersAlways, PTL DEF Spec, OnlyMisdirection

(* A number that is lost is lost for good: polls, alerts, datagrams and    *)
(* checks write no number but by copying a whole board (UpdateBoard).      *)
THEOREM LostForGood == Spec => NumbersLostForGood
<1>1. TypeOK /\ [Next]_vars => [Borne' \subseteq Borne]_vars
  BY BorneShrinks
<1>2. QED
  BY <1>1, TypeCorrect, PTL DEF Spec, NumbersLostForGood

-----------------------------------------------------------------------------
(* Alerts that say the truth.                                              *)

(* Every alert of a batch that gives an address and a slot of the chassis  *)
(* gives those of one board, as the addresses are at first.                *)
Sound(batch) ==
  \A i \in DOMAIN batch :
    batch[i].address \in Slots /\ batch[i].slot \in Slots => batch[i].address = batch[i].slot

(* The platform says that every board has the address it had at first.     *)
AddressesStay == location = [s \in Slots |-> s]

(* Then every board keeps that address, and an alert at hand that names a  *)
(* slot of the chassis has found the board in that slot, by address or     *)
(* slot.                                                                   *)
BoardsLocated == \A s \in Slots : boards[s].number = s /\ boards[s].address = s

FoundWhereNamed(x) ==
  x.phase \in {"update", "copy"} /\ Head(x.batch).slot \in Slots
    => x.found = Head(x.batch).slot

SoundInv ==
  /\ BoardsLocated
  /\ \A s \in DOMAIN listing : listing[s].address = s
  /\ \A h \in Handlers : Sound(alert[h].batch) /\ FoundWhereNamed(alert[h])

LEMMA TailSound ==
  ASSUME NEW batch \in Seq(Alert), batch # <<>>, Sound(batch)
  PROVE  Sound(Tail(batch))
<1>1. Len(batch) \in Nat /\ Len(Tail(batch)) = Len(batch) - 1 /\ Tail(batch) \in Seq(Alert)
  OBVIOUS
<1>2. ASSUME NEW i \in DOMAIN Tail(batch)
      PROVE  i + 1 \in DOMAIN batch /\ Tail(batch)[i] = batch[i + 1]
  BY <1>1, <1>2
<1>3. QED
  BY <1>2 DEF Sound

(* What the threads of the HTTP server do keeps their part of SoundInv.    *)
LEMMA AlertsSound ==
  ASSUME TypeOK, SoundInv, \A batch \in Alerts : Sound(batch),
         NEW h \in Handlers, ReceiveAlerts(h) \/ HandleAlerts(h)
  PROVE  \A g \in Handlers : Sound(alert'[g].batch) /\ FoundWhereNamed(alert'[g])
<1>1. alert \in [Handlers -> Handler]
      /\ \A g \in Handlers : alert[g].phase # "idle" => alert[g].batch # <<>>
  BY DEF TypeOK, Handler
<1>2. ASSUME NEW x, Sound(x.batch), FoundWhereNamed(x), alert' = [alert EXCEPT ![h] = x]
      PROVE  \A g \in Handlers : Sound(alert'[g].batch) /\ FoundWhereNamed(alert'[g])
  BY <1>1, <1>2 DEF SoundInv
<1>3. Sound(NoAlert.batch) /\ FoundWhereNamed(NoAlert)
  BY DEF Sound, FoundWhereNamed, NoAlert
<1>4. ASSUME alert[h].phase # "idle"
      PROVE  Sound(NextAlert(alert[h].batch).batch) /\ FoundWhereNamed(NextAlert(alert[h].batch))
  <2>1. alert[h].batch \in Seq(Alert) /\ alert[h].batch # <<>> /\ Sound(alert[h].batch)
    BY <1>1, <1>4 DEF Handler, SoundInv
  <2>2. Sound(Tail(alert[h].batch))
    BY <2>1, TailSound
  <2>3. NextAlert(alert[h].batch) = NoAlert
          \/ NextAlert(alert[h].batch) =
               [phase |-> "find", batch |-> Tail(alert[h].batch), found |-> 0]
    BY DEF NextAlert, NoAlert
  <2>4. CASE NextAlert(alert[h].batch) = NoAlert
    BY <1>3, <2>4
  <2>5. ASSUME NEW x, x = [phase |-> "find", batch |-> Tail(alert[h].batch), found |-> 0]
        PROVE  Sound(x.batch) /\ FoundWhereNamed(x)
    BY <2>2, <2>5 DEF FoundWhereNamed
  <2>6. QED
    BY <2>3, <2>4, <2>5
<1>5. CASE ReceiveAlerts(h)
  <2>1. PICK batch \in Alerts :
          alert' = [alert EXCEPT ![h] = [NoAlert EXCEPT !.phase = "find", !.batch = batch]]
    BY <1>5 DEF ReceiveAlerts
  <2> DEFINE x == [NoAlert EXCEPT !.phase = "find", !.batch = batch]
  <2>2. x.batch = batch /\ x.phase = "find"
    BY DEF NoAlert
  <2>3. Sound(x.batch) /\ FoundWhereNamed(x)
    BY <2>2 DEF FoundWhereNamed
  <2>4. QED
    BY <1>2, <2>1, <2>3
<1>6. CASE FindBoard(h)
  <2> DEFINE a == Head(alert[h].batch)
  <2>1. /\ alert[h].phase = "find"
        /\ alert[h].batch \in Seq(Alert) /\ alert[h].batch # <<>> /\ Sound(alert[h].batch)
    BY <1>1, <1>6 DEF FindBoard, Handler, SoundInv
  <2>2. a \in Alert /\ 1 \in DOMAIN alert[h].batch /\ a = alert[h].batch[1]
    BY <2>1
  <2>3. a.address \in Slots /\ a.slot \in Slots => a.address = a.slot
    BY <2>1, <2>2 DEF Sound
  <2>4. ASSUME NEW s \in Found(a), a.slot \in Slots PROVE s = a.slot
    <3>1. ASSUME NEW r \in Slots, boards[r].address = a.address PROVE r = a.slot
      BY <2>3, <2>4, <3>1 DEF SoundInv, BoardsLocated
    <3>2. QED
      BY <2>4, <3>1 DEF Found, IsFirst
  <2>5. ASSUME NEW s \in Found(a)
        PROVE  LET x == [alert[h] EXCEPT !.phase = "update", !.found = s]
               IN Sound(x.batch) /\ FoundWhereNamed(x)
    <3> DEFINE x == [alert[h] EXCEPT !.phase = "update", !.found = s]
    <3>1. x.batch = alert[h].batch /\ x.found = s
      BY <1>1 DEF Handler
    <3>2. QED
      BY <2>1, <2>4, <3>1 DEF FoundWhereNamed
  <2>6. QED
    BY <1>2, <1>3, <1>4, <1>6, <2>1, <2>5 DEF FindBoard
<1>7. CASE AlertStatus(h)
  <2> DEFINE x == [alert[h] EXCEPT !.phase = "copy"]
  <2>1. alert[h].phase = "update" /\ alert' = [alert EXCEPT ![h] = x]
    BY <1>1, <1>7 DEF AlertStatus
  <2>2. x.batch = alert[h].batch /\ x.found = alert[h].found
    BY <1>1 DEF Handler
  <2>3. QED
    BY <1>2, <2>1, <2>2 DEF SoundInv, FoundWhereNamed
<1>8. CASE AlertCopy(h)
  BY <1>2, <1>4, <1>8 DEF AlertCopy
<1>9. QED
  BY <1>5, <1>6, <1>7, <1>8 DEF HandleAlerts

(* A copy of a board to its own slot, or to none, moves nothing.           *)
LEMMA CopiedInPlace ==
  ASSUME TypeOK, BoardsLocated, NEW s \in Slots, NEW t, t = s \/ t \notin Slots,
         boards' = UpdateBoard(boards, t, boards[s])
  PROVE  BoardsLocated'
<1>1. boards \in [Slots -> Board]
  BY DEF TypeOK
<1>2. QED
  BY <1>1 DEF UpdateBoard, BoardsLocated

(* Boards keep their numbers and addresses.                                *)
LEMMA BoardsStayLocated ==
  ASSUME TypeOK, NumbersInv, SoundInv, [Next]_vars
  PROVE  BoardsLocated'
<1> USE DEF store, world, collector
<1>1. boards \in [Slots -> Board]
  BY DEF TypeOK
<1>2. BoardsLocated /\ Intact
  BY DEF SoundInv, BoardsLocated, Intact
<1>3. CASE UNCHANGED boards
  BY <1>2, <1>3 DEF BoardsLocated
<1>4. CASE Wake \/ Delay
  BY <1>1, <1>2, <1>4 DEF Wake, Delay, Older, Board, BoardsLocated
<1>5. ASSUME NEW r \in Slots, ApplyFields(r) PROVE BoardsLocated'
  <2>1. listing[r].address = r
    BY <1>5 DEF ApplyFields, IsFirst, SoundInv
  <2>2. QED
    BY <1>1, <1>2, <1>5, <2>1
      DEF ApplyFields, UpdateFields, UpdateStatus, Board, BoardsLocated
<1>6. ASSUME NEW r \in Slots, ApplyTasks(r) PROVE BoardsLocated'
  BY <1>1, <1>2, <1>6 DEF ApplyTasks, UpdateTasks, Board, BoardsLocated
<1>7. CASE Mark
  BY <1>1, <1>2, <1>3, <1>7 DEF Mark, Board, BoardsLocated
<1>8. CASE CopyMarked
  <2>1. checking.slot \in Slots /\ checking.number = checking.slot
    BY <1>2, <1>8 DEF CopyMarked, TypeOK, NumbersInv
  <2>2. QED
    BY <1>2, <1>8, <2>1, CopiedInPlace DEF CopyMarked
<1>9. ASSUME NEW h \in Handlers, AlertStatus(h) PROVE BoardsLocated'
  BY <1>1, <1>2, <1>9 DEF AlertStatus, UpdateStatus, Board, BoardsLocated
<1>10. ASSUME NEW h \in Handlers, AlertCopy(h) PROVE BoardsLocated'
  <2> DEFINE a == Head(alert[h].batch)
             s == alert[h].found
  <2>1. s \in Slots /\ alert[h].phase = "copy"
    BY <1>10 DEF AlertCopy, TypeOK
  <2>2. a.slot \in Slots => s = a.slot
    BY <2>1 DEF SoundInv, FoundWhereNamed
  <2>3. boards[s].number = s
    BY <1>2, <2>1 DEF BoardsLocated
  <2>4. QED
    BY <1>2, <1>10, <2>1, <2>2, <2>3, CopiedInPlace DEF AlertCopy
<1>11. CASE BmcWrite
  BY <1>1, <1>2, <1>11 DEF BmcWrite, UpdateStatus, Board, BoardsLocated
<1>12. CASE \/ GetBoardInfo \/ GetStackInfo \/ Clear \/ Save \/ Check
             \/ Readdress \/ (\E s \in Slots : Plug(s) \/ Judge(s))
             \/ (\E s \in Reported : BmcLook(s)) \/ (\E t \in Stacks : Deploy(t))
             \/ (\E h \in Handlers : ReceiveAlerts(h) \/ FindBoard(h))
             \/ UNCHANGED vars
  BY <1>3, <1>12 DEF GetBoardInfo, GetStackInfo, Clear, Save, Check, Readdress, Plug,
       Judge, BmcLook, Deploy, ReceiveAlerts, FindBoard, vars
<1>13. QED
  BY <1>4, <1>5, <1>6, <1>7, <1>8, <1>9, <1>10, <1>11, <1>12
    DEF Next, World, Collect, HandleAlerts

(* If every alert that gives an address and a slot gives those of one      *)
(* board, and the platform leaves the boards their addresses, boards bear  *)
(* the numbers of their slots for ever, and the boards exempt from the     *)
(* timeout are those in the slots of the switch boards, whatever alerts,   *)
(* whole or damaged, with or without an address or a slot, race with the   *)
(* collector and the BMC receiver.                                         *)
THEOREM SoundAlertsKeepNumbers ==
  (\A batch \in Alerts : Sound(batch)) => (Spec /\ []AddressesStay => []Intact)
<1> SUFFICES ASSUME \A batch \in Alerts : Sound(batch)
             PROVE  Spec /\ []AddressesStay => []Intact
  OBVIOUS
<1> USE DEF store, world, collector
<1>1. Init => SoundInv
  BY DEF Init, SoundInv, BoardsLocated, Sound, FoundWhereNamed, NoAlert, Empty
<1>2. TypeOK /\ NumbersInv /\ SoundInv /\ AddressesStay /\ [Next]_vars => SoundInv'
  <2> SUFFICES ASSUME TypeOK, NumbersInv, SoundInv, AddressesStay, [Next]_vars PROVE SoundInv'
    OBVIOUS
  <2>1. \A s \in DOMAIN listing' : listing'[s].address = s
    <3>1. CASE UNCHANGED listing
      BY <3>1 DEF SoundInv
    <3>2. CASE GetBoardInfo
      <4>1. PICK got \in SUBSET Listed : listing' = [s \in got |-> EntryOf(s)]
        BY <3>2 DEF GetBoardInfo
      <4>2. QED
        BY <4>1 DEF Listed, EntryOf, AddressesStay
    <3>3. ASSUME NEW r \in Slots, ApplyTasks(r)
          PROVE  \A s \in DOMAIN listing' : listing'[s].address = s
      BY <3>3 DEF ApplyTasks, SoundInv
    <3>4. CASE \/ Wake \/ (\E s \in Slots : ApplyFields(s)) \/ GetStackInfo \/ Clear
               \/ Save \/ Check \/ Mark \/ CopyMarked \/ World \/ BmcWrite
               \/ (\E h \in Handlers : HandleAlerts(h))
               \/ (\E s \in Reported : BmcLook(s)) \/ UNCHANGED vars
      BY <3>1, <3>4 DEF Wake, ApplyFields, GetStackInfo, Clear, Save, Check, Mark,
           CopyMarked, Proceed, World, Plug, Judge, Readdress, Deploy, Delay,
           ReceiveAlerts, BmcWrite, BmcLook, HandleAlerts, FindBoard, AlertStatus,
           AlertCopy, vars
    <3>5. QED
      BY <3>2, <3>3, <3>4 DEF Next, Collect
  <2>2. \A h \in Handlers : Sound(alert'[h].batch) /\ FoundWhereNamed(alert'[h])
    <3>1. CASE UNCHANGED alert
      BY <3>1 DEF SoundInv
    <3>2. CASE \E h \in Handlers : ReceiveAlerts(h) \/ HandleAlerts(h)
      BY <3>2, AlertsSound
    <3>3. CASE \/ Collect \/ BmcWrite \/ (\E s \in Reported : BmcLook(s)) \/ Readdress
               \/ Delay \/ (\E s \in Slots : Plug(s) \/ Judge(s))
               \/ (\E t \in Stacks : Deploy(t)) \/ UNCHANGED vars
      BY <3>1, <3>3 DEF Collect, Wake, GetBoardInfo, ApplyFields, ApplyTasks,
           GetStackInfo, Clear, Save, Check, Mark, CopyMarked, BmcWrite, BmcLook,
           Readdress, Delay, Plug, Judge, Deploy, vars
    <3>4. QED
      BY <3>2, <3>3 DEF Next, World
  <2>3. QED
    BY <2>1, <2>2, BoardsStayLocated DEF SoundInv, FoundWhereNamed, Sound
<1>3. SoundInv => Intact
  BY DEF SoundInv, BoardsLocated, Intact
<1>4. QED
  BY <1>1, <1>2, <1>3, NumbersAlways, PTL DEF Spec
=============================================================================
