# TLA+ models of the resource management service

The program under `src/` runs on every node of a small cluster (two nodes, a
Primary and a Standby). It collects the state of nine chassis of boards and of
the tasks that run on them, answers requests that arrive by UDP multicast,
starts and stops tasks on an external deployment platform over HTTP, and
receives alerts (HTTP) and board presence reports (BMC, UDP multicast). The
nodes share nothing but the network: which of them acts is agreed upon with
multicast heartbeats.

This directory holds TLA+ specifications of that program, TLC configurations
that check them on small instances, and proofs that TLAPS checks.
`PROJECT.json` relates every definition to the source lines it models and lists
runs, mutants, findings, hazards and theorems.

Paths below are relative to `src/`.

## 1. Inventory

| Component | State | Operations | Talks to |
|---|---|---|---|
| `HeartbeatService` (`src/infrastructure/ha/`) | role, `m_running`, time of the last heartbeat, two threads, one multicast socket | `Start`, `Stop`, `HeartbeatLoop`, `ReceiveLoop` with `CheckAndSwitchRole` | the services of other nodes by multicast; asked `IsPrimary()` by listener and alert server |
| `ResourceMonitorListener` (`src/interfaces/udp/`) | one thread, one socket | `ListenLoop`: role check, dispatch of seven commands | broadcaster, heartbeat service |
| `ResourceMonitorBroadcaster` (same file) | `m_currentRunningLabel`, response buffer | task start, stop, query; resource monitoring; chassis reset and self check; BMC query; fault report | platform (HTTP), `ResourceController` (TCP), repositories |
| `QywApiClient` (`src/infrastructure/api_client/`) | one HTTP client, shared by all threads of a node | deploy, undeploy, reset, board and stack information, IP heartbeat | platform |
| `CliService` (`src/interfaces/cli/`) | one thread | deploy, undeploy, reset, board reset and self check, displays | platform, `ResourceController`, repositories |
| `DataCollectorService` (`src/infrastructure/collectors/`) | one thread | `CollectLoop`: boards, stacks, board timeouts | platform, repositories |
| `AlertReceiverServer` (`src/interfaces/http/`) | HTTP server threads, heartbeat thread | board alert, service alert, platform heartbeat | repositories, broadcaster, platform, heartbeat service |
| `BmcReceiver` (`src/interfaces/bmc/`) | one thread, one socket | presence datagrams | chassis repository |
| `ResourceController` (`src/infrastructure/controller/`) | none | one TCP exchange per chassis, parsing of the slots | chassis hardware |
| Repositories, domain (`src/infrastructure/persistence/`, `src/domain/`) | chassis, boards (status, update time, tasks); stacks, services, tasks | save, find, update; the status machine of a board | shared by all of the above |
| `ChassisFactory`, `ConfigManager`, `LoggerConfig`, `UdpDataPrinter` | configuration, logs | load once, look up, print | everyone |
| `main.cpp` | start-up order; the main loop never ends | | everyone |

What is hard in it, and what would make it correct:

* **Heartbeat service.** Three threads per node, messages that are lost, late
  or reordered, crashes, restarts, timeouts, election. Right when two Primaries
  never last, the higher node wins, a survivor takes over, nobody takes over
  from a live Primary, a Primary that counts as one is heard, `Stop` returns.
* **Task control.** A request is checked against the role once and then blocks
  in HTTP for up to minutes, while the role, the platform and the console move
  on. The label of the running task lives in each node's memory and is never
  synchronised. Right when a success was one, the label is that of what runs, a
  stop stops what runs, a query tells what runs, and every request is got to.
* **Boards.** The collector, alerts, BMC reports and the timeout check write
  the same board, partly outside the repository's mutex, in any order. Right
  when the last report about a board wins, and a silent board is not Normal.
* **Stacks.** The repository is cleared and refilled in many steps while other
  threads read. Right when a reader sees the old or the new set.
* **Chassis reset.** Three numberings of slots (flags of the request, slots of
  the board, indices in the reply) and replies that are short or fail in part.
  Right when board *i* is reported reset exactly when its slot was.
* **Life cycle.** Services are stopped in an order while their threads block in
  `recvfrom` without timeout. Right when every `Stop` returns.

## 2. Modules

| Module | What it is |
|---|---|
| `PrimaryStandby` | what the other services rely on: roles of independent nodes; a Primary steps down only for a node that outranks it and has claimed to be Primary |
| `Heartbeat` | the heartbeat service of every node, its threads, sockets and clock, and the network; properties and the refinement mapping to `PrimaryStandby` |
| `TaskControl` | task start, stop and query: listener, broadcaster, HTTP client, platform and console, on top of an instance of `PrimaryStandby` |
| `ChassisReset` | reset and self check of boards, by UDP request and at the console: slot numbers, the TCP exchange with a chassis, and the report built from it |
| `Inventory` | what a node knows of the boards of a chassis and of the stacks: collector, alert server and BMC receiver writing the two repositories, and what others read there |
| `StackMirror` | what the collector promises about the stacks: each answer replaces them as a whole |
| `MCHeartbeat`, `MCTaskControl`, `MCChassisReset`, `MCInventory` | the instances for TLC |
| `HeartbeatProofs` | type correctness and the three invariants of `Heartbeat` |
| `FailoverProofs` | what a handover costs: no moment without a Primary, no takeover without a fault, no election that is lost |
| `HeartbeatRefinement` | `Heartbeat` implements `PrimaryStandby` |
| `TaskControlProofs` | type correctness of `TaskControl`, and what a success is worth under every disturbance |
| `StopProofs` | what a stop and a query achieve where one Primary at a time gets its answers |
| `ResetProofs` | type correctness of `ChassisReset` and what its reports are worth |
| `InventoryProofs` | type correctness of `Inventory`, that it implements `StackMirror`, and what becomes of the numbers of the boards |

The modules compose through `PrimaryStandby`: `Heartbeat` is proved to
implement it, and `TaskControl` uses it for the roles, so that what `TaskControl`
shows does not depend on how the nodes agree on a Primary. `Inventory` is proved
to implement `StackMirror`. `ChassisReset` and `Inventory` are about one node
each: the first asks for its role only, the second not even for that.

### 2.1 Heartbeat

| TLA+ | Code (`heartbeat_service.cpp`) |
|---|---|
| `main[n]` | where `Start`/`Stop` are: `down` (no process), `noSocket` (constructor failed), `idle`, `electing` (the 2 s sleep of `Start`), `up`, `joinHb`, `joinRx` (the joins of `Stop`) |
| `role[n]`, `lastHb[n]` | `m_currentRole`; the age of `m_lastPrimaryHeartbeat` in seconds, `Never` for `time_point{}` |
| `hb[n]`, `hbWait[n]` | the heartbeat thread and its sleep; `none` is not joinable, `done` has ended but is joinable, `send` is between its role check and `sendto` |
| `rx[n]` | the receive thread; `check` is before a `CheckAndSwitchRole` that will switch |
| `inbox[n]` | how many of each datagram wait in the socket; they are read in any order, and one that finds the socket full is lost |
| `link[n]` | whether what `n` sends leaves the node (its own datagrams loop back anyway) |

Every handler of `ReceiveLoop` is one action, `ReceiveHeartbeat`,
`ReceiveElection`, `ReceiveDeclaration`, `ReceiveForeign`, with the declaration
it may send and the `SwitchToStandby` it may make. `TakeOver` is
`CheckAndSwitchRole` with `SwitchToPrimary`. It is a step of its own only when it
switches; the rest of the time it changes nothing. `Start` is split at its sleep
(`StartAuto`, `Decide`), `Stop` at its joins, `HeartbeatLoop` at the check of the
role, because the role may change between the check and `sendto`. The creation of
the two threads at the end of `Start` is one step with the decision: between
them only the new receive thread could run, and the role it would switch to
leads to the same threads. The process may crash at any point.

A datagram on which its receiver cannot act (a Standby's declaration, a
declaration under the own address) is not stored: all it does is let the loop go
round, which `TakeOver` is free to do at any time. The fields `sequence` and
`timestamp` are never read by the code and are left out. One clock is assumed to
run at the same rate on all nodes and never to jump; a jump of `system_clock` is
not modelled. Nor are the runs in which `std::thread` is assigned to a joinable
thread and the process aborts.

`Timely = TRUE` says that a second passes only when every thread has done what
was due (`Settled`); `FALSE` lets clocks run ahead of threads at will.

### 2.2 TaskControl

| TLA+ | Code (`resource_monitor_broadcaster.cpp` unless named) |
|---|---|
| `role`, `claims` | `HeartbeatService::IsPrimary()`, by way of `PrimaryStandby` |
| `inbox[n]` | requests in the listener's socket; a multicast reaches any subset of the nodes |
| `label[n]` | `m_currentRunningLabel` |
| `call[n]` | the HTTP call in which the listener thread blocks, and its reply |
| `jobs`, `running` | the platform: requests it has not carried out, labels whose stacks run |
| `done` | history: which calls the platform carried out, in full or in part, and whether its answer was damaged |

`Takes` is `recvfrom` with the role check behind it (lines 1085-1099). `StartTask`
asks for an exclusive deployment, `StopTask` undeploys the label or, without one,
resets everything. `Query` answers at once, in one of two ways (`QueryAnswers`):
with the work mode of the label, when the task is found on its board and among
the stacks, or, behind any of the four error returns of `BuildTaskQueryResponse`,
with the work mode 0 of the `memset`. Which one is up to what the node has
collected (`Inventory`), so it is a choice here; the claim about queries is for those
that find their task. `Answer` is what follows the HTTP call: the label is updated
by the test of lines 538 and 597 and the response is sent. The platform (`Deploy`,
`Undeploy`, `Reset`, `Refuse`), the HTTP timeouts (`GiveUp`), the loss of a process
(`Leave`) and the console are the environment. A call that is given up may still be
carried out later.

What the platform does (the *outcome*) and what the node reads of it (the *reply*)
are two things. Both are sets of the lists that have entries, `success` and
`failure`. An HTTP error, a code other than 0, an answer that is no JSON and a
timeout leave both empty. An answer whose entries cannot all be parsed does not:
`ParseDeployResponse` reads the successes first and keeps what it has read when an
entry throws, so a partial failure may arrive as a plain success (`Parsed`,
`"damaged"`). Deployments fail in full or in part; undeployments and resets fail
too (`"stopFail"`): the stacks of a label run on, all or some of them
(`failureStackInfos` of `API20251215.txt`, section 3), and a reset that fails has
stopped anything or nothing. A label of which some stacks run counts as running.
That an undeployment of a label that does not run fails is how the platform of
`tests/mock_api_server_simple.py` behaves. The console's commands are atomic: the
client they share with the listener serialises requests.

Disturbances are chosen per run. `handover` lets roles change in every way
`PrimaryStandby` allows; without it a node becomes Primary only when no other is
and the platform has nothing left to do, and it stops being Primary only by
leaving.

### 2.3 ChassisReset

| TLA+ | Code |
|---|---|
| `inbox`, `role` | the listener's socket and `IsPrimary()`, which is asked once per request, after reading it |
| `phase[w]`, `at[w]`, `board[w]` | where the listener thread or the console is in its loop over the chassis: `connect`, `send`, `receive` inside `executeOperation`, `ping` inside `SelfcheckBoard` |
| `flags[w]` | the boards asked for, by chassis |
| `reply[w]` | what `recv` will return: the whole model, a part of it, the end of the connection, or nothing within its timeout |
| `marked` | the bytes that are 0 in the response that the broadcaster builds |
| `tally` | what `ResetAllChassisBoards` and `SelfcheckAllChassisBoards` count |
| `acted[w]` | history: the boards the chassis has really reset, or that answered |

Three numberings meet here: the flag of a board, its slot, and its place in the
list of slots asked for. `Place` is the last one, which `parseResponse` reports as
`slot_number` (`resource_controller.cpp:275`), and `MarkBoards` compares it with the
second. `Connect`, `Send` and `Receive` are the exchange with each of its error
returns; `Conclude` is what both callers do with its outcome. `recv` is called
once, so a reply that arrives in two segments is a short one, and a short one
is parsed as a success that names no slot. The power operations are the same
exchange and nobody calls them. That `ping -W 1000` waits seconds and not
milliseconds makes a self check slow and changes nothing else.

### 2.4 Inventory

| TLA+ | Code |
|---|---|
| `boards[s]` | the `Board` in slot `s`: status, age of `m_lastUpdateTime` in collection intervals, `m_boardNumber`, address, tasks |
| `stacks` | the keys of the stack repository |
| `phase`, `listing`, `checking`, `answer` | where the collector thread is: the boards and the stacks of an answer that are still to be stored, the board whose timeout it checks |
| `alert[h]` | an HTTP thread in `HandleBoardAlert`: the alerts of its batch that are left, and the board found |
| `bmc` | a slot that `UpdateAllBoardsStatus` has decided on, with the mutex held |
| `report`, `location`, `deployed`, `plugged` | the world: what the platform says of boards and stacks, and which boards are in the chassis; `location[s]` is 0 when it gives the board no address |

The repositories hand out pointers to their boards. So every write is one
action, at the grain of the fields it writes: `ApplyFields` and `ApplyTasks` are the
two halves of `UpdateFromApiData`, `Check`, `Mark` and `CopyMarked` the reads and writes
of the timeout check, `FindBoard`, `AlertStatus` and `AlertCopy` those of an alert,
`BmcLook` and `BmcWrite` those of a datagram. Only the steps that call the
repository wait for its mutex, which the BMC receiver holds from look to write;
the others go on at any time. The check is for slots 6 and 7 by the number *in*
the board, and `UpdateBoard` copies a whole board, number included, into the slot
an alert names: after such an alert a board may bear the number of another
(`board.h:84` says that it never changes). It need not name both: an alert without
an address looks for the empty address (line 209), and a board has that as soon as
the platform has left it out of an answer (`qyw_api_client.cpp:275`). So the model's
addresses include the empty one, 0, for boards and for alerts, and `Found` compares
them like any other. Not included are chassis of which the configuration leaves
boards out: every board starts with an address and the number of its slot. A torn read below the grain of
fields (of a string that is being assigned) is undefined behaviour and is not
modelled.

`BoardByte`, `TaskByte` and `TaskFound` are what the monitoring response, the task
query and the console read from it.

A call of the platform may fail, come late, or break off: `ParseBoardInfoResponse`
keeps the boards before the break, `ParseStackInfoResponse` the stacks, and
`GetStackInfo` calls that a success. Datagrams of the chassis say what is plugged
when they are read; one that is late is not modelled. They have ten entries
(`Reported`, `bmc_receiver.cpp:172`): of slots 5, 8, 13 and 14 only the platform tells
anything.

## 3. Runs

| Run | Expected | Shows |
|---|---|---|
| `hb_safety` | pass | `TypeOK`, `TopServes`, `PrimaryBeats`, `StandbyHasHeard`, `ServiceContinues` and the refinement, with threads and clocks at any relative speed and a crash |
| `hb_restart` | pass | `StopReturns` on a node that is stopped and started in every role |
| `hb_converge` | pass | `Converges`, `Failover`, `NoFalseFailover` with the configured times and a fault |
| `hb_late_starter` | violation | `LateStarterStandsBy`: see finding 1 |
| `hb_silent_primary` | violation | `PrimaryBeats` when services are stopped and started: finding 2 |
| `tc_safety` | pass | `TypeOK`, `NoFalseSuccess` under all disturbances except console deployments |
| `tc_calm` | pass | `StopReaches`, `StopStops`, `QueryTruthful` with failing deployments, undeployments and resets, but without handover, timeout, damaged answers and partial deployments |
| `tc_liveness` | pass | `RequestsHandled`: a Primary carries out the starts and stops in its socket, unless it ceases to be Primary, and every call is answered |
| `tc_stale_label` | violation | `LabelIsCurrent` under handover: finding 3 |
| `cr_reports` | pass | `TypeOK`, `OnlyFlagged`, `NeverMoreThanReset`, `PrefixReported`, `TotalsHonest`, `RequestsReported`: two requests or commands at once, every end of every exchange |
| `cr_slots` | violation | `ResetReported`, a board is reported reset only if it was: finding 4 |
| `inv_settles` | pass | `TypeOK`, `StoreSettles`, `NormalExpires`, `UnplugShown`, `QueriesSettle`, `OnlyMisdirection`, `NumbersLostForGood` and the refinement: three kinds of threads on the same boards, two disturbances of any kind |

Bounds and why they are enough:

* *Two nodes*, of which `a` has the higher priority: the service is designed and
  documented for two. The theorems hold for any number.
* *Times.* `hb_converge` has the configured ones (interval 3, timeout 9, wait 2,
  window 5). The other runs have the smallest ones that keep their order:
  ages saturate past the timeout, so longer ones only lengthen behaviours.
* *`MaxCopies = 1`*: one datagram of each kind and sender waits in a socket. Two
  equal ones are read to the same effect as one and a later one; an overflow is
  a loss, so losses occur in every run.
* *`MaxFaults`*: one or two faults at any moment, `hb_restart` three; each
  property's interesting case needs one fault and the recovery from it.
* *Requests*: two or three. Start, start, stop and start, stop, stop are the
  shortest histories in which a label can be wrong. Two labels, symmetric.
* *`ChassisReset`*: two chassis, so that one can fail after the other; three
  slots, so that flags can have a gap and a tail; two requests or commands, so
  that listener and console work at the same time and reports follow each
  other. The theorems hold for any number of all of these.
* *`Inventory`*: slots 1, 5 and 6, two ordinary boards, of which the datagrams do not
  cover the one in slot 5, and a switch board; two stacks, one of them on the switch
  board; reports 0, 1, 2 and omitted (3 is treated as
  1); `Timeout` 2 for the six intervals in 60 s, the smallest at which one missed
  poll does not expire a board; two HTTP threads; six batches of alerts, among
  them misaddressed, damaged and incomplete ones; two disturbances (a board is
  plugged, the platform changes its mind, boards swap addresses or one gets
  another or none, a stack changes, an alert
  comes, a call fails or takes long). One disturbance makes a report stale and
  the second races with it.

Deadlock is checked in all runs. Every property of a passing run is violated
under a mutant of the code it is about (`PROJECT.json`, `mutants`).

### Fairness

`Heartbeat!Fairness` is weak fairness of each of a node's three threads and of
time: the operating system runs every runnable thread. Nothing makes an operator
start or stop anything, a process crash, or a link heal; `Converges` and `Failover`
are conditional on what holds for good. Weak fairness of the receive thread as a
whole is enough, no datagram needs an order. `TaskControl!FairSpec` has weak
fairness of the listener threads only, which includes the HTTP timeout; nothing
is assumed of the platform. `ChassisReset!FairSpec` has weak fairness of the two
threads, whose timeouts end every exchange; nothing is assumed of the chassis.
`Inventory!FairSpec` has weak fairness of the collector (sleeps end and `httplib`
gives up), of each HTTP thread and of the BMC receiver's write, and strong
fairness of its look at each slot of `Reported`: every datagram covers these and the
chassis keeps sending them, so one that differs time and again is got to.
That disturbances end is the bound on their number; the liveness properties say
what holds once they have.

## 4. Findings

1. **A late starter becomes Primary** (`hb_late_starter`). `Start` announces an
   election and sleeps two seconds to hear a Primary, but the receive thread is
   created only after the decision. Every start from a fresh process makes a
   second Primary, until the heartbeats of the higher node make the lower one
   yield; and when the *higher* one is the late starter, the serving Primary
   loses its role. The design says a late starter becomes Standby. This is no
   matter of timing: in any cluster every election is won
   (`FailoverProofs!ElectionIsAlwaysWon`).
2. **A Primary that never beats** (`hb_silent_primary`). `Stop` joins the
   heartbeat thread before the receive thread. The receive thread may still
   switch to Primary and create a heartbeat thread, which ends because the
   service stops, and nobody joins it. After the next `Start` the `joinable()`
   tests take it for a running one.
3. **A Primary remembers a task that does not run** (`tc_stale_label`). While both
   nodes are Primary, one starts `L1` and the other `L2`, and the platform carries
   out the exclusive start of `L2` last. When the node that started `L2` has stepped
   down and every request is answered, the other is the only Primary and its
   label is `L1`. Queries report the work mode of `L1`, and the next stop undeploys
   `L1` and leaves `L2` running. Nothing compares the labels of two nodes, and
   nothing asks the platform.
4. **A reset is reported for the wrong boards** (`cr_slots`). The parser numbers its
   results by their place in the request, the broadcaster takes that for a slot.
   A request for boards 2 and 3 of which 3 is reset is answered as if 2 was. The
   first boards of a chassis without a gap, which is what the console asks for,
   are reported rightly (`PrefixReported`).

Other disagreements that the models exhibit, each a change of a configuration
away: with partial failures (`Disturbances` of `tc_calm` plus `"partial"`)
`StopReaches` fails, since lines 550-560 leave the label at the task before; once
a node has left, `QueryTruthful` without its `faults = 0` fails, since a new
Primary does not know the running task (it answers 0, "no task", against the
comment of line 632); a node that yields while it waits for the platform answers
as a Standby; a console deployment is not exclusive and sets no label (`cliDeploy`
in `tc_calm` violates `StopReaches`); two nodes of the same address (`Ip` constant in
`hb_converge`) stay Primary both, as lines 262 and 281 ignore each other's
claims; a node that yields to a declaration before any heartbeat takes over again
at once, as `time_point{}` counts as timed out.

Disagreements met in the code of `ChassisReset` and `Inventory` that no run is
spent on: `qyw_api_client.cpp:67` documents that `success` includes the parsing of the
answer, but malformed JSON and a code other than 0 count as a success without
stacks, and the collector clears what it had (`StackAnswers`);
`data_collector_service.cpp:170` calls the replacement of the stacks one step, but
it is a `Clear` and many `Save`s (`TaskFound` is wrong in between); `HA_DESIGN.md:369`
says that a Standby does not process alerts, but `HandleBoardAlert` asks for no
role; `board.h:84` says that a number never changes, but an alert that finds a
board by address, be it the empty one, and names another by slot copies one over
the other, and if the number is 6 or 7 the board is exempt from the timeout from then on (nothing else
does it, and nothing undoes it: `OnlyMisdirection`, `NumbersLostForGood`);
`value_objects.h:33` says that a board the platform does not report is judged
Offline, but it becomes Abnormal by the timeout, and only if it was Normal; a
short reply of a chassis is a success without slots, so the console prints a
complete success of 0 boards; a fault description of 256 characters is
terminated one byte past its buffer (`resource_monitor_broadcaster.cpp:901`).

## 5. Proofs

`HeartbeatProofs`, `FailoverProofs` and `HeartbeatRefinement` are checked by TLAPS
for every set of nodes, priorities, addresses, times, fault budgets and bounds that satisfy
`HeartbeatAssumption` (priorities are integers, addresses and times natural
numbers, intervals and `MaxCopies` positive, `FreshWindow` at most one more than
the timeout, so that the saturated age still decides the comparison).

* `TypeCorrect`: `Spec => []TypeOK`. The work is in `Sent`, whose lemma `SentType`
  shows that no socket exceeds its bound.
* `PrimaryAlwaysBeats`: if services are not stopped (`"stop" \notin Faults`), then
  `Spec => []PrimaryBeats`. `PrimaryBeats` is not inductive: that `Start` creates a
  thread only where none is joinable helps only if no ended thread lies around.
  The strengthening says that without `Stop` no thread is ever `done`, that a
  thread exists only in a service that is up, and that nothing is running before.
  `hb_silent_primary` shows that the condition is needed.
* `TopAlwaysServes`: if services are neither stopped nor forced to start as
  Standby, the node nobody outranks is Primary whenever it is past its election.
  A node becomes Standby by `Elected`, which needs a heartbeat nobody received, or
  by `MustYield`, which needs one that outranks it; the invariant carries that a
  node that has not been up has never heard a heartbeat.
* `StandbyAlwaysHeard`: if no service is told to start as Standby, `Spec =>
  []StandbyHasHeard`, even when services are stopped and started. The invariant
  drops the condition that the service is up: between `Stop` and its joins the
  receive thread still waits and may still switch roles.
* `ServiceAlwaysContinues`: `Spec => []ServiceContinues`, with no condition on the
  cluster, the times or the network. `ServiceContinues` says that until a node
  dies (`NoneHasDied`) every node that has been Primary is Primary or outranked by
  one that is. It is inductive once claims are known to come from nodes that have
  been Primary (`ClaimInv`: a heartbeat or a Primary's declaration in a socket has a
  sender with a heartbeat thread) and threads stay (`AliveInv`). Then a node that
  yields to a claim, however old, does so to a better node *q*; *q* has been
  Primary, so some Primary is no worse than *q*, hence better than the node that
  yields, so it is another one and covers whomever the first covered. This uses
  that rank is transitive and irreflexive, the lemmas on `Superior`; that a chain
  of stale claims cannot make all nodes yield is exactly what two nodes do not show.
* `NoFailoverIsFalse`: if threads run within the second in which they are due
  (`Timely`) and `HeartbeatInterval <= TimeoutThreshold`, then `Spec =>
  NoFalseFailover`. The configured 3 s and 9 s meet the second with room to spare.
  Neither can be dropped: with clocks that run ahead of the threads, and with a
  longer interval, TLC finds a false failover. The invariant
  `TimingInv` says, while there is no fault, that no link is cut, that no age exceeds
  the interval, and that for every node that has been Primary there is a Primary
  whose next heartbeat waits in every socket or will be sent before the age there
  exceeds the interval (`Serves`). That there always is one is the argument of
  `ServiceAlwaysContinues` again, with times.
* `ElectionIsAlwaysWon`: if services are not stopped and started again, every step
  that ends the sleep of `Start` makes the node Primary. Nothing can have renewed the
  age: the receive thread does not exist yet.
* `HeartbeatRefinesPrimaryStandby`: `Spec => ImplementsPrimaryStandby`. Under the
  mapping `AbsRole`, `Claimants` a claim is outstanding while its node is Primary,
  holds a decided heartbeat in its hand (`hb = "send"`) or has a claim in some
  socket. The lemmas follow each way claims can go: sending adds only the
  sender's (`SendsOther`), reading and losing only removes (`Lapse`), a thread in
  `send` was Primary. The invariant `Lifecycle` ties the threads to the life of
  the process, so that a crash or a stop maps to `Leave`.

The proofs about `TaskControl` hold for every set of nodes and labels and every
bound that satisfy `TaskAssumption` (`None` is no label, the disturbances are
known kinds, the bounds are natural numbers).

* `TaskControlProofs!TypeCorrect`: `Spec => []TypeOK`; a late reply never leaves a
  node with a reply but no call.
* `SuccessIsTrue`: `Spec => NoFalseSuccess`, whatever the disturbances. The
  invariant `BackedInv` says that a call that holds a success is one the platform
  carried out, in full or with a damaged answer; a late job of an earlier call does not disturb it, as its reply
  goes only to the call it belongs to.
* `StopAlwaysReaches`, `StopAlwaysStops`, `QueryAlwaysTruthful`: under `Undisputed`,
  that is without handover, client timeout, damaged answer, partial deployment and
  console deployments (nodes still leave, requests are lost, deployments fail,
  undeployments and resets fail in full or in part, and operators stop things),
  `StopReaches`, `StopStops` and `QueryTruthful` hold. All
  three follow from `StopInv`: only the one Primary knows a label or has a call
  (`Owned`), every job is what that call waits for, the label the Primary will
  have once its call is answered covers what runs (`Covered`), and is exact until
  the first disturbance (`Undisturbed`). `StopReaches` alone is not inductive: it
  says nothing of a Primary whose call is under way. `tc_stale_label` shows that
  `Undisputed` cannot do without handover.

`ResetProofs` holds for any number of chassis, slots and requests and any
`FlagSets`. `OnlyFlagged`, `NeverMoreThanReset` and `PrefixReported` follow from one
invariant: workers go through the chassis in order and what lies ahead of them
is still untouched (`Order`), a reply names only boards that were asked for and
really reset (`Replied`), and the boards marked for a chassis are flagged and, in a reset,
are the places of boards that were reset (`Marks`). None of the three is
inductive by itself: that nothing is marked for a chassis before its exchange
is concluded is needed for the count, and what a reply is worth is settled
before it is read. The arithmetic is in two lemmas: a set has at most as many
places as members (`PlacesBounded`), and on `1 .. k` the place of a slot is the slot
(`PrefixPlace`).

`TotalsAlwaysHonest` is about the console: `Spec => []TotalsHonest`. What is counted is
about the boards that the console has come past (`Passed`); `TallyInv` bounds the
boards counted as done by those among them that were reset or answered, and all
boards counted by the boards passed. Each step adds to `Passed` exactly the boards
of the chassis (`BoardsOfChassis`) or the board it concludes, and the count grows
by no more (`ResultsBounded`, `TallyCounts`). The two workers share nothing but the
counter of requests, so a step of one leaves the other's invariant alone
(`WorkersApart`).

`InventoryProofs` holds for any slots, stacks, alerts, reports and timeouts.
`TypeCorrect` says more than types: an entry about to be stored has a board to go
to, and no copy makes a board in a slot the chassis does not have, whatever an
alert says. `InventoryMirrorsStacks` is the refinement: under the mapping `Mirror`
the store has, from `Clear` on, what it will have after the last `Save`, so `Clear` is
the replacement and every `Save` a stutter.

The numbers of the boards decide which of them the timeout exempts.
`OnlyMisdirectionSpoils` (`Spec => OnlyMisdirection`) and `LostForGood` (`Spec =>
NumbersLostForGood`) say that only an alert that finds one board and names the slot
of another spoils them, and that it does so for good. `SoundAlertsKeepNumbers` draws
the conclusion for the interface: if the platform leaves boards their addresses, and
every alert that gives an address and a slot gives those of one board, then
`[]Intact`. Its invariant `SoundInv` adds that boards, and entries about to be stored,
have the addresses they had at first, and that an alert that names a slot of the
chassis has found the board in it. That boards
bear the numbers of their slots is not inductive: the timeout check copies a board
to a number it has read two steps before, when the numbers may have been others.
`NumbersInv` therefore adds that numbers which are wrong never become right again:
a copy that spoils them overwrites the only board with some number (`Copied`), and
no step brings back a number that no board bears (`BorneShrinks`). The other
claims about boards say what holds in the end and need fairness: they are only
model-checked.

Only model-checked: everything under fairness (`Converges`, `Failover`,
`StopReturns`, `RequestsHandled`, `RequestsReported`, `StoreSettles`, `NormalExpires`,
`UnplugShown`, `QueriesSettle`), since TLAPS cannot prove liveness here. Every
invariant and every action property of a passing run is a theorem.

## 6. Not modelled

* `Stop` of the services other than the heartbeat service, and the order of the
  shutdown in `main.cpp`: the main loop never ends, so none of it runs. If it did,
  the joins of threads that block in `recvfrom` without a timeout would wait for
  another datagram.
* Fault reports, service alerts, the BMC query and the IP heartbeat: each sends
  one message made from its input or from what the models already have, and
  keeps no state.
* The race between the end of `Start` and a receive thread that switches at once
  (two threads created behind one `joinable()` test), and clocks that jump.
* Data races below the grain of a field, late datagrams of a chassis, sensor
  values, labels, resource figures: nothing else depends on them.
* Configuration and factory (constants and initial states of the models),
  logging and console output (no state), the layout of UDP and JSON messages,
  and everything under `third_party/` and `tests/`, which enters the models as
  environment.

What could follow, in this order: the race at the end of `Start`, by splitting
`ThreadsStart` at its test; delayed BMC datagrams; a self check's report and the
invariants behind the liveness properties as theorems.
