----------------------------- MODULE ChassisReset -----------------------------
(***************************************************************************)
(* Resetting and checking the boards of the chassis.  Two threads do it,   *)
(* with the same ResourceController, which keeps no state: the thread of   *)
(* the ResourceMonitorListener, for requests by multicast, and that of the *)
(* console, for the commands "reset" and "selfcheck".  Each goes through   *)
(* the chassis one after the other; the boards of a chassis are reset by   *)
(* one exchange over TCP with its switch board (executeOperation), and a   *)
(* board is checked by a ping.                                             *)
(*                                                                         *)
(* The reply to an exchange is honest: its m_slot is 0 exactly for the     *)
(* boards that were reset.  A chassis that acts on a request when nobody   *)
(* waits any more is left out, for nothing is reported of it.              *)
(***************************************************************************)
EXTENDS Naturals, FiniteSets, Sequences

CONSTANTS
  NumChassis,   \* 9 in the protocol
  NumSlots,     \* boards of a chassis that the protocol knows, 12
  MaxRequests,  \* bound on the requests sent, and on the console commands
  Commands,     \* what is asked: a subset of {"reset", "check"}
  FlagSets      \* the boards that requests flag, by chassis

ASSUME ResetAssumption ==
  /\ NumChassis \in Nat \ {0}
  /\ NumSlots \in Nat \ {0}
  /\ MaxRequests \in Nat
  /\ Commands \subseteq {"reset", "check"}
  /\ FlagSets \subseteq [1 .. NumChassis -> SUBSET (1 .. NumSlots)]

Chassis == 1 .. NumChassis
Slots   == 1 .. NumSlots
Worker  == {"listener", "console"}

VARIABLES
  role,      \* the role that HeartbeatService gives this node
  sent,      \* number of requests and commands so far
  inbox,     \* requests in the listener's socket
  phase,     \* what each worker is doing
  command,   \* what it was asked to do
  flags,     \* the boards it was asked to do it to, by chassis
  at,        \* the chassis it has come to
  board,     \* the board of that chassis it checks
  reply,     \* what its connection has received
  acted,     \* the boards that were reset, or answered, on its behalf
  marked,    \* listener: the boards whose byte in the response is 0
  tally      \* console: the boards counted as done and as failed

work == <<phase, command, flags, at, board, reply, acted, marked, tally>>
vars == <<role, sent, inbox, work>>

-----------------------------------------------------------------------------
Request == [command : Commands, flags : FlagSets]
Reply   == [form : {"full", "short", "closed", "lost"}, ok : SUBSET Slots]
NoReply == [form |-> "none", ok |-> {}]
Nobody  == [c \in Chassis |-> {}]
AllBoards == [c \in Chassis |-> Slots]
Phases  == {"idle", "connect", "send", "receive", "ping", "report"}

(* The types of the state: the tally and the place of a worker stay in     *)
(* range however its exchanges end.                                        *)
TypeOK ==
  /\ role \in {"Primary", "Standby"}
  /\ sent \in 0 .. MaxRequests
  /\ inbox \in Seq(Request)
  /\ phase \in [Worker -> Phases]
  /\ command \in [Worker -> {"reset", "check"}]
  /\ flags \in [Worker -> [Chassis -> SUBSET Slots]]
  /\ at \in [Worker -> Chassis]
  /\ board \in [Worker -> Slots]
  /\ reply \in [Worker -> Reply \cup {NoReply}]
  /\ acted \in [Worker -> [Chassis -> SUBSET Slots]]
  /\ marked \in [Chassis -> SUBSET Slots]
  /\ tally \in [done : Nat, failed : Nat]

-----------------------------------------------------------------------------
(* The reply and what becomes of it.                                       *)

PlaceDescending(slots, s) == Cardinality({t \in slots : t >= s})

(* The place of slot s in the vector slotNumbers, which lists the          *)
(* requested slots in ascending order.                                     *)
Place(slots, s) == Cardinality({t \in slots : t <= s})

Places(slots, some) == {Place(slots, s) : s \in some}

(* parseResponse: slot_number is the place of a slot in the request.  A    *)
(* reply shorter than an OperationModel is a success that names no slot.   *)
ParseResponse(r, slots) ==
  LET full == r.form = "full"
      good == IF full THEN Places(slots, slots \cap r.ok) ELSE {}
      bad  == IF full THEN Places(slots, slots \ r.ok) ELSE {}
  IN [result |-> CASE r.form = "closed"         -> "INVALID_RESPONSE"
                   [] bad = {}                  -> "SUCCESS"
                   [] good # {} /\ bad # {}     -> "PARTIAL_SUCCESS"
                   [] OTHER                     -> "INVALID_RESPONSE",
      good |-> good, bad |-> bad]

Failure(result) == [result |-> result, good |-> {}, bad |-> {}]

Succeeded(outcome) == outcome.result \in {"SUCCESS", "PARTIAL_SUCCESS"}

(* Variants of MarkBoards: bytes by place from 0, by place without a look  *)
(* at the request, and by the overall result alone.                        *)
MarkByIndex(outcome, slots) ==
  IF Succeeded(outcome) THEN {p - 1 : p \in outcome.good} ELSE {}
MarkPlaces(outcome, slots) == IF Succeeded(outcome) THEN outcome.good ELSE {}
MarkAll(outcome, slots)    == IF Succeeded(outcome) THEN slots ELSE {}

(* BuildChassisResetResponse: the boards of the chassis whose byte becomes *)
(* 0 are those whose slot number is the slot_number of a good result.      *)
MarkBoards(outcome, slots) ==
  IF Succeeded(outcome) THEN {s \in slots : s \in outcome.good} ELSE {}

CountAllOnSuccess(outcome, slots) ==
  IF Succeeded(outcome) THEN [tally EXCEPT !.done = @ + Cardinality(slots)]
  ELSE [tally EXCEPT !.failed = @ + Cardinality(slots)]

(* ResetAllChassisBoards: results are counted, or all boards failed.       *)
Count(outcome, slots) ==
  IF Succeeded(outcome)
  THEN [done   |-> tally.done + Cardinality(outcome.good),
        failed |-> tally.failed + Cardinality(outcome.bad)]
  ELSE [done |-> tally.done, failed |-> tally.failed + Cardinality(slots)]

-----------------------------------------------------------------------------
(* Requests and commands.                                                  *)

RoleChange ==
  /\ role' \in {"Primary", "Standby"} \ {role}
  /\ UNCHANGED <<sent, inbox, work>>

(* A check is asked for one chassis only; FindByNumber may not know it.    *)
SendRequest(r) ==
  /\ sent < MaxRequests
  /\ r.command = "check" => Cardinality({c \in Chassis : r.flags[c] # {}}) <= 1
  /\ sent' = sent + 1
  /\ inbox' = Append(inbox, r)
  /\ UNCHANGED <<role, work>>

(* The next chassis with a board to reset, or the next board to check.     *)
Pending(f, c) == {d \in Chassis : d > c /\ f[d] # {}}
IsFirst(x, S) == x \in S /\ \A y \in S : x <= y

Goto(w, cmd, f, c) ==
  \/ /\ Pending(f, c) = {}
     /\ phase' = [phase EXCEPT ![w] = "report"]
     /\ UNCHANGED <<at, board>>
  \/ \E d \in Chassis, s \in Slots :
       /\ IsFirst(d, Pending(f, c))
       /\ IsFirst(s, f[d])
       /\ phase' = [phase EXCEPT ![w] = IF cmd = "reset" THEN "connect" ELSE "ping"]
       /\ at' = [at EXCEPT ![w] = d]
       /\ board' = [board EXCEPT ![w] = s]

Begin(w, cmd, f) ==
  /\ phase[w] = "idle"
  /\ command' = [command EXCEPT ![w] = cmd]
  /\ flags' = [flags EXCEPT ![w] = f]
  /\ Goto(w, cmd, f, 0)

(* ListenLoop: the request is read first and the role asked then; all      *)
(* bytes of the response start as 1.                                       *)
HandleRequest ==
  /\ inbox # <<>>
  /\ role = "Primary"
  /\ inbox' = Tail(inbox)
  /\ Begin("listener", Head(inbox).command, Head(inbox).flags)
  /\ UNCHANGED <<role, sent, reply, acted, marked, tally>>

IgnoreRequest ==
  /\ inbox # <<>>
  /\ role = "Standby"
  /\ phase["listener"] = "idle"
  /\ inbox' = Tail(inbox)
  /\ UNCHANGED <<role, sent, work>>

(* The console resets or checks the first 12 boards of every chassis,      *)
(* whatever the role of its node.                                          *)
ConsoleCommand ==
  /\ sent < MaxRequests
  /\ sent' = sent + 1
  /\ \E cmd \in Commands : Begin("console", cmd, AllBoards)
  /\ UNCHANGED <<role, inbox, reply, acted, marked, tally>>

-----------------------------------------------------------------------------
(* executeOperation.                                                       *)

(* The exchange with chassis at[w] is over: its outcome goes into the      *)
(* response or the tally, and the worker moves on.                         *)
Conclude(w, outcome) ==
  LET slots == flags[w][at[w]]
  IN /\ IF w = "listener"
        THEN /\ marked' = [marked EXCEPT ![at[w]] = MarkBoards(outcome, slots)]
             /\ UNCHANGED tally
        ELSE /\ tally' = Count(outcome, slots)
             /\ UNCHANGED marked
     /\ reply' = [reply EXCEPT ![w] = NoReply]
     /\ Goto(w, "reset", flags[w], at[w])
     /\ UNCHANGED <<role, sent, inbox, command, flags, acted>>

Step(w, from, to) ==
  /\ phase[w] = from
  /\ phase' = [phase EXCEPT ![w] = to]
  /\ UNCHANGED <<role, sent, inbox, command, flags, at, board, acted, marked, tally>>

(* connect is not blocking and select waits for it 10 seconds; the address *)
(* may be no address at all.                                               *)
Connect(w) ==
  \/ Step(w, "connect", "send") /\ UNCHANGED reply
  \/ /\ phase[w] = "connect"
     /\ \E e \in {"NETWORK_ERROR", "TIMEOUT_ERROR"} : Conclude(w, Failure(e))

(* The OperationModel is sent in full or the exchange ends, again after at *)
(* most 10 seconds without progress.                                       *)
Send(w) ==
  \/ Step(w, "send", "receive") /\ UNCHANGED reply
  \/ /\ phase[w] = "send"
     /\ \E e \in {"NETWORK_ERROR", "TIMEOUT_ERROR"} : Conclude(w, Failure(e))

(* The m_slot bits of the OperationModel ask for the flagged boards.       *)
Requested(w) == flags[w][at[w]]

(* The chassis resets some of the boards it is asked to, all in good case, *)
(* and replies: with the model, with the part of it that one recv returns, *)
(* by closing the connection, or not at all.                               *)
Perform(w) ==
  /\ phase[w] = "receive"
  /\ reply[w] = NoReply
  /\ \E ok \in SUBSET Requested(w), form \in {"full", "short", "closed", "lost"} :
       /\ acted' = [acted EXCEPT ![w][at[w]] = ok]
       /\ reply' = [reply EXCEPT ![w] = [form |-> form, ok |-> ok]]
  /\ UNCHANGED <<role, sent, inbox, phase, command, flags, at, board, marked, tally>>

ReceiveBlocking(w) ==
  /\ phase[w] = "receive"
  /\ reply[w].form \in {"full", "short", "closed"}
  /\ Conclude(w, ParseResponse(reply[w], flags[w][at[w]]))

(* recv waits 10 seconds (SO_RCVTIMEO) and is called once.                 *)
Receive(w) ==
  /\ phase[w] = "receive"
  /\ \/ /\ reply[w].form \in {"full", "short", "closed"}
        /\ Conclude(w, ParseResponse(reply[w], flags[w][at[w]]))
     \/ /\ reply[w].form \in {"none", "lost"}
        /\ Conclude(w, Failure("TIMEOUT_ERROR"))

-----------------------------------------------------------------------------
(* SelfcheckBoard, once for each flagged board, the boards in order.  A    *)
(* board without an address, or that is not there, fails without a ping.   *)

(* BuildChassisSelfCheckResponse sets the byte of the board to 0.          *)
MarkAnswer(c, s, up) ==
  /\ marked' = IF up THEN [marked EXCEPT ![c] = @ \cup {s}] ELSE marked
  /\ UNCHANGED tally

(* SelfcheckAllChassisBoards counts it.                                    *)
CountAnswer(up) ==
  /\ tally' = [done   |-> tally.done + IF up THEN 1 ELSE 0,
               failed |-> tally.failed + IF up THEN 0 ELSE 1]
  /\ UNCHANGED marked

Ping(w) ==
  LET c    == at[w]
      s    == board[w]
      rest == {t \in flags[w][c] : t > s}
  IN /\ phase[w] = "ping"
     /\ \E up \in BOOLEAN :
          /\ acted' = IF up THEN [acted EXCEPT ![w][c] = @ \cup {s}] ELSE acted
          /\ IF w = "listener" THEN MarkAnswer(c, s, up) ELSE CountAnswer(up)
     /\ \/ /\ \E t \in Slots : IsFirst(t, rest) /\ board' = [board EXCEPT ![w] = t]
           /\ UNCHANGED <<phase, at>>
        \/ rest = {} /\ Goto(w, "check", flags[w], c)
     /\ UNCHANGED <<role, sent, inbox, command, flags, reply>>

(* The response is multicast, the totals are printed; both are built anew  *)
(* for the next request.                                                   *)
Report(w) ==
  /\ phase[w] = "report"
  /\ phase' = [phase EXCEPT ![w] = "idle"]
  /\ command' = [command EXCEPT ![w] = "reset"]
  /\ flags' = [flags EXCEPT ![w] = Nobody]
  /\ at' = [at EXCEPT ![w] = 1]
  /\ board' = [board EXCEPT ![w] = 1]
  /\ acted' = [acted EXCEPT ![w] = Nobody]
  /\ IF w = "listener" THEN marked' = Nobody /\ UNCHANGED tally
     ELSE tally' = [done |-> 0, failed |-> 0] /\ UNCHANGED marked
  /\ UNCHANGED <<role, sent, inbox, reply>>

-----------------------------------------------------------------------------
Init ==
  /\ role \in {"Primary", "Standby"}
  /\ sent = 0
  /\ inbox = <<>>
  /\ phase = [w \in Worker |-> "idle"]
  /\ command = [w \in Worker |-> "reset"]
  /\ flags = [w \in Worker |-> Nobody]
  /\ at = [w \in Worker |-> 1]
  /\ board = [w \in Worker |-> 1]
  /\ reply = [w \in Worker |-> NoReply]
  /\ acted = [w \in Worker |-> Nobody]
  /\ marked = Nobody
  /\ tally = [done |-> 0, failed |-> 0]

(* What a worker does by itself once it has a request.                     *)
Work(w) == Connect(w) \/ Send(w) \/ Receive(w) \/ Ping(w) \/ Report(w)

Next ==
  \/ RoleChange
  \/ \E r \in Request : SendRequest(r)
  \/ HandleRequest \/ IgnoreRequest
  \/ ConsoleCommand
  \/ \E w \in Worker : Work(w) \/ Perform(w)

Spec == Init /\ [][Next]_vars

(* The threads run; nothing is assumed of the chassis, whose silence only  *)
(* the timeouts of executeOperation end.                                   *)
FairSpec ==
  /\ Spec
  /\ WF_vars(HandleRequest \/ IgnoreRequest)
  /\ \A w \in Worker : WF_vars(Work(w))

-----------------------------------------------------------------------------
(* Properties.                                                             *)

(* A board is reported only if the request flagged it (UDP.txt: a byte is  *)
(* 1 for a board that was not asked for), though results are matched by    *)
(* number in a list that other chassis and other commands use as well.     *)
OnlyFlagged ==
  \A c \in Chassis : marked[c] \subseteq flags["listener"][c]

(* Of each chassis no more boards are reported as reset than were reset,   *)
(* whatever replies are lost, cut short or late: a partial failure is      *)
(* never rounded up (lines 836-863).                                       *)
NeverMoreThanReset ==
  \A c \in Chassis :
    Cardinality(marked[c]) <= Cardinality(acted["listener"][c])

(* Boards are reported one by one, and rightly, when the request flags the *)
(* boards of a chassis from the first one without a gap, as the console    *)
(* does; for others see ResetReported.                                     *)
PrefixReported ==
  \A c \in Chassis :
    (\E k \in 0 .. NumSlots : flags["listener"][c] = 1 .. k)
      => marked[c] \subseteq acted["listener"][c]

(* The board of byte i of the response was reset if the byte is 0: UDP.txt *)
(* says the bytes stand for the boards in order and 0 for a reset done.    *)
ResetReported ==
  \A c \in Chassis : marked[c] \subseteq acted["listener"][c]

Boards == Chassis \X Slots

BoardsOf(f) == {x \in Boards : x[2] \in f[x[1]]}

(* The console counts no more boards as done than were, and no more in all *)
(* than there are; boards of a short reply are counted neither way.        *)
TotalsHonest ==
  /\ tally.done <= Cardinality(BoardsOf(acted["console"]))
  /\ tally.done + tally.failed <= Cardinality(Boards)

(* A worker that has taken a request reports in the end, though a chassis  *)
(* never answers, or answers none of the requests: there is one thread for *)
(* all requests (ListenLoop), so nothing else would be answered either.    *)
RequestsReported ==
  \A w \in Worker : phase[w] # "idle" ~> phase[w] = "idle"
=============================================================================
