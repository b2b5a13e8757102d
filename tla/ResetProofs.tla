------------------------------ MODULE ResetProofs ------------------------------
(* Theorems about ChassisReset, for any number of chassis, of slots and of *)
(* requests, and whatever boards the requests flag.                        *)
EXTENDS ChassisReset, FiniteSetTheorems, TLAPS

USE ResetAssumption DEF Chassis, Slots

-----------------------------------------------------------------------------
(* Sets of slots.                                                          *)

(* Every set of slots is finite.                                           *)
LEMMA SlotsFinite ==
  ASSUME NEW S \in SUBSET Slots
  PROVE  IsFiniteSet(S) /\ Cardinality(S) \in Nat
<1>1. IsFiniteSet(Slots)
  BY FS_Interval
<1>2. QED
  BY <1>1, FS_Subset, FS_CardinalityType

(* A place is a number.                                                    *)
LEMMA PlaceType ==
  ASSUME NEW S \in SUBSET Slots, NEW s
  PROVE  Place(S, s) \in Nat
<1>1. {t \in S : t <= s} \in SUBSET Slots
  OBVIOUS
<1>2. QED
  BY <1>1, SlotsFinite DEF Place

(* Slots have no more places than there are slots.                         *)
LEMMA PlacesBounded ==
  ASSUME NEW S \in SUBSET Slots, NEW A \in SUBSET S
  PROVE  /\ IsFiniteSet(Places(S, A))
         /\ Cardinality(Places(S, A)) \in Nat
         /\ Cardinality(Places(S, A)) <= Cardinality(A)
<1> DEFINE place == [s \in A |-> Place(S, s)]
<1>1. place \in Surjection(A, Places(S, A))
  BY DEF Surjection, Places
<1>2. IsFiniteSet(A)
  BY SlotsFinite
<1>3. QED
  BY <1>1, <1>2, FS_Surjection, FS_CardinalityType

(* In a request for the first k boards, the place of a slot is its number. *)
LEMMA PrefixPlace ==
  ASSUME NEW k \in 0 .. NumSlots, NEW s \in 1 .. k
  PROVE  Place(1 .. k, s) = s
<1>1. {t \in 1 .. k : t <= s} = 1 .. s
  OBVIOUS
<1>2. Cardinality(1 .. s) = s
  BY FS_Interval
<1>3. QED
  BY <1>1, <1>2 DEF Place

(* What is reported of a reply is about slots that were asked for, and the *)
(* results are finitely many.                                              *)
LEMMA ParseResponseType ==
  ASSUME NEW r \in Reply, NEW S \in SUBSET Slots
  PROVE  /\ ParseResponse(r, S).good \subseteq Places(S, S \cap r.ok)
         /\ Cardinality(ParseResponse(r, S).good) \in Nat
         /\ Cardinality(ParseResponse(r, S).bad) \in Nat
<1>1. Cardinality({}) \in Nat
  BY FS_EmptySet
<1>2. /\ Cardinality(Places(S, S \cap r.ok)) \in Nat
      /\ Cardinality(Places(S, S \ r.ok)) \in Nat
  BY PlacesBounded
<1>3. CASE r.form = "full"
  BY <1>2, <1>3 DEF ParseResponse
<1>4. CASE r.form # "full"
  BY <1>1, <1>4 DEF ParseResponse
<1>5. QED
  BY <1>3, <1>4

-----------------------------------------------------------------------------
(* Type correctness.                                                       *)

(* Where a worker goes next.                                               *)
LEMMA GotoType ==
  ASSUME TypeOK, NEW w \in Worker, NEW cmd, NEW f, NEW c, Goto(w, cmd, f, c)
  PROVE  /\ phase' \in [Worker -> Phases]
         /\ at' \in [Worker -> Chassis]
         /\ board' \in [Worker -> Slots]
<1>1. CASE /\ phase' = [phase EXCEPT ![w] = "report"]
           /\ UNCHANGED <<at, board>>
  BY <1>1 DEF TypeOK, Phases
<1>2. ASSUME NEW d \in Chassis, NEW s \in Slots,
             phase' = [phase EXCEPT ![w] = IF cmd = "reset" THEN "connect" ELSE "ping"],
             at' = [at EXCEPT ![w] = d],
             board' = [board EXCEPT ![w] = s]
      PROVE  /\ phase' \in [Worker -> Phases]
             /\ at' \in [Worker -> Chassis]
             /\ board' \in [Worker -> Slots]
  <2>1. (IF cmd = "reset" THEN "connect" ELSE "ping") \in Phases
    BY DEF Phases
  <2>2. QED
    BY <1>2, <2>1 DEF TypeOK
<1>3. QED
  BY <1>1, <1>2 DEF Goto

(* A worker that concludes an exchange.                                    *)
LEMMA ConcludeType ==
  ASSUME TypeOK, NEW w \in Worker, NEW outcome,
         Cardinality(outcome.good) \in Nat, Cardinality(outcome.bad) \in Nat,
         Conclude(w, outcome)
  PROVE  TypeOK'
<1> DEFINE slots == flags[w][at[w]]
<1>1. slots \in SUBSET Slots
  BY DEF TypeOK
<1>2. marked' \in [Chassis -> SUBSET Slots]
  <2>1. MarkBoards(outcome, slots) \in SUBSET Slots
    BY <1>1 DEF MarkBoards
  <2>2. marked' = marked \/ marked' = [marked EXCEPT ![at[w]] = MarkBoards(outcome, slots)]
    BY DEF Conclude
  <2>3. marked \in [Chassis -> SUBSET Slots]
    BY DEF TypeOK
  <2>4. [marked EXCEPT ![at[w]] = MarkBoards(outcome, slots)] \in [Chassis -> SUBSET Slots]
    BY ONLY <2>1, <2>3
  <2>5. QED
    BY <2>2, <2>3, <2>4
<1>3. tally' \in [done : Nat, failed : Nat]
  <2>1. Count(outcome, slots) \in [done : Nat, failed : Nat]
    <3>1. tally.done \in Nat /\ tally.failed \in Nat
      BY DEF TypeOK
    <3>2. Cardinality(slots) \in Nat
      BY <1>1, SlotsFinite
    <3>3. CASE Succeeded(outcome)
      BY <3>1, <3>3 DEF Count
    <3>4. CASE ~Succeeded(outcome)
      BY <3>1, <3>2, <3>4 DEF Count
    <3>5. QED
      BY <3>3, <3>4
  <2>2. tally' = tally \/ tally' = Count(outcome, slots)
    BY DEF Conclude
  <2>3. QED
    BY <2>1, <2>2 DEF TypeOK
<1>4. reply' \in [Worker -> Reply \cup {NoReply}]
  BY DEF Conclude, TypeOK
<1>5. Goto(w, "reset", flags[w], at[w])
  BY DEF Conclude
<1>6. QED
  BY <1>2, <1>3, <1>4, <1>5, GotoType DEF Conclude, TypeOK

(* Neither a failure nor a reply can spoil the tally.                      *)
LEMMA FailureType ==
  ASSUME NEW e
  PROVE  Cardinality(Failure(e).good) \in Nat /\ Cardinality(Failure(e).bad) \in Nat
BY FS_EmptySet DEF Failure

(* A worker that has no reply to conclude with.                            *)
LEMMA StepType ==
  ASSUME TypeOK, NEW w \in Worker, NEW to \in Phases, NEW from,
         Step(w, from, to), UNCHANGED reply
  PROVE  TypeOK'
BY DEF Step, TypeOK

(* A worker that takes a request or a command.                             *)
LEMMA BeginType ==
  ASSUME TypeOK, NEW w \in Worker, NEW cmd \in {"reset", "check"},
         NEW f \in [Chassis -> SUBSET Slots], Begin(w, cmd, f)
  PROVE  /\ phase' \in [Worker -> Phases]
         /\ at' \in [Worker -> Chassis]
         /\ board' \in [Worker -> Slots]
         /\ command' \in [Worker -> {"reset", "check"}]
         /\ flags' \in [Worker -> [Chassis -> SUBSET Slots]]
<1>1. Goto(w, cmd, f, 0)
  BY DEF Begin
<1>2. QED
  BY <1>1, GotoType DEF Begin, TypeOK

(* Every step keeps the types.                                             *)
LEMMA TypeStep ==
  ASSUME TypeOK, [Next]_vars
  PROVE  TypeOK'
<1>1. CASE RoleChange
  BY <1>1 DEF RoleChange, work, TypeOK
<1>2. ASSUME NEW r \in Request, SendRequest(r) PROVE TypeOK'
  BY <1>2 DEF SendRequest, work, TypeOK
<1>3. CASE HandleRequest
  <2>1. inbox' \in Seq(Request) /\ Head(inbox) \in Request
    BY <1>3 DEF HandleRequest, TypeOK
  <2>2. /\ Head(inbox).command \in {"reset", "check"}
        /\ Head(inbox).flags \in [Chassis -> SUBSET Slots]
    BY <2>1 DEF Request
  <2>3. Begin("listener", Head(inbox).command, Head(inbox).flags)
    BY <1>3 DEF HandleRequest
  <2>4. "listener" \in Worker
    BY DEF Worker
  <2>5. /\ phase' \in [Worker -> Phases]
        /\ at' \in [Worker -> Chassis]
        /\ board' \in [Worker -> Slots]
        /\ command' \in [Worker -> {"reset", "check"}]
        /\ flags' \in [Worker -> [Chassis -> SUBSET Slots]]
    BY <2>2, <2>3, <2>4, BeginType
  <2>6. QED
    BY <1>3, <2>1, <2>5 DEF HandleRequest, TypeOK
<1>4. CASE IgnoreRequest
  BY <1>4 DEF IgnoreRequest, work, TypeOK
<1>5. CASE ConsoleCommand
  <2>1. PICK cmd \in Commands : Begin("console", cmd, AllBoards)
    BY <1>5 DEF ConsoleCommand
  <2>2. AllBoards \in [Chassis -> SUBSET Slots]
    BY DEF AllBoards
  <2>3. cmd \in {"reset", "check"} /\ "console" \in Worker
    BY DEF Worker
  <2>4. sent' \in 0 .. MaxRequests
    BY <1>5 DEF ConsoleCommand, TypeOK
  <2>5. /\ phase' \in [Worker -> Phases]
        /\ at' \in [Worker -> Chassis]
        /\ board' \in [Worker -> Slots]
        /\ command' \in [Worker -> {"reset", "check"}]
        /\ flags' \in [Worker -> [Chassis -> SUBSET Slots]]
    BY <2>1, <2>2, <2>3, BeginType
  <2>6. QED
    BY <1>5, <2>4, <2>5 DEF ConsoleCommand, TypeOK
<1>6. ASSUME NEW w \in Worker, Connect(w) \/ Send(w) PROVE TypeOK'
  <2>1. CASE \E e \in {"NETWORK_ERROR", "TIMEOUT_ERROR"} : Conclude(w, Failure(e))
    BY <2>1, ConcludeType, FailureType
  <2>2. CASE Step(w, "connect", "send") /\ UNCHANGED reply
    BY <2>2, StepType DEF Phases
  <2>3. CASE Step(w, "send", "receive") /\ UNCHANGED reply
    BY <2>3, StepType DEF Phases
  <2>4. QED
    BY <1>6, <2>1, <2>2, <2>3 DEF Connect, Send
<1>7. ASSUME NEW w \in Worker, Receive(w) PROVE TypeOK'
  <2>1. CASE Conclude(w, Failure("TIMEOUT_ERROR"))
    BY <2>1, ConcludeType, FailureType
  <2>2. CASE /\ reply[w].form \in {"full", "short", "closed"}
             /\ Conclude(w, ParseResponse(reply[w], flags[w][at[w]]))
    <3>1. reply[w] \in Reply /\ flags[w][at[w]] \in SUBSET Slots
      BY <2>2 DEF TypeOK, NoReply
    <3>2. QED
      BY <2>2, <3>1, ParseResponseType, ConcludeType
  <2>3. QED
    BY <1>7, <2>1, <2>2 DEF Receive
<1>8. ASSUME NEW w \in Worker, Perform(w) PROVE TypeOK'
  <2>1. PICK ok \in SUBSET Requested(w), form \in {"full", "short", "closed", "lost"} :
          /\ acted' = [acted EXCEPT ![w][at[w]] = ok]
          /\ reply' = [reply EXCEPT ![w] = [form |-> form, ok |-> ok]]
    BY <1>8 DEF Perform
  <2>2. ok \in SUBSET Slots
    BY DEF Requested, TypeOK
  <2>3. [form |-> form, ok |-> ok] \in Reply
    BY <2>2 DEF Reply
  <2>4. acted' \in [Worker -> [Chassis -> SUBSET Slots]]
    BY <2>1, <2>2 DEF TypeOK
  <2>5. reply' \in [Worker -> Reply \cup {NoReply}]
    BY <2>1, <2>3 DEF TypeOK
  <2>6. QED
    BY <1>8, <2>4, <2>5 DEF Perform, TypeOK
<1>9. ASSUME NEW w \in Worker, Ping(w) PROVE TypeOK'
  <2>1. PICK up \in BOOLEAN :
          /\ acted' = IF up THEN [acted EXCEPT ![w][at[w]] = @ \cup {board[w]}] ELSE acted
          /\ IF w = "listener" THEN MarkAnswer(at[w], board[w], up) ELSE CountAnswer(up)
    BY <1>9 DEF Ping
  <2>2. acted' \in [Worker -> [Chassis -> SUBSET Slots]]
    BY <2>1 DEF TypeOK
  <2>3. marked' \in [Chassis -> SUBSET Slots] /\ tally' \in [done : Nat, failed : Nat]
    <3>1. at[w] \in Chassis /\ board[w] \in Slots
      BY DEF TypeOK
    <3>2. CASE MarkAnswer(at[w], board[w], up)
      BY <3>1, <3>2 DEF MarkAnswer, TypeOK
    <3>3. CASE CountAnswer(up)
      <4>1. tally.done \in Nat /\ tally.failed \in Nat
        BY DEF TypeOK
      <4>2. /\ tally.done + (IF up THEN 1 ELSE 0) \in Nat
            /\ tally.failed + (IF up THEN 0 ELSE 1) \in Nat
        BY <4>1
      <4>3. QED
        BY <3>3, <4>2 DEF CountAnswer, TypeOK
    <3>4. QED
      BY <2>1, <3>2, <3>3
  <2>4. /\ phase' \in [Worker -> Phases]
        /\ at' \in [Worker -> Chassis]
        /\ board' \in [Worker -> Slots]
    <3>1. CASE Goto(w, "check", flags[w], at[w])
      BY <3>1, GotoType
    <3>2. CASE /\ \E t \in Slots : board' = [board EXCEPT ![w] = t]
               /\ UNCHANGED <<phase, at>>
      BY <3>2 DEF TypeOK
    <3>3. QED
      BY <1>9, <3>1, <3>2 DEF Ping
  <2>5. QED
    BY <1>9, <2>2, <2>3, <2>4 DEF Ping, TypeOK
<1>10. ASSUME NEW w \in Worker, Report(w) PROVE TypeOK'
  <2>1. Nobody \in [Chassis -> SUBSET Slots]
    BY DEF Nobody
  <2>2. marked' \in [Chassis -> SUBSET Slots] /\ tally' \in [done : Nat, failed : Nat]
    BY <1>10, <2>1 DEF Report, TypeOK
  <2>3. 1 \in Chassis /\ 1 \in Slots
    BY ResetAssumption DEF Chassis, Slots
  <2>4. phase' \in [Worker -> Phases] /\ command' \in [Worker -> {"reset", "check"}]
    BY <1>10 DEF Report, TypeOK, Phases
  <2>5. at' \in [Worker -> Chassis] /\ board' \in [Worker -> Slots]
    BY <1>10, <2>3 DEF Report, TypeOK
  <2>6. flags' \in [Worker -> [Chassis -> SUBSET Slots]]
        /\ acted' \in [Worker -> [Chassis -> SUBSET Slots]]
    BY <1>10, <2>1 DEF Report, TypeOK
  <2>7. QED
    BY <1>10, <2>2, <2>4, <2>5, <2>6 DEF Report, TypeOK
<1>11. CASE UNCHANGED vars
  BY <1>11 DEF vars, work, TypeOK
<1>12. QED
  BY <1>1, <1>2, <1>3, <1>4, <1>5, <1>6, <1>7, <1>8, <1>9, <1>10, <1>11 DEF Next, Work

(* The types of the state hold: the tally and the place of a worker stay   *)
(* in range however its exchanges end.                                     *)
THEOREM TypeCorrect == Spec => []TypeOK
<1>1. Init => TypeOK
  BY DEF Init, TypeOK, Nobody, Phases, Worker
<1>2. TypeOK /\ [Next]_vars => TypeOK'
  BY TypeStep
<1>3. QED
  BY <1>1, <1>2, PTL DEF Spec

-----------------------------------------------------------------------------
(* What the listener reports.                                              *)

L == "listener"

Exchanging == phase[L] \in {"connect", "send", "receive"}

(* An idle listener has nothing marked of an earlier request; an exchange  *)
(* is with a chassis of which nothing is marked yet, nor of the ones after *)
(* it, and so a reset at last cannot shrink under what is reported; a ping *)
(* goes to a board that was asked for.                                     *)
Order ==
  /\ phase[L] = "idle" => \A c \in Chassis : marked[c] = {} /\ acted[L][c] = {}
  /\ Exchanging =>
       /\ command[L] = "reset"
       /\ \A c \in Chassis : c >= at[L] => marked[c] = {}
  /\ phase[L] = "ping" => command[L] = "check" /\ board[L] \in flags[L][at[L]]

(* A reply tells what was done.                                            *)
Replied ==
  reply[L] # NoReply => phase[L] = "receive" /\ reply[L].ok = acted[L][at[L]]

(* Nothing is done that was not asked for; boards that answered are marked *)
(* as such, and boards that were reset by their places.                    *)
Marks ==
  \A c \in Chassis :
    /\ acted[L][c] \subseteq flags[L][c]
    /\ marked[c] \subseteq flags[L][c]
    /\ command[L] = "check" => marked[c] \subseteq acted[L][c]
    /\ command[L] = "reset" => marked[c] \subseteq Places(flags[L][c], acted[L][c])

IInv == TypeOK /\ Order /\ Replied /\ Marks

(* The listener is a worker.                                               *)
LEMMA LWorker == L \in Worker
BY DEF L, Worker

(* A worker goes on to a later chassis with a board to act on, or reports. *)
LEMMA GotoStep ==
  ASSUME TypeOK, NEW w \in Worker, NEW cmd, NEW c \in Nat,
         NEW f \in [Chassis -> SUBSET Slots], Goto(w, cmd, f, c)
  PROVE  /\ \A v \in Worker \ {w} :
              phase'[v] = phase[v] /\ at'[v] = at[v] /\ board'[v] = board[v]
         /\ \/ phase'[w] = "report"
            \/ /\ phase'[w] = IF cmd = "reset" THEN "connect" ELSE "ping"
               /\ at'[w] \in Chassis /\ at'[w] > c
               /\ board'[w] \in f[at'[w]]
<1>1. CASE /\ phase' = [phase EXCEPT ![w] = "report"]
           /\ UNCHANGED <<at, board>>
  BY <1>1 DEF TypeOK
<1>2. ASSUME NEW d \in Chassis, NEW s \in Slots,
             IsFirst(d, Pending(f, c)), IsFirst(s, f[d]),
             phase' = [phase EXCEPT ![w] = IF cmd = "reset" THEN "connect" ELSE "ping"],
             at' = [at EXCEPT ![w] = d],
             board' = [board EXCEPT ![w] = s]
      PROVE  /\ \A v \in Worker \ {w} :
                  phase'[v] = phase[v] /\ at'[v] = at[v] /\ board'[v] = board[v]
             /\ phase'[w] = IF cmd = "reset" THEN "connect" ELSE "ping"
             /\ at'[w] \in Chassis /\ at'[w] > c
             /\ board'[w] \in f[at'[w]]
  <2>1. d > c /\ s \in f[d]
    BY <1>2 DEF IsFirst, Pending
  <2>2. phase'[w] = (IF cmd = "reset" THEN "connect" ELSE "ping") /\ at'[w] = d /\ board'[w] = s
    BY <1>2 DEF TypeOK
  <2>3. QED
    BY <1>2, <2>1, <2>2 DEF TypeOK
<1>3. QED
  BY <1>1, <1>2 DEF Goto

(* What the listener knows stays as it is.                                 *)
LEMMA Untouched ==
  ASSUME IInv, phase'[L] = phase[L], at'[L] = at[L], board'[L] = board[L],
         command'[L] = command[L], flags'[L] = flags[L], reply'[L] = reply[L],
         acted'[L] = acted[L], marked' = marked
  PROVE  Order' /\ Replied' /\ Marks'
BY DEF IInv, Order, Exchanging, Replied, Marks

(* A worker touches nothing of another, nor what only the other fills in.  *)
LEMMA WorkersApart ==
  ASSUME TypeOK, NEW w \in Worker, NEW v \in Worker, w # v, Work(w) \/ Perform(w)
  PROVE  /\ phase'[v] = phase[v] /\ at'[v] = at[v] /\ board'[v] = board[v]
         /\ command'[v] = command[v] /\ flags'[v] = flags[v] /\ reply'[v] = reply[v]
         /\ acted'[v] = acted[v]
         /\ IF w = L THEN tally' = tally ELSE marked' = marked
<1> DEFINE Apart == /\ phase'[v] = phase[v] /\ at'[v] = at[v] /\ board'[v] = board[v]
                    /\ command'[v] = command[v] /\ flags'[v] = flags[v]
                    /\ reply'[v] = reply[v] /\ acted'[v] = acted[v]
                    /\ IF w = L THEN tally' = tally ELSE marked' = marked
<1>1. flags[w] \in [Chassis -> SUBSET Slots] /\ at[w] \in Nat
  BY DEF TypeOK
<1>2. ASSUME NEW outcome, Conclude(w, outcome)
      PROVE  Apart
  <2>1. phase'[v] = phase[v] /\ at'[v] = at[v] /\ board'[v] = board[v]
    BY <1>1, <1>2, GotoStep DEF Conclude
  <2>2. QED
    BY <1>2, <2>1 DEF Conclude, L, TypeOK
<1>3. ASSUME NEW from, NEW to, Step(w, from, to), UNCHANGED reply
      PROVE  Apart
  BY <1>3 DEF Step, TypeOK
<1>4. CASE Connect(w) \/ Send(w) \/ Receive(w)
  BY <1>2, <1>3, <1>4 DEF Connect, Send, Receive
<1>5. CASE Perform(w)
  BY <1>5 DEF Perform, TypeOK
<1>6. CASE Ping(w)
  <2>1. acted'[v] = acted[v]
    <3>1. \/ acted' = acted
          \/ acted' = [acted EXCEPT ![w][at[w]] = @ \cup {board[w]}]
      BY <1>6 DEF Ping
    <3>2. QED
      BY <3>1 DEF TypeOK
  <2>2. IF w = L THEN tally' = tally ELSE marked' = marked
    BY <1>6 DEF Ping, CountAnswer, MarkAnswer, L
  <2>3. phase'[v] = phase[v] /\ at'[v] = at[v] /\ board'[v] = board[v]
    <3>1. CASE Goto(w, "check", flags[w], at[w])
      BY <1>1, <3>1, GotoStep
    <3>2. CASE /\ \E t \in Slots : board' = [board EXCEPT ![w] = t]
               /\ UNCHANGED <<phase, at>>
      BY <3>2 DEF TypeOK
    <3>3. QED
      BY <1>6, <3>1, <3>2 DEF Ping
  <2>4. QED
    BY <1>6, <2>1, <2>2, <2>3 DEF Ping
<1>7. CASE Report(w)
  <2>1. IF w = L THEN tally' = tally ELSE marked' = marked
    BY <1>7 DEF Report, L
  <2>2. QED
    BY <1>7, <2>1 DEF Report, TypeOK
<1>8. QED
  BY <1>4, <1>5, <1>6, <1>7 DEF Work

(* When the listener starts on a request, nothing is marked.               *)
LEMMA ListenerBegins ==
  ASSUME IInv, NEW cmd \in {"reset", "check"}, NEW f \in [Chassis -> SUBSET Slots],
         Begin(L, cmd, f), UNCHANGED <<reply, acted, marked>>
  PROVE  Order' /\ Replied' /\ Marks'
<1>1. TypeOK /\ L \in Worker
  BY LWorker DEF IInv
<1>2. command'[L] = cmd /\ flags'[L] = f
  BY <1>1 DEF Begin, TypeOK
<1>3. \A c \in Chassis : marked'[c] = {} /\ acted'[L][c] = {}
  BY DEF IInv, Order, Begin
<1>4. \/ phase'[L] = "report"
      \/ /\ phase'[L] = IF cmd = "reset" THEN "connect" ELSE "ping"
         /\ board'[L] \in f[at'[L]]
  BY <1>1, GotoStep DEF Begin
<1>5. Order'
  BY <1>2, <1>3, <1>4 DEF Order, Exchanging
<1>6. Replied'
  BY DEF IInv, Replied, Begin
<1>7. Marks'
  BY <1>2, <1>3 DEF Marks
<1>8. QED
  BY <1>5, <1>6, <1>7

(* When the listener concludes an exchange, it marks boards of that        *)
(* chassis by the places of some that were reset.                          *)
LEMMA ListenerConcludes ==
  ASSUME IInv, Exchanging, NEW outcome,
         outcome.good \subseteq Places(flags[L][at[L]], acted[L][at[L]]),
         Conclude(L, outcome)
  PROVE  Order' /\ Replied' /\ Marks'
<1> DEFINE c0 == at[L]
           mine == MarkBoards(outcome, flags[L][c0])
<1>1. /\ TypeOK /\ L \in Worker /\ c0 \in Chassis /\ c0 \in Nat
      /\ flags[L] \in [Chassis -> SUBSET Slots]
  BY LWorker DEF IInv, TypeOK
<1>2. /\ mine \subseteq flags[L][c0]
      /\ mine \subseteq Places(flags[L][c0], acted[L][c0])
  BY DEF MarkBoards
<1>3. marked' = [marked EXCEPT ![c0] = mine]
  BY DEF Conclude, L
<1>4. /\ command' = command /\ flags' = flags /\ acted' = acted
      /\ reply'[L] = NoReply
  BY <1>1 DEF Conclude, TypeOK
<1>5. command[L] = "reset"
  BY DEF IInv, Order
<1>6. \/ phase'[L] = "report"
      \/ phase'[L] = "connect" /\ at'[L] \in Chassis /\ at'[L] > c0
  BY <1>1, GotoStep DEF Conclude
<1>7. \A c \in Chassis : c > c0 => marked'[c] = {}
  <2>1. \A c \in Chassis : c >= c0 => marked[c] = {}
    BY DEF IInv, Order
  <2>2. marked \in [Chassis -> SUBSET Slots]
    BY <1>1 DEF TypeOK
  <2>3. QED
    BY <1>1, <1>3, <2>1, <2>2
<1>8. Order'
  <2>1. CASE phase'[L] = "report"
    BY <2>1 DEF Order, Exchanging
  <2>2. CASE phase'[L] = "connect" /\ at'[L] \in Chassis /\ at'[L] > c0
    <3>1. \A c \in Chassis : c >= at'[L] => marked'[c] = {}
      BY <1>1, <1>7, <2>2
    <3>2. QED
      BY <1>4, <1>5, <2>2, <3>1 DEF Order, Exchanging
  <2>3. QED
    BY <1>6, <2>1, <2>2
<1>9. Replied'
  BY <1>4 DEF Replied, NoReply
<1>10. Marks'
  <2>1. SUFFICES ASSUME NEW c \in Chassis
                 PROVE  /\ acted[L][c] \subseteq flags[L][c]
                        /\ marked'[c] \subseteq flags[L][c]
                        /\ marked'[c] \subseteq Places(flags[L][c], acted[L][c])
    BY <1>4, <1>5 DEF Marks
  <2>2. CASE c = c0
    <3>1. marked'[c] = mine
      BY <1>1, <1>3, <2>2 DEF TypeOK
    <3>2. QED
      BY <1>2, <2>2, <3>1 DEF IInv, Marks
  <2>3. CASE c # c0
    BY <1>1, <1>3, <1>5, <2>3 DEF IInv, Marks, TypeOK
  <2>4. QED
    BY <2>2, <2>3
<1>11. QED
  BY <1>8, <1>9, <1>10

(* Resetting boards in the middle of an exchange disturbs no mark.         *)
LEMMA ChassisPerforms ==
  ASSUME IInv, Perform(L)
  PROVE  Order' /\ Replied' /\ Marks'
<1> DEFINE c0 == at[L]
<1>1. TypeOK /\ L \in Worker /\ c0 \in Chassis /\ acted[L] \in [Chassis -> SUBSET Slots]
  BY LWorker DEF IInv, TypeOK
<1>2. PICK ok \in SUBSET Requested(L), form \in {"full", "short", "closed", "lost"} :
        /\ acted' = [acted EXCEPT ![L][c0] = ok]
        /\ reply' = [reply EXCEPT ![L] = [form |-> form, ok |-> ok]]
  BY DEF Perform
<1>3. /\ acted'[L] = [acted[L] EXCEPT ![c0] = ok]
      /\ reply'[L].ok = ok
  BY <1>1, <1>2 DEF TypeOK
<1>4. marked[c0] = {} /\ command[L] = "reset"
  BY <1>1 DEF IInv, Order, Exchanging, Perform
<1>5. Order'
  BY DEF IInv, Order, Exchanging, Perform
<1>6. Replied'
  BY <1>1, <1>3 DEF Replied, Perform
<1>7. Marks'
  <2>1. SUFFICES ASSUME NEW c \in Chassis
                 PROVE  /\ acted'[L][c] \subseteq flags[L][c]
                        /\ marked[c] \subseteq flags[L][c]
                        /\ marked[c] \subseteq Places(flags[L][c], acted'[L][c])
    BY <1>4 DEF Marks, Perform
  <2>2. CASE c = c0
    BY <1>1, <1>2, <1>3, <1>4, <2>2 DEF Requested
  <2>3. CASE c # c0
    BY <1>1, <1>3, <1>4, <2>3 DEF IInv, Marks
  <2>4. QED
    BY <2>2, <2>3
<1>8. QED
  BY <1>5, <1>6, <1>7

(* A board is marked as it answers.                                        *)
LEMMA ListenerPings ==
  ASSUME IInv, Ping(L)
  PROVE  Order' /\ Replied' /\ Marks'
<1> DEFINE c0 == at[L]
           s0 == board[L]
<1>1. /\ TypeOK /\ L \in Worker /\ c0 \in Chassis /\ c0 \in Nat
      /\ acted[L] \in [Chassis -> SUBSET Slots] /\ flags[L] \in [Chassis -> SUBSET Slots]
  BY LWorker DEF IInv, TypeOK
<1>2. command[L] = "check" /\ s0 \in flags[L][c0] /\ reply[L] = NoReply
  BY DEF IInv, Order, Replied, Ping
<1>3. \/ /\ acted'[L] = [acted[L] EXCEPT ![c0] = @ \cup {s0}]
         /\ marked' = [marked EXCEPT ![c0] = @ \cup {s0}]
      \/ acted'[L] = acted[L] /\ marked' = marked
  <2>1. PICK up \in BOOLEAN :
          /\ acted' = IF up THEN [acted EXCEPT ![L][c0] = @ \cup {s0}] ELSE acted
          /\ MarkAnswer(c0, s0, up)
    BY DEF Ping, L
  <2>2. QED
    BY <1>1, <2>1 DEF MarkAnswer, TypeOK
<1>4. command' = command /\ flags' = flags /\ reply' = reply
  BY DEF Ping
<1>5. \/ phase'[L] = "report"
      \/ phase'[L] = "ping" /\ board'[L] \in flags[L][at'[L]]
  <2>1. CASE Goto(L, "check", flags[L], c0)
    BY <1>1, <2>1, GotoStep
  <2>2. CASE /\ \E t \in Slots : IsFirst(t, {u \in flags[L][c0] : u > s0})
                                  /\ board' = [board EXCEPT ![L] = t]
             /\ UNCHANGED <<phase, at>>
    BY <1>1, <2>2 DEF IsFirst, TypeOK, Ping
  <2>3. QED
    BY <2>1, <2>2 DEF Ping
<1>6. Order'
  BY <1>2, <1>4, <1>5 DEF Order, Exchanging
<1>7. Replied'
  BY <1>2, <1>4 DEF Replied
<1>8. Marks'
  <2>1. marked \in [Chassis -> SUBSET Slots]
    BY <1>1 DEF TypeOK
  <2>2. \A c \in Chassis : /\ acted[L][c] \subseteq flags[L][c]
                          /\ marked[c] \subseteq flags[L][c]
                          /\ marked[c] \subseteq acted[L][c]
    BY <1>2 DEF IInv, Marks
  <2>3. \A c \in Chassis : /\ acted'[L][c] \subseteq flags[L][c]
                          /\ marked'[c] \subseteq flags[L][c]
                          /\ marked'[c] \subseteq acted'[L][c]
    <3>1. CASE /\ acted'[L] = [acted[L] EXCEPT ![c0] = @ \cup {s0}]
               /\ marked' = [marked EXCEPT ![c0] = @ \cup {s0}]
      BY <1>1, <1>2, <2>1, <2>2, <3>1
    <3>2. CASE acted'[L] = acted[L] /\ marked' = marked
      BY <2>2, <3>2
    <3>3. QED
      BY <1>3, <3>1, <3>2
  <2>4. QED
    BY <1>2, <1>4, <2>3 DEF Marks
<1>9. QED
  BY <1>6, <1>7, <1>8

(* A response is sent, and nothing of it is left.                          *)
LEMMA ListenerReports ==
  ASSUME IInv, Report(L)
  PROVE  Order' /\ Replied' /\ Marks'
<1>1. TypeOK /\ L \in Worker
  BY LWorker DEF IInv
<1>2. /\ phase'[L] = "idle" /\ reply' = reply /\ reply[L] = NoReply
      /\ \A c \in Chassis : marked'[c] = {} /\ acted'[L][c] = {}
  BY <1>1 DEF Report, Nobody, L, TypeOK, IInv, Replied
<1>3. QED
  BY <1>2 DEF Order, Exchanging, Replied, Marks

(* The invariant holds of all executions.                                  *)
LEMMA Invariance == Spec => []IInv
<1>1. Init => IInv
  <2>1. ASSUME Init PROVE Order /\ Replied /\ Marks
    BY <2>1, LWorker DEF Init, Nobody, Order, Exchanging, Replied, Marks
  <2>2. Init => TypeOK
    BY DEF Init, TypeOK, Nobody, Phases, Worker
  <2>3. QED
    BY <2>1, <2>2 DEF IInv
<1>2. ASSUME IInv, [Next]_vars
      PROVE  IInv'
  <2>1. TypeOK'
    BY <1>2, TypeStep DEF IInv
  <2>2. CASE \/ RoleChange \/ IgnoreRequest \/ UNCHANGED vars
             \/ \E r \in Request : SendRequest(r)
    BY <1>2, <2>1, <2>2, Untouched
      DEF RoleChange, IgnoreRequest, SendRequest, vars, work, IInv
  <2>3. CASE HandleRequest
    <3>1. Head(inbox) \in Request
      BY <1>2, <2>3 DEF HandleRequest, IInv, TypeOK
    <3>2. /\ Head(inbox).command \in {"reset", "check"}
          /\ Head(inbox).flags \in [Chassis -> SUBSET Slots]
      BY <3>1 DEF Request
    <3>3. QED
      BY <1>2, <2>1, <2>3, <3>2, ListenerBegins DEF HandleRequest, L, IInv
  <2>4. CASE ConsoleCommand
    <3>1. PICK cmd \in Commands : Begin("console", cmd, AllBoards)
      BY <2>4 DEF ConsoleCommand
    <3>2. TypeOK /\ "console" \in Worker /\ L \in Worker /\ "console" # L
      BY <1>2, LWorker DEF IInv, Worker, L
    <3>3. AllBoards \in [Chassis -> SUBSET Slots]
      BY DEF AllBoards
    <3>4. phase'[L] = phase[L] /\ at'[L] = at[L] /\ board'[L] = board[L]
      BY <3>1, <3>2, <3>3, GotoStep DEF Begin
    <3>5. command'[L] = command[L] /\ flags'[L] = flags[L]
      BY <3>1, <3>2 DEF Begin, TypeOK
    <3>6. QED
      BY <1>2, <2>1, <2>4, <3>4, <3>5, Untouched DEF ConsoleCommand, IInv
  <2>5. ASSUME NEW w \in Worker, w # L, Work(w) \/ Perform(w)
        PROVE  IInv'
    BY <1>2, <2>1, <2>5, LWorker, WorkersApart, Untouched DEF IInv
  <2>6. CASE Connect(L) \/ Send(L)
    <3>1. ASSUME NEW e, Conclude(L, Failure(e)), Exchanging PROVE Order' /\ Replied' /\ Marks'
      BY <1>2, <3>1, ListenerConcludes DEF Failure
    <3>2. ASSUME NEW from \in {"connect", "send"}, NEW to \in {"send", "receive"},
                 Step(L, from, to), UNCHANGED reply
          PROVE  Order' /\ Replied' /\ Marks'
      <4>1. /\ Exchanging /\ phase'[L] = to /\ reply' = reply /\ reply[L] = NoReply
            /\ command' = command /\ flags' = flags /\ at' = at
            /\ acted' = acted /\ marked' = marked
        BY <1>2, <3>2, LWorker DEF Step, Exchanging, IInv, TypeOK, Replied
      <4>2. QED
        BY <1>2, <4>1 DEF IInv, Order, Exchanging, Replied, Marks
    <3>3. QED
      BY <2>1, <2>6, <3>1, <3>2 DEF Connect, Send, Exchanging, IInv
  <2>7. CASE Receive(L)
    <3>1. Exchanging
      BY <2>7 DEF Receive, Exchanging
    <3>2. CASE Conclude(L, Failure("TIMEOUT_ERROR"))
      BY <1>2, <2>1, <3>1, <3>2, ListenerConcludes DEF Failure, IInv
    <3>3. CASE /\ reply[L].form \in {"full", "short", "closed"}
               /\ Conclude(L, ParseResponse(reply[L], flags[L][at[L]]))
      <4>1. /\ reply[L] \in Reply /\ reply[L] # NoReply
            /\ at[L] \in Chassis /\ flags[L][at[L]] \in SUBSET Slots
        BY <1>2, <3>3, LWorker DEF IInv, TypeOK, NoReply
      <4>2. flags[L][at[L]] \cap reply[L].ok = acted[L][at[L]]
        BY <1>2, <4>1 DEF IInv, Replied, Marks
      <4>3. ParseResponse(reply[L], flags[L][at[L]]).good
              \subseteq Places(flags[L][at[L]], acted[L][at[L]])
        BY <4>1, <4>2, ParseResponseType
      <4>4. QED
        BY <1>2, <2>1, <3>1, <3>3, <4>3, ListenerConcludes DEF IInv
    <3>4. QED
      BY <2>7, <3>2, <3>3 DEF Receive
  <2>8. CASE Perform(L)
    BY <1>2, <2>1, <2>8, ChassisPerforms DEF IInv
  <2>9. CASE Ping(L)
    BY <1>2, <2>1, <2>9, ListenerPings DEF IInv
  <2>10. CASE Report(L)
    BY <1>2, <2>1, <2>10, ListenerReports DEF IInv
  <2>11. QED
    BY <1>2, <2>1, <2>2, <2>3, <2>4, <2>5, <2>6, <2>7, <2>8, <2>9, <2>10
      DEF Next, Work, IInv
<1>3. QED
  BY <1>1, <1>2, PTL DEF Spec

-----------------------------------------------------------------------------
(* A board is reported only if the request flagged it, though results are  *)
(* matched by number in a list that other chassis and commands use too.    *)
THEOREM OnlyFlaggedReported == Spec => []OnlyFlagged
<1>1. IInv => OnlyFlagged
  BY DEF IInv, Marks, OnlyFlagged, L
<1>2. QED
  BY <1>1, Invariance, PTL

(* Of each chassis no more boards are reported as reset than were reset,   *)
(* whatever replies are lost, cut short or late.                           *)
THEOREM NeverRoundedUp == Spec => []NeverMoreThanReset
<1>1. ASSUME IInv PROVE NeverMoreThanReset
  <2>1. SUFFICES ASSUME NEW c \in Chassis
                 PROVE  Cardinality(marked[c]) <= Cardinality(acted[L][c])
    BY DEF NeverMoreThanReset, L
  <2>2. /\ flags[L][c] \in SUBSET Slots /\ acted[L][c] \in SUBSET Slots
        /\ marked[c] \in SUBSET Slots /\ acted[L][c] \in SUBSET flags[L][c]
        /\ command[L] \in {"reset", "check"}
    BY <1>1, LWorker DEF IInv, TypeOK, Marks
  <2>3. CASE command[L] = "check"
    <3>1. marked[c] \in SUBSET acted[L][c]
      BY <1>1, <2>3 DEF IInv, Marks
    <3>2. QED
      BY <2>2, <3>1, SlotsFinite, FS_Subset
  <2>4. CASE command[L] = "reset"
    <3>1. marked[c] \in SUBSET Places(flags[L][c], acted[L][c])
      BY <1>1, <2>4 DEF IInv, Marks
    <3>2. /\ IsFiniteSet(Places(flags[L][c], acted[L][c]))
          /\ Cardinality(Places(flags[L][c], acted[L][c])) \in Nat
          /\ Cardinality(Places(flags[L][c], acted[L][c])) <= Cardinality(acted[L][c])
      BY <2>2, PlacesBounded
    <3>3. Cardinality(marked[c]) <= Cardinality(Places(flags[L][c], acted[L][c]))
      BY <3>1, <3>2, FS_Subset
    <3>4. Cardinality(marked[c]) \in Nat /\ Cardinality(acted[L][c]) \in Nat
      BY <2>2, SlotsFinite
    <3>5. QED
      BY <3>2, <3>3, <3>4
  <2>5. QED
    BY <2>2, <2>3, <2>4
<1>2. QED
  BY <1>1, Invariance, PTL

(* Boards are reported one by one, and rightly, when the request flags the *)
(* boards of a chassis from the first one without a gap.                   *)
THEOREM PrefixRightlyReported == Spec => []PrefixReported
<1>1. ASSUME IInv PROVE PrefixReported
  <2>1. SUFFICES ASSUME NEW c \in Chassis, NEW k \in 0 .. NumSlots, flags[L][c] = 1 .. k
                 PROVE  marked[c] \subseteq acted[L][c]
    BY DEF PrefixReported, L
  <2>2. acted[L][c] \subseteq 1 .. k /\ command[L] \in {"reset", "check"}
    BY <1>1, <2>1, LWorker DEF IInv, TypeOK, Marks
  <2>3. Places(1 .. k, acted[L][c]) = acted[L][c]
    BY <2>2, PrefixPlace DEF Places
  <2>4. QED
    BY <1>1, <2>1, <2>2, <2>3 DEF IInv, Marks
<1>2. QED
  BY <1>1, Invariance, PTL

-----------------------------------------------------------------------------
(* What the console counts.                                                *)

K == "console"

(* The boards that the console has come past, and those of them that were  *)
(* reset or answered: what it has counted so far is about these.           *)
Passed ==
  {x \in Boards : \/ phase[K] = "report"
                  \/ x[1] < at[K]
                  \/ phase[K] = "ping" /\ x[1] = at[K] /\ x[2] < board[K]}

PassedDone == BoardsOf(acted[K]) \cap Passed

(* The totals are about the boards passed, and are set to zero before the  *)
(* next command; a reply tells what was done.                              *)
TallyInv ==
  /\ phase[K] = "idle" => tally.done = 0 /\ tally.failed = 0
  /\ reply[K] # NoReply => phase[K] = "receive" /\ reply[K].ok = acted[K][at[K]]
  /\ tally.done <= Cardinality(PassedDone)
  /\ tally.done + tally.failed <= Cardinality(Passed)

LEMMA KWorker == K \in Worker
BY DEF K, Worker

LEMMA BoardsFinite ==
  ASSUME NEW S \in SUBSET Boards
  PROVE  IsFiniteSet(S) /\ Cardinality(S) \in Nat
<1>1. IsFiniteSet(Chassis) /\ IsFiniteSet(Slots)
  BY FS_Interval
<1>2. IsFiniteSet(Boards)
  BY <1>1, FS_Product DEF Boards
<1>3. QED
  BY <1>2, FS_Subset, FS_CardinalityType

(* Boards of one chassis are as many as their slots.                       *)
LEMMA BoardsOfChassis ==
  ASSUME NEW c \in Chassis, NEW S \in SUBSET Slots
  PROVE  {c} \X S \in SUBSET Boards /\ Cardinality({c} \X S) = Cardinality(S)
<1>1. IsFiniteSet({c}) /\ Cardinality({c}) = 1
  BY FS_Singleton
<1>2. IsFiniteSet(S) /\ Cardinality(S) \in Nat
  BY SlotsFinite
<1>3. Cardinality({c} \X S) = 1 * Cardinality(S)
  BY <1>1, <1>2, FS_Product
<1>4. Cardinality({c} \X S) = Cardinality(S)
  BY <1>2, <1>3
<1>5. {c} \X S \in SUBSET Boards
  BY DEF Boards
<1>6. QED
  BY <1>4, <1>5

(* Sets of boards that have nothing in common add up.                      *)
LEMMA BoardsAddUp ==
  ASSUME NEW A \in SUBSET Boards, NEW B \in SUBSET Boards, A \cap B = {},
         NEW C \in SUBSET Boards, A \cup B \subseteq C
  PROVE  Cardinality(A) + Cardinality(B) <= Cardinality(C)
<1>1. /\ IsFiniteSet(A) /\ IsFiniteSet(B) /\ IsFiniteSet(C)
      /\ Cardinality(A) \in Nat /\ Cardinality(B) \in Nat /\ Cardinality(C) \in Nat
  BY BoardsFinite
<1>2. Cardinality(A \cup B) = Cardinality(A) + Cardinality(B) - Cardinality(A \cap B)
  BY <1>1, FS_Union
<1>3. Cardinality(A \cup B) <= Cardinality(C)
  BY <1>1, FS_Subset
<1>4. Cardinality(A \cap B) = 0
  BY FS_EmptySet
<1>5. QED
  BY <1>1, <1>2, <1>3, <1>4

(* The good results of a reply are at most the boards that were reset, and *)
(* no board has two results.                                               *)
LEMMA ResultsBounded ==
  ASSUME NEW r \in Reply, NEW S \in SUBSET Slots
  PROVE  LET good == Cardinality(ParseResponse(r, S).good)
             bad  == Cardinality(ParseResponse(r, S).bad)
         IN  good <= Cardinality(r.ok) /\ good + bad <= Cardinality(S)
<1> DEFINE G == S \cap r.ok
           F == S \ r.ok
<1>1. r.ok \in SUBSET Slots
  BY DEF Reply
<1>2. /\ Cardinality(Places(S, G)) <= Cardinality(G)
      /\ Cardinality(Places(S, F)) <= Cardinality(F)
      /\ Cardinality(Places(S, G)) \in Nat /\ Cardinality(Places(S, F)) \in Nat
  BY PlacesBounded
<1>3. /\ Cardinality(G) \in Nat /\ Cardinality(F) \in Nat /\ Cardinality(S) \in Nat
      /\ Cardinality(r.ok) \in Nat
      /\ IsFiniteSet(G) /\ IsFiniteSet(F) /\ IsFiniteSet(r.ok)
  BY <1>1, SlotsFinite
<1>4. Cardinality(G) <= Cardinality(r.ok)
  BY <1>3, FS_Subset
<1>5. Cardinality(G) + Cardinality(F) = Cardinality(S)
  <2>1. G \cup F = S /\ G \cap F = {}
    OBVIOUS
  <2> HIDE DEF G, F
  <2>2. Cardinality(G \cup F) = Cardinality(G) + Cardinality(F) - Cardinality(G \cap F)
    BY <1>3, FS_Union
  <2>3. Cardinality(G \cap F) = 0
    BY <2>1, FS_EmptySet
  <2>4. Cardinality(S) = Cardinality(G) + Cardinality(F) - Cardinality(G \cap F)
    BY <2>1, <2>2
  <2>5. QED
    BY <1>3, <2>3, <2>4
<1>6. CASE r.form = "full"
  <2>1. ParseResponse(r, S).good = Places(S, G) /\ ParseResponse(r, S).bad = Places(S, F)
    BY <1>6 DEF ParseResponse
  <2>2. QED
    BY <1>2, <1>3, <1>4, <1>5, <2>1
<1>7. CASE r.form # "full"
  <2>1. ParseResponse(r, S).good = {} /\ ParseResponse(r, S).bad = {}
    BY <1>7 DEF ParseResponse
  <2>2. QED
    BY <1>3, <2>1, FS_EmptySet
<1>8. QED
  BY <1>6, <1>7

(* What the console knows stays as it is.                                  *)
LEMMA TallyUntouched ==
  ASSUME TallyInv, phase'[K] = phase[K], at'[K] = at[K], board'[K] = board[K],
         reply'[K] = reply[K], acted'[K] = acted[K], tally' = tally
  PROVE  TallyInv'
<1>1. Passed' = Passed /\ PassedDone' = PassedDone
  BY DEF Passed, PassedDone, BoardsOf
<1>2. QED
  BY <1>1 DEF TallyInv

(* The console counts a set of boards it comes past with this step.        *)
LEMMA TallyCounts ==
  ASSUME TypeOK, TallyInv, TypeOK',
         phase'[K] # "idle", reply'[K] = NoReply,
         NEW New \in SUBSET Boards, New \cap Passed = {}, Passed \cup New \subseteq Passed',
         NEW Done \in SUBSET New, Done \subseteq BoardsOf(acted'[K]),
         PassedDone \subseteq BoardsOf(acted'[K]),
         tally'.done <= tally.done + Cardinality(Done),
         tally'.done + tally'.failed <= tally.done + tally.failed + Cardinality(New)
  PROVE  TallyInv'
<1>1. /\ tally.done \in Nat /\ tally.failed \in Nat
      /\ tally'.done \in Nat /\ tally'.failed \in Nat
  BY DEF TypeOK
<1>2. /\ Passed \in SUBSET Boards /\ Passed' \in SUBSET Boards
      /\ PassedDone \in SUBSET Passed /\ PassedDone' \in SUBSET Boards
      /\ PassedDone' = BoardsOf(acted'[K]) \cap Passed'
  BY DEF Passed, PassedDone, BoardsOf, Boards
<1>3. Cardinality(PassedDone) + Cardinality(Done) <= Cardinality(PassedDone')
  BY <1>2, BoardsAddUp
<1>4. Cardinality(Passed) + Cardinality(New) <= Cardinality(Passed')
  BY <1>2, BoardsAddUp
<1>5. /\ Cardinality(PassedDone) \in Nat /\ Cardinality(Done) \in Nat
      /\ Cardinality(PassedDone') \in Nat /\ Cardinality(Passed) \in Nat
      /\ Cardinality(New) \in Nat /\ Cardinality(Passed') \in Nat
  BY <1>2, BoardsFinite
<1>6. tally.done <= Cardinality(PassedDone) /\ tally.done + tally.failed <= Cardinality(Passed)
  BY DEF TallyInv
<1>7. /\ tally'.done <= tally.done + Cardinality(Done)
      /\ tally'.done + tally'.failed <= tally.done + tally.failed + Cardinality(New)
  OBVIOUS
<1>8. tally'.done <= Cardinality(PassedDone')
  BY ONLY <1>1, <1>3, <1>5, <1>6, <1>7
<1>9. tally'.done + tally'.failed <= Cardinality(Passed')
  BY ONLY <1>1, <1>4, <1>5, <1>6, <1>7
<1>10. QED
  BY <1>8, <1>9 DEF TallyInv

(* It counts the boards of a chassis when the exchange is over.            *)
LEMMA ConsoleConcludes ==
  ASSUME TypeOK, TypeOK', TallyInv, phase[K] \in {"connect", "send", "receive"},
         NEW outcome, Conclude(K, outcome),
         Cardinality(outcome.good) \in Nat, Cardinality(outcome.bad) \in Nat,
         Cardinality(outcome.good) <= Cardinality(acted[K][at[K]]),
         Cardinality(outcome.good) + Cardinality(outcome.bad)
           <= Cardinality(flags[K][at[K]])
  PROVE  TallyInv'
<1> DEFINE c0 == at[K]
           New == {c0} \X Slots
           Done == {c0} \X acted[K][c0]
<1>1. /\ K \in Worker /\ c0 \in Chassis /\ c0 \in Nat
      /\ flags[K] \in [Chassis -> SUBSET Slots]
      /\ acted[K] \in [Chassis -> SUBSET Slots]
      /\ flags[K][c0] \in SUBSET Slots /\ acted[K][c0] \in SUBSET Slots
      /\ tally.done \in Nat /\ tally.failed \in Nat
  <2>1. c0 \in Chassis /\ c0 \in Nat
    <3>1. at \in [Worker -> Chassis]
      BY DEF TypeOK
    <3>2. QED
      BY <3>1, KWorker DEF Chassis
  <2>2. flags[K] \in [Chassis -> SUBSET Slots] /\ acted[K] \in [Chassis -> SUBSET Slots]
    BY KWorker DEF TypeOK
  <2>3. tally.done \in Nat /\ tally.failed \in Nat
    BY DEF TypeOK
  <2>4. QED
    BY <2>1, <2>2, <2>3, KWorker
<1>2. /\ New \in SUBSET Boards /\ Cardinality(New) = Cardinality(Slots)
      /\ Done \in SUBSET New /\ Cardinality(Done) = Cardinality(acted[K][c0])
  BY <1>1, BoardsOfChassis
<1>3. /\ Cardinality(flags[K][c0]) <= Cardinality(Slots)
      /\ Cardinality(flags[K][c0]) \in Nat /\ Cardinality(Slots) \in Nat
      /\ Cardinality(acted[K][c0]) \in Nat
  BY <1>1, SlotsFinite, FS_Subset
<1>4. /\ acted' = acted /\ reply'[K] = NoReply
      /\ tally' = Count(outcome, flags[K][c0])
      /\ Goto(K, "reset", flags[K], c0)
  BY <1>1 DEF Conclude, TypeOK, K
<1>5. /\ tally'.done <= tally.done + Cardinality(Done)
      /\ tally'.done + tally'.failed <= tally.done + tally.failed + Cardinality(New)
  <2>1. CASE Succeeded(outcome)
    <3>1. /\ tally'.done = tally.done + Cardinality(outcome.good)
          /\ tally'.failed = tally.failed + Cardinality(outcome.bad)
      BY <1>4, <2>1 DEF Count
    <3>2. /\ Cardinality(outcome.good) <= Cardinality(Done)
          /\ Cardinality(outcome.good) + Cardinality(outcome.bad) <= Cardinality(New)
          /\ Cardinality(Done) \in Nat /\ Cardinality(New) \in Nat
      BY <1>2, <1>3
    <3>3. /\ tally.done \in Nat /\ tally.failed \in Nat
          /\ Cardinality(outcome.good) \in Nat /\ Cardinality(outcome.bad) \in Nat
      BY <1>1
    <3>4. QED
      BY ONLY <3>1, <3>2, <3>3
  <2>2. CASE ~Succeeded(outcome)
    <3>1. /\ tally'.done = tally.done
          /\ tally'.failed = tally.failed + Cardinality(flags[K][c0])
      BY <1>4, <2>2 DEF Count
    <3>2. /\ Cardinality(Done) \in Nat
          /\ Cardinality(New) \in Nat
          /\ Cardinality(flags[K][c0]) <= Cardinality(New)
      BY <1>2, <1>3
    <3>3. tally.done \in Nat /\ tally.failed \in Nat /\ Cardinality(flags[K][c0]) \in Nat
      BY <1>1, <1>3
    <3>4. QED
      BY ONLY <3>1, <3>2, <3>3
  <2>3. QED
    BY <2>1, <2>2
<1>6. \/ phase'[K] = "report"
      \/ phase'[K] = "connect" /\ at'[K] \in Chassis /\ at'[K] > c0
  BY <1>1, <1>4, GotoStep
<1>7. New \cap Passed = {}
  BY <1>1 DEF Passed
<1>8. Passed \cup New \subseteq Passed'
  <2>1. New \subseteq Passed'
    BY <1>1, <1>2, <1>6 DEF Passed
  <2>2. ASSUME NEW x \in Passed PROVE x \in Passed'
    <3>1. x \in Boards /\ x[1] \in Nat
      BY DEF Passed, Boards, Chassis
    <3>2. x[1] <= c0
      BY <1>1, <3>1 DEF Passed
    <3>3. Chassis \subseteq Nat
      BY DEF Chassis
    <3>4. phase'[K] = "report" \/ x[1] < at'[K]
      BY <1>1, <1>6, <3>1, <3>2, <3>3
    <3>5. QED
      BY <3>1, <3>4 DEF Passed
  <2>3. QED
    BY <2>1, <2>2
<1>9. Done \subseteq BoardsOf(acted'[K]) /\ PassedDone \subseteq BoardsOf(acted'[K])
  BY <1>1, <1>4 DEF BoardsOf, PassedDone, Boards
<1>10. QED
  BY <1>2, <1>4, <1>5, <1>6, <1>7, <1>8, <1>9, TallyCounts

(* And a board when it has or has not answered.                            *)
LEMMA ConsolePings ==
  ASSUME TypeOK, TypeOK', TallyInv, Ping(K)
  PROVE  TallyInv'
<1> DEFINE c0 == at[K]
           s0 == board[K]
           New == {<<c0, s0>>}
<1>1. /\ K \in Worker /\ c0 \in Chassis /\ c0 \in Nat /\ s0 \in Slots /\ s0 \in Nat
      /\ flags[K] \in [Chassis -> SUBSET Slots]
      /\ acted[K] \in [Chassis -> SUBSET Slots]
      /\ tally.done \in Nat /\ tally.failed \in Nat
  <2>1. at \in [Worker -> Chassis] /\ board \in [Worker -> Slots]
    BY DEF TypeOK
  <2>2. c0 \in Chassis /\ c0 \in Nat /\ s0 \in Slots /\ s0 \in Nat
    BY <2>1, KWorker DEF Chassis, Slots
  <2>3. flags[K] \in [Chassis -> SUBSET Slots] /\ acted[K] \in [Chassis -> SUBSET Slots]
    BY KWorker DEF TypeOK
  <2>4. tally.done \in Nat /\ tally.failed \in Nat
    BY DEF TypeOK
  <2>5. QED
    BY <2>2, <2>3, <2>4, KWorker
<1>0. reply'[K] = NoReply
  BY DEF Ping, TallyInv
<1>2. New \in SUBSET Boards /\ Cardinality(New) = 1 /\ Cardinality({}) = 0
  <2>1. Cardinality(New) = 1
    BY FS_Singleton
  <2>2. New \in SUBSET Boards
    BY <1>1 DEF Boards
  <2>3. QED
    BY <2>1, <2>2, FS_EmptySet
<1>3. PICK up \in BOOLEAN :
        /\ acted' = IF up THEN [acted EXCEPT ![K][c0] = @ \cup {s0}] ELSE acted
        /\ CountAnswer(up)
  BY DEF Ping, K
<1>4. \/ phase'[K] = "report"
      \/ phase'[K] = "ping" /\ at'[K] \in Chassis /\ at'[K] > c0
      \/ phase'[K] = "ping" /\ at'[K] = c0 /\ board'[K] \in Slots /\ board'[K] > s0
  <2>1. CASE Goto(K, "check", flags[K], c0)
    BY <1>1, <2>1, GotoStep
  <2>2. CASE /\ \E t \in Slots : IsFirst(t, {u \in flags[K][c0] : u > s0})
                                  /\ board' = [board EXCEPT ![K] = t]
             /\ UNCHANGED <<phase, at>>
    BY <1>1, <2>2 DEF IsFirst, TypeOK, Ping
  <2>3. QED
    BY <2>1, <2>2 DEF Ping
<1>5. New \cap Passed = {} /\ Passed \cup New \subseteq Passed'
  <2>1. phase[K] = "ping"
    BY DEF Ping
  <2>2. New \cap Passed = {}
    BY <1>1, <2>1 DEF Passed
  <2>3. New \subseteq Passed'
    BY <1>1, <1>2, <1>4 DEF Passed
  <2>4. ASSUME NEW x \in Passed PROVE x \in Passed'
    <3>1. x \in Boards /\ x[1] \in Nat /\ x[2] \in Nat
      BY DEF Passed, Boards, Chassis, Slots
    <3>2. \/ x[1] < c0
          \/ x[1] = c0 /\ x[2] < s0
      BY <2>1 DEF Passed
    <3>3. Chassis \subseteq Nat /\ Slots \subseteq Nat
      BY DEF Chassis, Slots
    <3>4. \/ phase'[K] = "report"
          \/ x[1] < at'[K]
          \/ phase'[K] = "ping" /\ x[1] = at'[K] /\ x[2] < board'[K]
      BY <1>1, <1>4, <3>1, <3>2, <3>3
    <3>5. QED
      BY <3>1, <3>4 DEF Passed
  <2>5. QED
    BY <2>2, <2>3, <2>4
<1>6. PassedDone \subseteq BoardsOf(acted'[K])
  <2>1. \A c \in Chassis : acted[K][c] \subseteq acted'[K][c]
    BY <1>1, <1>3 DEF TypeOK
  <2>2. QED
    BY <2>1 DEF PassedDone, BoardsOf, Boards
<1>7. phase'[K] # "idle"
  BY <1>4
<1>8. CASE up
  <2>1. New \subseteq BoardsOf(acted'[K])
    BY <1>1, <1>3, <1>8 DEF BoardsOf, Boards, TypeOK
  <2>2. tally'.done = tally.done + 1 /\ tally'.failed = tally.failed
    BY <1>1, <1>3, <1>8 DEF CountAnswer
  <2>3. /\ tally'.done <= tally.done + Cardinality(New)
        /\ tally'.done + tally'.failed <= tally.done + tally.failed + Cardinality(New)
    BY <1>1, <1>2, <2>2
  <2>4. New \in SUBSET New
    OBVIOUS
  <2> HIDE DEF New
  <2>5. QED
    BY <1>0, <1>2, <1>5, <1>6, <1>7, <2>1, <2>3, <2>4, TallyCounts
<1>9. CASE ~up
  <2>1. tally'.done = tally.done /\ tally'.failed = tally.failed + 1
    BY <1>1, <1>3, <1>9 DEF CountAnswer
  <2>2. {} \in SUBSET New /\ {} \subseteq BoardsOf(acted'[K])
    OBVIOUS
  <2>3. /\ tally'.done <= tally.done + Cardinality({})
        /\ tally'.done + tally'.failed <= tally.done + tally.failed + Cardinality(New)
    BY <1>1, <1>2, <2>1
  <2> HIDE DEF New
  <2>4. QED
    BY <1>0, <1>2, <1>5, <1>6, <1>7, <2>2, <2>3, TallyCounts
<1>10. QED
  BY <1>8, <1>9

(* Every step of the console keeps the totals honest.                      *)
LEMMA ConsoleStep ==
  ASSUME TypeOK, TypeOK', TallyInv, Work(K) \/ Perform(K)
  PROVE  TallyInv'
<1>1. /\ K \in Worker /\ at[K] \in Chassis /\ flags[K][at[K]] \in SUBSET Slots
      /\ acted[K] \in [Chassis -> SUBSET Slots]
      /\ reply[K] # NoReply => reply[K] \in Reply
  BY KWorker DEF TypeOK
<1>2. ASSUME NEW e, phase[K] \in {"connect", "send", "receive"}, Conclude(K, Failure(e))
      PROVE  TallyInv'
  <2>1. /\ Cardinality(Failure(e).good) = 0 /\ Cardinality(Failure(e).bad) = 0
        /\ Cardinality(acted[K][at[K]]) \in Nat /\ Cardinality(flags[K][at[K]]) \in Nat
    BY <1>1, FS_EmptySet, SlotsFinite DEF Failure
  <2>2. QED
    BY <1>2, <2>1, ConsoleConcludes
<1>3. ASSUME NEW from \in {"connect", "send"}, NEW to \in {"send", "receive"},
             Step(K, from, to), UNCHANGED reply
      PROVE  TallyInv'
  <2>1. /\ phase[K] = from /\ phase'[K] = to /\ at' = at /\ acted' = acted
        /\ tally' = tally /\ reply'[K] = NoReply
    BY <1>1, <1>3 DEF Step, TypeOK, TallyInv
  <2>2. Passed' = Passed /\ PassedDone' = PassedDone
    BY <2>1 DEF Passed, PassedDone, BoardsOf
  <2>3. QED
    BY <2>1, <2>2 DEF TallyInv
<1>4. CASE Connect(K) \/ Send(K)
  BY <1>2, <1>3, <1>4 DEF Connect, Send
<1>5. CASE Receive(K)
  <2>1. CASE Conclude(K, Failure("TIMEOUT_ERROR"))
    BY <1>2, <1>5, <2>1 DEF Receive
  <2>2. CASE /\ reply[K].form \in {"full", "short", "closed"}
             /\ Conclude(K, ParseResponse(reply[K], flags[K][at[K]]))
    <3>1. reply[K] # NoReply /\ reply[K] \in Reply
      BY <1>1, <2>2 DEF NoReply
    <3>2. reply[K].ok = acted[K][at[K]]
      BY <3>1 DEF TallyInv
    <3>3. QED
      BY <1>1, <1>5, <2>2, <3>1, <3>2, ParseResponseType, ResultsBounded, ConsoleConcludes
         DEF Receive
  <2>3. QED
    BY <1>5, <2>1, <2>2 DEF Receive
<1>6. CASE Perform(K)
  <2>1. PICK ok \in SUBSET Requested(K), form \in {"full", "short", "closed", "lost"} :
          /\ acted' = [acted EXCEPT ![K][at[K]] = ok]
          /\ reply' = [reply EXCEPT ![K] = [form |-> form, ok |-> ok]]
    BY <1>6 DEF Perform
  <2>2. /\ phase[K] = "receive" /\ phase' = phase /\ at' = at /\ tally' = tally
        /\ acted'[K] = [acted[K] EXCEPT ![at[K]] = ok]
        /\ reply'[K].ok = acted'[K][at'[K]]
    BY <1>1, <1>6, <2>1 DEF Perform, TypeOK
  <2>3. Passed' = Passed
    BY <2>2 DEF Passed
  <2>4. PassedDone' = PassedDone
    BY <1>1, <2>2, <2>3 DEF PassedDone, BoardsOf, Boards, Passed
  <2>5. QED
    BY <2>2, <2>3, <2>4 DEF TallyInv
<1>7. CASE Report(K)
  <2>1. /\ phase'[K] = "idle" /\ reply'[K] = NoReply
        /\ tally'.done = 0 /\ tally'.failed = 0
    BY <1>1, <1>7 DEF Report, TypeOK, TallyInv, K
  <2>2. Cardinality(PassedDone') \in Nat /\ Cardinality(Passed') \in Nat
    BY BoardsFinite DEF PassedDone, Passed
  <2>3. QED
    BY <2>1, <2>2 DEF TallyInv
<1>8. QED
  BY <1>4, <1>5, <1>6, <1>7, ConsolePings DEF Work

(* The totals that the console prints count no more boards as done than    *)
(* were, and no more in all than there are, in any mixture of successes,   *)
(* partial successes, short replies and timeouts, while the listener works *)
(* at the same time.                                                       *)
THEOREM TotalsAlwaysHonest == Spec => []TotalsHonest
<1>1. ASSUME Init PROVE TallyInv
  <2>1. Cardinality(PassedDone) \in Nat /\ Cardinality(Passed) \in Nat
    BY BoardsFinite DEF PassedDone, Passed
  <2>2. tally.done = 0 /\ tally.failed = 0 /\ reply[K] = NoReply
    BY <1>1, KWorker DEF Init
  <2>3. QED
    BY <2>1, <2>2 DEF TallyInv
<1>2. ASSUME TypeOK, TypeOK', TallyInv, [Next]_vars
      PROVE  TallyInv'
  <2>1. CASE \/ RoleChange \/ IgnoreRequest \/ UNCHANGED vars
             \/ \E r \in Request : SendRequest(r)
    BY <1>2, <2>1, TallyUntouched DEF RoleChange, IgnoreRequest, SendRequest, vars, work
  <2>2. CASE HandleRequest
    <3>1. Head(inbox) \in Request
      BY <1>2, <2>2 DEF HandleRequest, TypeOK
    <3>2. Head(inbox).flags \in [Chassis -> SUBSET Slots]
      BY <3>1 DEF Request
    <3>3. Goto("listener", Head(inbox).command, Head(inbox).flags, 0)
      BY <2>2 DEF HandleRequest, Begin
    <3>4. phase'[K] = phase[K] /\ at'[K] = at[K] /\ board'[K] = board[K]
      BY <1>2, <3>2, <3>3, GotoStep DEF K, Worker
    <3>5. QED
      BY <1>2, <2>2, <3>4, TallyUntouched DEF HandleRequest
  <2>3. CASE ConsoleCommand
    <3>1. PICK cmd \in Commands : Begin(K, cmd, AllBoards)
      BY <2>3 DEF ConsoleCommand, K
    <3>2. UNCHANGED <<reply, acted, tally>> /\ phase[K] = "idle"
      BY <2>3, <3>1 DEF ConsoleCommand, Begin
    <3>3. AllBoards \in [Chassis -> SUBSET Slots]
      BY DEF AllBoards
    <3>4. phase'[K] # "idle"
      BY <1>2, <3>1, <3>3, KWorker, GotoStep DEF Begin
    <3>5. Cardinality(PassedDone') \in Nat /\ Cardinality(Passed') \in Nat
      BY BoardsFinite DEF PassedDone, Passed
    <3>6. QED
      BY <1>2, <3>2, <3>4, <3>5 DEF TallyInv
  <2>4. ASSUME NEW w \in Worker, w # K, Work(w) \/ Perform(w)
        PROVE  TallyInv'
    BY <1>2, <2>4, KWorker, WorkersApart, TallyUntouched DEF Worker, K, L
  <2>5. QED
    BY <1>2, <2>1, <2>2, <2>3, <2>4, ConsoleStep DEF Next
<1>3. ASSUME TypeOK, TallyInv PROVE TotalsHonest
  <2>1. /\ PassedDone \in SUBSET BoardsOf(acted[K]) /\ BoardsOf(acted[K]) \in SUBSET Boards
        /\ Passed \in SUBSET Boards
    BY DEF PassedDone, BoardsOf, Passed
  <2>2. /\ Cardinality(PassedDone) <= Cardinality(BoardsOf(acted[K]))
        /\ Cardinality(Passed) <= Cardinality(Boards)
    BY <2>1, BoardsFinite, FS_Subset
  <2>3. /\ Cardinality(PassedDone) \in Nat /\ Cardinality(BoardsOf(acted[K])) \in Nat
        /\ Cardinality(Passed) \in Nat /\ Cardinality(Boards) \in Nat
    BY <2>1, BoardsFinite
  <2>4. QED
    BY <1>3, <2>2, <2>3 DEF TypeOK, TallyInv, TotalsHonest, K
<1>4. QED
  BY <1>1, <1>2, <1>3, TypeCorrect, PTL DEF Spec
=============================================================================
