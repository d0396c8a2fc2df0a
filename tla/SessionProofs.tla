---------------------------- MODULE SessionProofs ----------------------------
(***************************************************************************)
(* What a session of GUI, server and simulators promises, for every        *)
(* project, every depth of nested clicks and every length of output.       *)
(*                                                                         *)
(* The invariant is a table: for each place where the handler of a tab may *)
(* be, what the server's thread, the two directions of the connection and  *)
(* the simulator may be doing.  It holds as long as the session is on      *)
(* track.  After some accidents that leave it on track GUI and server wait *)
(* for each other: these rows are in the table too, because nothing may    *)
(* come of them.                                                           *)
(***************************************************************************)
EXTENDS Session, DataLemmas, FiniteSetTheorems, TLAPS

(* Where a handler may be, and what a thread may be doing.                 *)
Positions ==
  {"compile_command", "compile_path", "compile_name", "compile_answer",
   "compile_done", "compile_failed", "run_command", "run_path", "bind",
   "accept", "simulator", "simulator_shown", "board", "board_shown",
   "run_done"}
Places == Positions \cup {"free"}

(* The handler of tab t is at p; "free" if it has none.                    *)
Where(st, t, p) ==
  IF p = "free" THEN \A i \in 1 .. Len(st) : st[i].tab # t
  ELSE \E i \in 1 .. Len(st) : st[i].tab = t /\ st[i].at = p

(* All that belongs to tab t.                                              *)
View(t) ==
  [phase |-> thread[t].phase, cnt |-> thread[t].cnt, path |-> thread[t].path,
   filename |-> thread[t].filename, device |-> thread[t].deviceType,
   line |-> thread[t].line, up |-> up[t], down |-> down[t], sim |-> sim[t],
   out |-> simOut[t], ack |-> simAck[t], asked |-> asked[t],
   runs |-> t \in runnable, shown |-> shown[t], printed |-> printed[t]]

(* Nothing is on its way; no simulator runs; the server knows the names,   *)
(* and the device, of the tab.                                             *)
Quiet(v) == v.up = <<>> /\ v.down = <<>>
SimOff(v) == v.sim \in {"none", "gone"} /\ v.out = <<>>
Named(t, v) == v.path = <<Path(t)>> /\ v.filename = <<Name(t)>>
Chosen(v) == v.asked \in Devices /\ v.device = <<Device(v.asked)>>

(* The server is about to receive the name and to start the program.       *)
Starting(t, v) ==
  /\ v.phase = "GHF" /\ v.cnt = 1 /\ v.path = <<Path(t)>>
  /\ v.up = <<Name(t)>> /\ v.down = <<>> /\ SimOff(v)

(* The program runs on the simulator, which sends one character at a time, *)
(* or has ended there.                                                     *)
OnSim(t, v, acc) ==
  /\ v.asked = "Or1ksim" /\ v.cnt = 0 /\ Named(t, v) /\ Quiet(v)
  /\ v.line = <<>>
  /\ \/ /\ v.phase = "simulate" /\ v.sim \in {"boot", "run", "gone"}
        /\ v.out = <<>> /\ v.ack = 0
     \/ /\ v.phase = "simulate" /\ v.sim = "ack" /\ v.ack = 0
        /\ \E c \in Nat : v.out = <<c>> /\ (c = NUL => "nul" \in acc)
     \/ v.phase = "simulate" /\ v.sim = "ack" /\ v.ack = 1 /\ v.out = <<>>
     \/ v.phase = "command" /\ v.sim = "gone" /\ v.out = <<>> /\ v.ack = 0

(* The program runs on a board, or has ended there; a line is on its way   *)
(* in one direction or its acknowledgement in the other.                   *)
OnBoard(t, v) ==
  /\ v.asked = "VEX_T2" /\ v.cnt = 0 /\ Named(t, v) /\ SimOff(v)
  /\ \/ v.phase = "board" /\ Quiet(v)
     \/ v.phase = "line" /\ v.up = <<>> /\ v.down = <<Line(v.line)>>
     \/ v.phase = "line" /\ v.up = <<ACK>> /\ v.down = <<>>
     \/ v.phase \in {"save", "command"} /\ v.up = <<>> /\ v.down = <<END>>

(* The table: the tab has no handler, or the handler of "Compile" ...      *)
FreeRow(v) ==
  /\ v.phase \in {"none", "start", "command"} /\ v.cnt = 0 /\ Quiet(v)
  /\ SimOff(v) /\ (v.runs = TRUE => v.phase = "command" /\ Chosen(v))
CompileCommandRow(v) ==
  /\ v.cnt = 0 /\ SimOff(v)
  /\ \/ /\ v.phase \in {"none", "start", "command"}
        /\ v.up = <<GAC>> /\ v.down = <<>>
     \/ v.phase = "GAC" /\ v.up = <<>> /\ v.down = <<ACK>>
CompilePathRow(t, v) ==
  /\ v.phase = "GAC" /\ v.down = <<>> /\ SimOff(v)
  /\ \/ v.cnt = 0 /\ v.up = <<Path(t)>>
     \/ v.cnt = 1 /\ v.up = <<>> /\ v.path = <<Path(t)>>
CompileNameRow(t, v) ==
  /\ v.phase = "GAC" /\ v.down = <<>> /\ SimOff(v) /\ v.path = <<Path(t)>>
  /\ \/ v.cnt = 1 /\ v.up = <<Name(t)>>
     \/ v.cnt = 2 /\ v.up = <<>> /\ v.filename = <<Name(t)>>
CompileAnswerRow(t, v, acc) ==
  /\ SimOff(v) /\ Named(t, v)
  /\ \/ /\ v.phase = "GAC" /\ v.cnt = 2 /\ v.down = <<>>
        /\ \/ v.asked \in Devices /\ v.up = <<Device(v.asked)>>
           \/ v.up = <<>> /\ "device" \in acc
     \/ /\ v.cnt = 0 /\ v.up = <<>> /\ Chosen(v)
        /\ \/ v.phase = "generate" /\ v.down = <<>>
           \/ v.phase = "command" /\ v.down = <<ACK>>
CompileDoneRow(v) ==
  v.phase = "command" /\ v.cnt = 0 /\ Quiet(v) /\ SimOff(v) /\ Chosen(v)

(* ... or the handler of "Run".                                            *)
RunCommandRow(v) ==
  /\ v.cnt = 0 /\ SimOff(v) /\ Chosen(v)
  /\ \/ v.phase = "command" /\ v.up = <<GHF>> /\ v.down = <<>>
     \/ v.phase = "GHF" /\ v.up = <<>> /\ v.down = <<ACK>>
RunPathRow(t, v) ==
  /\ v.phase = "GHF" /\ v.down = <<>> /\ SimOff(v) /\ Chosen(v)
  /\ \/ v.cnt = 0 /\ v.up = <<Path(t)>>
     \/ v.cnt = 1 /\ v.up = <<>> /\ v.path = <<Path(t)>>
WaitingRow(t, v, d, acc) ==
  /\ Chosen(v) /\ (v.asked = d \/ "device" \in acc)
  /\ Starting(t, v) \/ OnSim(t, v, acc) \/ OnBoard(t, v)
SimulatorRow(t, v, acc) ==
  Chosen(v) /\ OnSim(t, v, acc) /\ v.sim # "boot"
SimulatorShownRow(t, v) ==
  /\ Chosen(v) /\ v.asked = "Or1ksim" /\ v.cnt = 0 /\ Named(t, v) /\ Quiet(v)
  /\ v.line = <<>> /\ v.phase = "simulate" /\ v.sim = "ack" /\ v.out = <<>>
  /\ v.ack = 0
BoardShownRow(t, v) ==
  /\ Chosen(v) /\ v.asked = "VEX_T2" /\ v.cnt = 0 /\ Named(t, v) /\ Quiet(v)
  /\ SimOff(v) /\ v.phase = "line"
RunDoneRow(t, v) ==
  /\ Chosen(v) /\ v.cnt = 0 /\ Named(t, v) /\ Quiet(v) /\ v.out = <<>>
  /\ \/ v.phase \in {"simulate", "command"} /\ v.sim = "gone"
     \/ v.phase = "simulate" /\ v.sim = "ack" /\ v.ack = 0
     \/ v.phase \in {"line", "save", "command"} /\ v.sim \in {"none", "gone"}

Talk(t, p, v, acc) ==
  /\ p = "free" => FreeRow(v)
  /\ p = "compile_command" => CompileCommandRow(v)
  /\ p = "compile_path" => CompilePathRow(t, v)
  /\ p = "compile_name" => CompileNameRow(t, v)
  /\ p = "compile_answer" => CompileAnswerRow(t, v, acc)
  /\ p = "compile_done" => CompileDoneRow(v)
  /\ p # "compile_failed"
  /\ p = "run_command" => RunCommandRow(v)
  /\ p = "run_path" => RunPathRow(t, v)
  /\ p \in {"bind", "accept"} => WaitingRow(t, v, "Or1ksim", acc)
  /\ p = "board" => WaitingRow(t, v, "VEX_T2", acc)
  /\ p = "simulator" => SimulatorRow(t, v, acc)
  /\ p = "simulator_shown" => SimulatorShownRow(t, v)
  /\ p = "board_shown" => BoardShownRow(t, v)
  /\ p = "run_done" => RunDoneRow(t, v)

(* The characters a program prints are numbered; those that were printed   *)
(* and not shown are in the line or on their way from the simulator.  A    *)
(* line that has just been shown is still in the server's buffer.          *)
Upto(n) == [i \in 1 .. n |-> i]
Unseen(v) == IF v.phase = "line" /\ v.up # <<>> THEN <<>> ELSE v.line \o v.out
Output(p, v) ==
  IF p \in {"run_command", "run_path"} \/ v.phase = "GHF" THEN v.shown = <<>>
  ELSE IF p = "board_shown" THEN v.shown = Upto(v.printed)
  ELSE v.shown \o Unseen(v) = Upto(v.printed)

(* The types of the state.                                                 *)
SessionTypes ==
  /\ opened \subseteq Tabs /\ deviceBox \in Devices
  /\ dev \in [Tabs -> Devices \cup {""}] /\ asked \in [Tabs -> Devices \cup {""}]
  /\ stack \in Seq([tab : Tabs, at : Positions])
  /\ DOMAIN thread = Tabs /\ \A t \in Tabs : DOMAIN thread[t] = DOMAIN Idle
  /\ DOMAIN up = Tabs /\ DOMAIN down = Tabs
  /\ DOMAIN sim = Tabs /\ DOMAIN simOut = Tabs /\ DOMAIN simAck = Tabs
  /\ printed \in [Tabs -> Nat] /\ shown \in [Tabs -> Seq(Nat)]
  /\ \A t \in Tabs : thread[t].line \in Seq(Nat)

(* A tab has one handler at most, and only the last may be outside the     *)
(* event loop.                                                             *)
StackGood ==
  /\ \A i, j \in 1 .. Len(stack) : stack[i].tab = stack[j].tab => i = j
  /\ \A i \in 1 .. Len(stack) : i < Len(stack) => stack[i].at \in EventPoints

(* A connection is accepted once, and a thread serves its own connection.  *)
Waits(t) == \E i \in 1 .. Len(backlog) : backlog[i] = t
ServerGood ==
  /\ backlog \in Seq(Tabs)
  /\ \A i, j \in 1 .. Len(backlog) : backlog[i] = backlog[j] => i = j
  /\ \A t \in Tabs : Waits(t) => t \in opened /\ thread[t].phase = "none"
  /\ \A t \in Tabs : thread[t].phase # "none" => t \in opened
  /\ \A t \in Tabs : thread[t].phase \notin {"none", "start"} => thread[t].sock = t

(* A device, once selected, stays.                                         *)
DevicesGood == \A t \in Tabs : asked[t] \in Devices => dev[t] \in Devices

(* A simulator that has connected belongs to the handler that waits, and   *)
(* the one the GUI reads from to the handler that reads.  The port is      *)
(* bound once, so that one handler at most waits there or reads.           *)
ListenGood ==
  \/ listenq = <<>>
  \/ \E t \in Tabs :
       /\ listenq = <<t>> /\ \E p \in {"bind", "accept", "board"} : Where(stack, t, p)
       /\ thread[t].phase \in {"simulate", "command"}
       /\ asked[t] = "Or1ksim" /\ sim[t] \in {"run", "ack", "gone"}
Reads == {"simulator", "simulator_shown"}
Holds == {"accept"} \cup Reads
PeerGood ==
  /\ \A t \in Tabs, p \in Reads : Where(stack, t, p) => peer = t
  /\ \A t \in Tabs, p \in Holds : Where(stack, t, p) => bound
  /\ \A t, u \in Tabs, p, q \in Holds :
       Where(stack, t, p) /\ Where(stack, u, q) => t = u

TabsGood ==
  \A t \in Tabs, p \in Places :
    Where(stack, t, p) => Talk(t, p, View(t), accidents)
OutputGood ==
  accidents = {} =>
    \A t \in Tabs, p \in Places : Where(stack, t, p) => Output(p, View(t))

SessionGood ==
  /\ SessionTypes /\ StackGood /\ ServerGood /\ DevicesGood /\ ListenGood
  /\ PeerGood /\ TabsGood /\ OutputGood
SessionInv == OnTrack => SessionGood

-----------------------------------------------------------------------------
(* Segments are told apart by what they are.                               *)
LEMMA Segments ==
  /\ GAC[1] = "GAC" /\ GHF[1] = "GHF" /\ ACK # END
  /\ \A s : Line(s) # END /\ Line(s) # ACK /\ Line(s)[2] = s
  /\ \A s : <<Line(s)>> # <<END>>
  /\ \A d \in Devices : Device(d) = Device("Or1ksim") <=> d = "Or1ksim"
<1>1. GAC[1] = "GAC" /\ GHF[1] = "GHF"
  BY DEF GAC, GHF
<1>2. ACK # END
  BY DEF ACK, END
<1>3. ASSUME NEW s PROVE Line(s) # END /\ Line(s) # ACK /\ Line(s)[2] = s
  <2>1. Len(Line(s)) = 2 /\ Len(END) = 1 /\ Len(ACK) = 1
    BY DEF Line, END, ACK
  <2>2. Line(s)[2] = s
    BY DEF Line
  <2> QED BY <2>1, <2>2
<1>4. ASSUME NEW d \in Devices
      PROVE  Device(d) = Device("Or1ksim") <=> d = "Or1ksim"
  <2>1. Device(d)[2] = d /\ Device("Or1ksim")[2] = "Or1ksim"
    BY DEF Device
  <2> QED BY <2>1
<1>5. ASSUME NEW s PROVE <<Line(s)>> # <<END>>
  <2>1. <<Line(s)>>[1] = Line(s) /\ <<END>>[1] = END
    OBVIOUS
  <2> QED BY <1>3, <2>1
<1> QED BY <1>1, <1>2, <1>3, <1>4, <1>5

(* A segment that is alone.                                                *)
LEMMA AppendFirst == ASSUME NEW q, q = <<>>, NEW x PROVE Append(q, x) = <<x>>
OBVIOUS

(* From a connection on which one segment is under way, recv takes it.     *)
LEMMA ReceiveOne ==
  ASSUME NEW x, NEW q, q = <<x>>
  PROVE  /\ 1 .. Len(q) = {1}
         /\ Received(q, 1) = <<x>> /\ Rest(q, 1) = <<>>
         /\ q # <<>> /\ Head(q) = x /\ Tail(q) = <<>>
<1>1. q \in Seq({x}) /\ Len(q) = 1 /\ q[1] = x
  OBVIOUS
<1>2. 1 .. Len(q) = {1} /\ q # <<>> /\ Head(q) = x
  BY <1>1
<1>3. Tail(q) = <<>>
  BY <1>1
<1>4. Received(q, 1) = <<x>>
  <2> DEFINE r == SubSeq(q, 1, 1)
  <2>1. r \in Seq({x}) /\ Len(r) = 1
    BY <1>1
  <2>2. r[1] = q[1]
    BY <1>1
  <2> HIDE DEF r
  <2>3. r = <<x>>
    BY <1>1, <2>1, <2>2
  <2> QED BY <2>3 DEF Received, r
<1>5. Rest(q, 1) = <<>>
  BY <1>1 DEF Rest
<1> QED BY <1>2, <1>3, <1>4, <1>5

-----------------------------------------------------------------------------
(* The stack of handlers.                                                  *)
Frames == [tab : Tabs, at : Positions]
OneEach(st) == \A i, j \in 1 .. Len(st) : st[i].tab = st[j].tab => i = j

(* A tab is somewhere, and in one place.                                   *)
LEMMA SomePlace ==
  ASSUME NEW st \in Seq(Frames), NEW t
  PROVE  \E p \in Places : Where(st, t, p)
<1>1. CASE \A i \in 1 .. Len(st) : st[i].tab # t
  BY <1>1 DEF Where, Places
<1>2. CASE \E i \in 1 .. Len(st) : st[i].tab = t
  <2>1. PICK i \in 1 .. Len(st) : st[i].tab = t
    BY <1>2
  <2>2. st[i].at \in Positions
    <3>1. st[i] \in Frames
      BY <2>1
    <3> QED BY <3>1 DEF Frames
  <2>3. st[i].at # "free"
    BY <2>2 DEF Positions
  <2> QED BY <2>1, <2>2, <2>3 DEF Where, Places
<1> QED BY <1>1, <1>2

(* A tab that has one handler stands in one place.                         *)
LEMMA OnePlace ==
  ASSUME NEW st \in Seq(Frames), OneEach(st), NEW t,
         NEW p, NEW q, Where(st, t, p), Where(st, t, q)
  PROVE  p = q
<1>1. CASE p = "free"
  BY <1>1 DEF Where
<1>2. CASE q = "free"
  BY <1>2 DEF Where
<1>3. CASE p # "free" /\ q # "free"
  BY <1>3 DEF Where, OneEach
<1> QED BY <1>1, <1>2, <1>3

(* The places after a click on t, ...                                      *)
PushTop(st, t, q) == Append(st, [tab |-> t, at |-> q])

(* A new handler on the stack of a tab that had none: the tab stands where *)
(* it starts, the others where they stood.                                 *)
LEMMA Pushed ==
  ASSUME NEW st \in Seq(Frames), OneEach(st), NEW t \in Tabs, NEW q \in Positions,
         \A i \in 1 .. Len(st) : st[i].tab # t,
         NEW s2, s2 = PushTop(st, t, q)
  PROVE  /\ s2 \in Seq(Frames) /\ OneEach(s2) /\ Where(s2, t, q)
         /\ Len(s2) = Len(st) + 1 /\ \A i \in 1 .. Len(st) : s2[i] = st[i]
         /\ \A u \in Tabs \ {t}, p \in Places : Where(s2, u, p) <=> Where(st, u, p)
<1> DEFINE f == [tab |-> t, at |-> q]
<1>1. f \in Frames /\ f.tab = t /\ f.at = q
  BY DEF Frames
<1> HIDE DEF f
<1>2. /\ s2 \in Seq(Frames) /\ Len(s2) = Len(st) + 1 /\ s2[Len(st) + 1] = f
      /\ \A i \in 1 .. Len(st) : s2[i] = st[i]
  BY <1>1 DEF f, PushTop
<1>3. OneEach(s2)
  <2> SUFFICES ASSUME NEW i \in 1 .. Len(s2), NEW j \in 1 .. Len(s2),
                      s2[i].tab = s2[j].tab
               PROVE  i = j
    BY DEF OneEach
  <2>1. ASSUME NEW k \in 1 .. Len(s2)
        PROVE  \/ k \in 1 .. Len(st) /\ s2[k] = st[k]
               \/ k = Len(st) + 1 /\ s2[k] = f
    BY <1>2
  <2>2. CASE i \in 1 .. Len(st) /\ j \in 1 .. Len(st)
    BY <1>2, <2>2 DEF OneEach
  <2> QED BY <1>1, <2>1, <2>2
<1>4. Where(s2, t, q)
  <2>1. q # "free"
    BY DEF Positions
  <2> QED BY <1>1, <1>2, <2>1 DEF Where
<1>5. ASSUME NEW u \in Tabs \ {t}, NEW p \in Places
      PROVE  Where(s2, u, p) <=> Where(st, u, p)
  <2>1. CASE p = "free"
    BY <1>1, <1>2, <2>1 DEF Where
  <2>2. CASE p # "free"
    BY <1>1, <1>2, <2>2 DEF Where
  <2> QED BY <2>1, <2>2
<1> QED BY <1>2, <1>3, <1>4, <1>5

(* ... after the last handler has gone on, ...                             *)
MoveTop(st, q) == [st EXCEPT ![Len(st)].at = q]

(* When the handler on top moves on, its tab stands in the new place and   *)
(* the others where they stood.                                            *)
LEMMA Changed ==
  ASSUME NEW st \in Seq(Frames), OneEach(st), st # <<>>, NEW q \in Positions,
         NEW t \in Tabs, st[Len(st)].tab = t,
         NEW s2, s2 = MoveTop(st, q)
  PROVE  /\ s2 \in Seq(Frames) /\ OneEach(s2) /\ Where(s2, t, q)
         /\ Len(s2) = Len(st)
         /\ \A i \in 1 .. Len(st) : i < Len(st) => s2[i] = st[i]
         /\ \A u \in Tabs \ {t}, p \in Places : Where(s2, u, p) <=> Where(st, u, p)
<1> DEFINE n == Len(st)
           f == [tab |-> t, at |-> q]
<1>1. n \in Nat /\ n > 0 /\ n \in 1 .. n /\ st[n] \in Frames
  OBVIOUS
<1>2. f \in Frames /\ f.tab = t /\ f.at = q
  BY DEF Frames
<1>3. [st[n] EXCEPT !.at = q] = f
  BY <1>1 DEF Frames
<1>4. s2 = [st EXCEPT ![n] = f]
  BY <1>3 DEF MoveTop
<1> HIDE DEF f
<1>5. /\ s2 \in Seq(Frames) /\ Len(s2) = n /\ s2[n] = f
      /\ \A i \in 1 .. n : i # n => s2[i] = st[i]
  BY <1>1, <1>2, <1>4
<1> HIDE DEF n
<1>6. \A i \in 1 .. n : s2[i].tab = st[i].tab
  BY <1>2, <1>5 DEF n
<1>7. OneEach(s2)
  BY <1>5, <1>6 DEF OneEach, n
<1>8. Where(s2, t, q)
  <2>1. q # "free"
    BY DEF Positions
  <2> QED BY <1>1, <1>2, <1>5, <2>1 DEF Where
<1>9. ASSUME NEW u \in Tabs \ {t}, NEW p \in Places
      PROVE  Where(s2, u, p) <=> Where(st, u, p)
  <2>1. CASE p = "free"
    BY <1>5, <1>6, <2>1 DEF Where, n
  <2>2. CASE p # "free"
    <3>1. \A i \in 1 .. n : s2[i].tab = u => i # n
      BY <1>2, <1>5
    <3>2. \A i \in 1 .. n : st[i].tab = u => i # n
      BY DEF n
    <3> QED BY <1>5, <2>2, <3>1, <3>2 DEF Where, n
  <2> QED BY <2>1, <2>2
<1>10. \A i \in 1 .. n : i < n => s2[i] = st[i]
  BY <1>1, <1>5
<1> QED BY <1>5, <1>7, <1>8, <1>9, <1>10 DEF n

(* ... and after it has returned.                                          *)
LEMMA Popped ==
  ASSUME NEW st \in Seq(Frames), OneEach(st), st # <<>>,
         NEW t \in Tabs, st[Len(st)].tab = t, NEW s2, s2 = Front(st)
  PROVE  /\ s2 \in Seq(Frames) /\ OneEach(s2) /\ Where(s2, t, "free")
         /\ Len(s2) = Len(st) - 1 /\ \A i \in 1 .. Len(s2) : s2[i] = st[i]
         /\ \A u \in Tabs \ {t}, p \in Places : Where(s2, u, p) <=> Where(st, u, p)
<1> DEFINE n == Len(st)
<1>1. n \in Nat /\ n > 0
  OBVIOUS
<1>2. s2 = SubSeq(st, 1, n - 1)
  BY DEF Front
<1>3. /\ s2 \in Seq(Frames) /\ Len(s2) = n - 1
      /\ \A i \in 1 .. n - 1 : s2[i] = st[i]
  <2>1. n - 1 \in Nat /\ \A i \in 1 .. n - 1 : st[i] \in Frames
    BY <1>1
  <2> DEFINE m == n - 1
  <2>2. m \in Nat /\ n - 1 = m
    BY <2>1
  <2> HIDE DEF m
  <2>3. /\ SubSeq(st, 1, m) \in Seq(Frames) /\ Len(SubSeq(st, 1, m)) = m
        /\ \A i \in 1 .. m : SubSeq(st, 1, m)[i] = st[i]
    BY <2>1, <2>2, SubSeqProperties
  <2> QED BY <1>2, <2>2, <2>3
<1>4. OneEach(s2)
  BY <1>1, <1>3 DEF OneEach
<1>5. Where(s2, t, "free")
  BY <1>1, <1>3 DEF Where, OneEach
<1>6. ASSUME NEW u \in Tabs \ {t}, NEW p \in Places
      PROVE  Where(s2, u, p) <=> Where(st, u, p)
  <2>1. \A i \in 1 .. n : st[i].tab = u => i \in 1 .. n - 1
    BY <1>1
  <2>2. \A i \in 1 .. n - 1 : i \in 1 .. n
    BY <1>1
  <2>3. CASE p = "free"
    BY <1>3, <2>1, <2>2, <2>3 DEF Where
  <2>4. CASE p # "free"
    BY <1>3, <2>1, <2>2, <2>4 DEF Where
  <2> QED BY <2>3, <2>4
<1> QED BY <1>3, <1>4, <1>5, <1>6

(* The last handler is where it is; a place outside the event loop is that *)
(* of the last handler.                                                    *)
LEMMA TopPlace ==
  ASSUME NEW st \in Seq(Frames), st # <<>>,
         NEW t, NEW p \in Positions, st[Len(st)] = [tab |-> t, at |-> p]
  PROVE  Where(st, t, p)
<1>1. Len(st) \in 1 .. Len(st) /\ st[Len(st)].tab = t /\ st[Len(st)].at = p
  OBVIOUS
<1>2. p # "free"
  BY DEF Positions
<1> QED BY <1>1, <1>2 DEF Where

(* A handler that is not in the event loop is the one on top of the stack. *)
LEMMA OutsideDelay ==
  ASSUME NEW st \in Seq(Frames), NEW t, NEW p \in Positions \ EventPoints,
         \A i \in 1 .. Len(st) : i < Len(st) => st[i].at \in EventPoints,
         Where(st, t, p)
  PROVE  st # <<>> /\ st[Len(st)].tab = t /\ st[Len(st)].at = p
<1>1. p # "free"
  BY DEF Positions
<1>2. PICK i \in 1 .. Len(st) : st[i].tab = t /\ st[i].at = p
  BY <1>1 DEF Where
<1>3. ~(i < Len(st))
  BY <1>2
<1>4. i = Len(st)
  BY <1>3
<1> QED BY <1>2, <1>4

-----------------------------------------------------------------------------
(* The table, read by what the server's thread or the simulator is doing.  *)

(* A thread that has not read its socket.                                  *)
LEMMA RowsNew ==
  ASSUME NEW t, NEW p \in Places, NEW v, NEW acc, Talk(t, p, v, acc),
         v.phase \in {"none", "start"}
  PROVE  p \in {"free", "compile_command"}
BY DEF Talk, Places, Positions, CompilePathRow, CompileNameRow,
       CompileAnswerRow, CompileDoneRow, RunCommandRow, RunPathRow, WaitingRow,
       Starting, OnSim, OnBoard, SimulatorRow, RunDoneRow, SimulatorShownRow,
       BoardShownRow

(* A thread that waits for a command, and one is under way.                *)
LEMMA RowsCommand ==
  ASSUME NEW t, NEW p \in Places, NEW v, NEW acc, Talk(t, p, v, acc),
         v.phase = "command", v.up # <<>>
  PROVE  \/ p = "compile_command" /\ v.up = <<GAC>> /\ v.down = <<>>
         \/ p = "run_command" /\ v.up = <<GHF>> /\ v.down = <<>>
BY DEF Talk, Places, Positions, FreeRow, CompileCommandRow, CompilePathRow,
       CompileNameRow, CompileAnswerRow, CompileDoneRow, RunCommandRow,
       RunPathRow, WaitingRow, Starting, OnSim, OnBoard, SimulatorRow,
       RunDoneRow, SimulatorShownRow,
       BoardShownRow, Quiet

(* A thread that waits for a field of GAC, and one is under way.           *)
LEMMA RowsGac ==
  ASSUME NEW t, NEW p \in Places, NEW v, NEW acc, Talk(t, p, v, acc),
         v.phase = "GAC", v.up # <<>>
  PROVE  \/ p = "compile_path" /\ v.cnt = 0 /\ v.up = <<Path(t)>>
         \/ p = "compile_name" /\ v.cnt = 1 /\ v.up = <<Name(t)>>
         \/ /\ p = "compile_answer" /\ v.cnt = 2
            /\ v.asked \in Devices /\ v.up = <<Device(v.asked)>>
BY DEF Talk, Places, Positions, FreeRow, CompileCommandRow, CompilePathRow,
       CompileNameRow, CompileAnswerRow, CompileDoneRow, RunCommandRow,
       RunPathRow, WaitingRow, Starting, OnSim, OnBoard, SimulatorRow,
       RunDoneRow, SimulatorShownRow,
       BoardShownRow, Quiet

(* A thread that runs the tool chain.                                      *)
LEMMA RowsGenerate ==
  ASSUME NEW t, NEW p \in Places, NEW v, NEW acc, Talk(t, p, v, acc),
         v.phase = "generate"
  PROVE  p = "compile_answer"
BY DEF Talk, Places, Positions, FreeRow, CompileCommandRow, CompilePathRow,
       CompileNameRow, CompileDoneRow, RunCommandRow, RunPathRow, WaitingRow,
       Starting, OnSim, OnBoard, SimulatorRow, RunDoneRow, SimulatorShownRow,
       BoardShownRow

(* A thread that waits for a field of GHF, and one is under way.           *)
LEMMA RowsGhf ==
  ASSUME NEW t, NEW p \in Places, NEW v, NEW acc, Talk(t, p, v, acc),
         v.phase = "GHF", v.up # <<>>
  PROVE  \/ p = "run_path" /\ v.cnt = 0 /\ v.up = <<Path(t)>>
         \/ p \in {"bind", "accept", "board"} /\ Starting(t, v) /\ Chosen(v)
BY DEF Talk, Places, Positions, FreeRow, CompileCommandRow, CompilePathRow,
       CompileNameRow, CompileAnswerRow, CompileDoneRow, RunCommandRow,
       RunPathRow, WaitingRow, OnSim, OnBoard, SimulatorRow,
       RunDoneRow, SimulatorShownRow,
       BoardShownRow, Quiet

(* A thread that waits for its simulator, and a simulator that runs.       *)
LEMMA RowsSim ==
  ASSUME NEW t, NEW p \in Places, NEW v, NEW acc, Talk(t, p, v, acc),
         v.phase = "simulate" \/ v.sim \in {"boot", "run", "ack"}
  PROVE  \/ p \in {"bind", "accept", "board", "simulator"} /\ OnSim(t, v, acc)
         \/ p = "run_done"
         \/ /\ p = "simulator_shown" /\ v.phase = "simulate" /\ v.sim = "ack"
            /\ v.ack = 0
BY DEF Talk, Places, Positions, FreeRow, CompileCommandRow, CompilePathRow,
       CompileNameRow, CompileAnswerRow, CompileDoneRow, RunCommandRow,
       RunPathRow, WaitingRow, Starting, OnBoard, SimulatorRow,
       SimulatorShownRow, BoardShownRow, SimOff

(* A thread that serves a board.                                           *)
LEMMA RowsBoard ==
  ASSUME NEW t, NEW p \in Places, NEW v, NEW acc, Talk(t, p, v, acc),
         v.phase \in {"board", "line", "save"}
  PROVE  \/ p \in {"bind", "accept", "board"} /\ OnBoard(t, v)
         \/ p = "run_done" /\ v.phase = "save"
         \/ p \in {"run_done", "board_shown"} /\ v.phase = "line" /\ v.up = <<>>
BY DEF Talk, Places, Positions, FreeRow, CompileCommandRow, CompilePathRow,
       CompileNameRow, CompileAnswerRow, CompileDoneRow, RunCommandRow,
       RunPathRow, WaitingRow, Starting, OnSim, SimulatorRow, RunDoneRow, Quiet,
       SimulatorShownRow, BoardShownRow

(* Further accidents change nothing in the table.                          *)
LEMMA TalkGrows ==
  ASSUME NEW t, NEW p, NEW v, NEW acc, Talk(t, p, v, acc), NEW more,
         acc \subseteq more
  PROVE  Talk(t, p, v, more)
<1>1. "device" \in acc => "device" \in more
  OBVIOUS
<1>2. "nul" \in acc => "nul" \in more
  OBVIOUS
<1>3. OnSim(t, v, acc) => OnSim(t, v, more)
  BY <1>2 DEF OnSim
<1>4. /\ \A d : WaitingRow(t, v, d, acc) => WaitingRow(t, v, d, more)
      /\ SimulatorRow(t, v, acc) => SimulatorRow(t, v, more)
      /\ CompileAnswerRow(t, v, acc) => CompileAnswerRow(t, v, more)
  BY <1>1, <1>3 DEF WaitingRow, SimulatorRow, CompileAnswerRow
<1> QED BY <1>4 DEF Talk

-----------------------------------------------------------------------------
(* The steps of server and simulators in the table.                        *)

SameFields(v, w) ==
  w.path = v.path /\ w.filename = v.filename /\ w.device = v.device
SameThread(v, w) ==
  w.phase = v.phase /\ w.cnt = v.cnt /\ w.line = v.line /\ SameFields(v, w)
SameWire(v, w) == w.up = v.up /\ w.down = v.down
SameSim(v, w) == w.sim = v.sim /\ w.out = v.out /\ w.ack = v.ack
SameNotes(v, w) ==
  w.asked = v.asked /\ w.runs = v.runs /\ w.shown = v.shown
    /\ w.printed = v.printed

(* A step from v to w keeps the row of the table and what is shown.        *)
Keeps(t, p, v, w, acc) ==
  /\ Talk(t, p, w, acc)
  /\ acc = {} /\ Output(p, v) => Output(p, w)

(* main accepts the connection, and the thread reads its socket.           *)
LEMMA RowStart ==
  ASSUME NEW t, NEW p \in Places, NEW v, NEW acc, Talk(t, p, v, acc),
         NEW w, SameFields(v, w), w.cnt = v.cnt, w.line = v.line,
         SameWire(v, w), SameSim(v, w), SameNotes(v, w),
         \/ v.phase = "none" /\ w.phase = "start"
         \/ v.phase = "start" /\ w.phase = "command"
  PROVE  Keeps(t, p, v, w, acc)
<1>1. p \in {"free", "compile_command"}
  BY RowsNew
<1>2. Talk(t, p, w, acc)
  BY <1>1 DEF Talk, FreeRow, CompileCommandRow, Quiet, SimOff, Chosen,
     SameFields, SameWire, SameSim, SameNotes
<1>3. Output(p, v) => Output(p, w)
  BY <1>1 DEF Output, Unseen, SameWire, SameSim, SameNotes
<1> QED BY <1>2, <1>3 DEF Keeps

(* connection_handler() answers a command.                                 *)
LEMMA RowCommand ==
  ASSUME NEW t, NEW p \in Places, NEW v, NEW acc, Talk(t, p, v, acc),
         NEW w, SameFields(v, w), w.cnt = v.cnt, w.line = v.line,
         SameSim(v, w), SameNotes(v, w), v.phase = "command",
         \/ v.up = <<GAC>> /\ p = "compile_command" /\ w.phase = "GAC"
         \/ v.up = <<GHF>> /\ p = "run_command" /\ w.phase = "GHF",
         w.up = <<>>, w.down = <<ACK>>
  PROVE  Keeps(t, p, v, w, acc)
<1>1. Talk(t, p, w, acc)
  BY DEF Talk, CompileCommandRow, RunCommandRow, SimOff, Chosen,
     SameFields, SameSim, SameNotes
<1>2. Output(p, v) => Output(p, w)
  BY DEF Output, Unseen, SameSim, SameNotes
<1> QED BY <1>1, <1>2 DEF Keeps

(* The values of cnt are distinct (for Zenon).                             *)
LEMMA Counts == 0 # 1 /\ 0 # 2 /\ 1 # 2
OBVIOUS

(* A field of GAC arrives in its place.                                    *)
LEMMA RowGac ==
  ASSUME NEW t, NEW p \in Places, NEW v, NEW acc, Talk(t, p, v, acc),
         v.phase = "GAC", v.up # <<>>,
         NEW w, w.line = v.line, SameSim(v, w), SameNotes(v, w),
         w.up = <<>>, w.down = v.down,
         \/ /\ v.cnt = 0 /\ w.cnt = 1 /\ w.phase = "GAC" /\ w.path = v.up
            /\ w.filename = v.filename /\ w.device = v.device
         \/ /\ v.cnt = 1 /\ w.cnt = 2 /\ w.phase = "GAC" /\ w.path = v.path
            /\ w.filename = v.up /\ w.device = v.device
         \/ /\ v.cnt = 2 /\ w.cnt = 0 /\ w.phase = "generate"
            /\ w.path = v.path /\ w.filename = v.filename /\ w.device = v.up
  PROVE  Keeps(t, p, v, w, acc)
<1>1. \/ p = "compile_path" /\ v.cnt = 0 /\ v.up = <<Path(t)>>
      \/ p = "compile_name" /\ v.cnt = 1 /\ v.up = <<Name(t)>>
      \/ /\ p = "compile_answer" /\ v.cnt = 2
         /\ v.asked \in Devices /\ v.up = <<Device(v.asked)>>
  BY RowsGac
<1>2. Talk(t, p, w, acc)
  <2>1. CASE p = "compile_path"
    <3>1. w.phase = "GAC" /\ w.cnt = 1 /\ w.path = <<Path(t)>>
      BY <1>1, <2>1, Counts, Zenon
    <3> QED BY <2>1, <3>1 DEF Talk, CompilePathRow, SimOff, SameSim
  <2>2. CASE p = "compile_name"
    <3>1. /\ w.phase = "GAC" /\ w.cnt = 2 /\ w.path = v.path
          /\ w.filename = <<Name(t)>>
      BY <1>1, <2>2, Counts, Zenon
    <3> QED BY <2>2, <3>1 DEF Talk, CompileNameRow, SimOff, SameSim
  <2>3. CASE p = "compile_answer"
    <3>1. /\ w.phase = "generate" /\ w.cnt = 0 /\ w.path = v.path
          /\ w.filename = v.filename /\ w.device = <<Device(v.asked)>>
      BY <1>1, <2>3, Counts, Zenon
    <3> QED BY <1>1, <2>3, <3>1 DEF Talk, CompileAnswerRow, SimOff, SameSim,
          SameNotes, Chosen, Named
  <2> QED BY <1>1, <2>1, <2>2, <2>3
<1>3. Output(p, v) => Output(p, w)
  BY <1>1 DEF Output, Unseen, SameSim, SameNotes
<1> QED BY <1>2, <1>3 DEF Keeps

(* The tool chain has run.                                                 *)
LEMMA RowGenerate ==
  ASSUME NEW t, NEW p \in Places, NEW v, NEW acc, Talk(t, p, v, acc),
         v.phase = "generate",
         NEW w, SameFields(v, w), w.cnt = v.cnt, w.line = v.line,
         SameSim(v, w), SameNotes(v, w), w.phase = "command",
         w.up = v.up, w.down = Append(v.down, ACK)
  PROVE  Keeps(t, p, v, w, acc)
<1>1. p = "compile_answer"
  BY RowsGenerate
<1>2. v.up = <<>> /\ v.down = <<>>
  BY <1>1 DEF Talk, CompileAnswerRow
<1>3. w.down = <<ACK>>
  BY <1>2
<1>4. Talk(t, p, w, acc)
  BY <1>1, <1>2, <1>3 DEF Talk, CompileAnswerRow, SimOff, SameSim, SameNotes,
     SameFields, Chosen, Named
<1>5. Output(p, v) => Output(p, w)
  BY <1>1 DEF Output, Unseen, SameSim, SameNotes
<1> QED BY <1>4, <1>5 DEF Keeps

(* The path of GHF.                                                        *)
LEMMA RowGhfPath ==
  ASSUME NEW t, NEW p \in Places, NEW v, NEW acc, Talk(t, p, v, acc),
         v.phase = "GHF", v.up # <<>>, v.cnt = 0,
         NEW w, w.line = v.line, SameSim(v, w), SameNotes(v, w),
         w.up = <<>>, w.down = v.down, w.path = v.up, w.filename = v.filename,
         w.device = v.device, w.cnt = 1, w.phase = "GHF"
  PROVE  Keeps(t, p, v, w, acc)
<1>1. p = "run_path" /\ v.up = <<Path(t)>>
  <2>1. \/ p = "run_path" /\ v.cnt = 0 /\ v.up = <<Path(t)>>
        \/ p \in {"bind", "accept", "board"} /\ Starting(t, v) /\ Chosen(v)
    BY RowsGhf
  <2>2. ~Starting(t, v)
    BY DEF Starting
  <2> QED BY <2>1, <2>2
<1>2. Talk(t, p, w, acc)
  BY <1>1 DEF Talk, RunPathRow, SimOff, SameSim, SameNotes, Chosen
<1>3. Output(p, v) => Output(p, w)
  BY <1>1 DEF Output, SameNotes
<1> QED BY <1>2, <1>3 DEF Keeps

(* Numbers in a row.                                                       *)
LEMMA UptoZero == Upto(0) = <<>>
BY DEF Upto

(* The characters up to n, and the next one.                               *)
LEMMA UptoNext ==
  ASSUME NEW n \in Nat
  PROVE  Upto(n) \in Seq(Nat) /\ Append(Upto(n), n + 1) = Upto(n + 1)
<1>1. Upto(n) \in Seq(Nat) /\ Len(Upto(n)) = n /\ DOMAIN Upto(n) = 1 .. n
  BY DEF Upto
<1>2. Upto(n + 1) \in Seq(Nat) /\ Len(Upto(n + 1)) = n + 1
  BY DEF Upto
<1> DEFINE a == Append(Upto(n), n + 1)
<1>3. a \in Seq(Nat) /\ Len(a) = n + 1 /\ a[n + 1] = n + 1
      /\ \A i \in 1 .. n : a[i] = Upto(n)[i]
  BY <1>1
<1>4. \A i \in 1 .. n + 1 : a[i] = Upto(n + 1)[i]
  <2> SUFFICES ASSUME NEW i \in 1 .. n + 1 PROVE a[i] = Upto(n + 1)[i]
    OBVIOUS
  <2> HIDE DEF a
  <2>1. CASE i = n + 1
    BY <1>3, <2>1 DEF Upto
  <2>2. CASE i # n + 1
    <3>1. i \in 1 .. n
      BY <2>2
    <3> QED BY <1>3, <3>1 DEF Upto
  <2> QED BY <2>1, <2>2
<1> HIDE DEF a
<1>5. a = Upto(n + 1)
  BY <1>2, <1>3, <1>4, SeqEqual
<1> QED BY <1>1, <1>5 DEF a

(* One more character printed at the end of the line.                      *)
LEMMA LineGrows ==
  ASSUME NEW a \in Seq(Nat), NEW b \in Seq(Nat), NEW n \in Nat,
         a \o b = Upto(n)
  PROVE  a \o Append(b, n + 1) = Upto(n + 1)
<1>1. n + 1 \in Nat
  OBVIOUS
<1>2. a \o Append(b, n + 1) = Append(a \o b, n + 1)
  <2> DEFINE x == n + 1
  <2>1. x \in Nat
    BY <1>1
  <2> HIDE DEF x
  <2>2. a \o Append(b, x) = Append(a \o b, x)
    <3>1. a \in Seq(Nat) /\ b \in Seq(Nat)
      OBVIOUS
    <3> QED BY <2>1, <3>1, AppendToConcat, SMTT(30)
  <2> QED BY <2>2 DEF x
<1> QED BY <1>2, UptoNext

(* The name of GHF, and the program is started.                            *)
LEMMA RowGhfStart ==
  ASSUME NEW t, NEW p \in Places, NEW v, NEW acc, Talk(t, p, v, acc),
         v.phase = "GHF", v.up # <<>>, v.cnt = 1,
         NEW w, w.asked = v.asked, w.runs = v.runs, w.shown = v.shown,
         w.printed = 0, w.up = <<>>, w.down = v.down, w.path = v.path,
         w.filename = v.up, w.device = v.device, w.cnt = 0, w.line = <<>>,
         w.out = <<>>, w.ack = 0,
         \/ v.asked = "Or1ksim" /\ w.phase = "simulate" /\ w.sim = "boot"
         \/ v.asked # "Or1ksim" /\ w.phase = "board" /\ w.sim = v.sim
  PROVE  Keeps(t, p, v, w, acc)
<1>1. p \in {"bind", "accept", "board"} /\ Starting(t, v) /\ Chosen(v)
  <2>1. \/ p = "run_path" /\ v.cnt = 0 /\ v.up = <<Path(t)>>
        \/ p \in {"bind", "accept", "board"} /\ Starting(t, v) /\ Chosen(v)
    BY RowsGhf
  <2>2. v.cnt # 0
    OBVIOUS
  <2> QED BY <2>1, <2>2
<1>2. Chosen(w) /\ Named(t, w) /\ Quiet(w)
  BY <1>1 DEF Chosen, Named, Quiet, Starting
<1>3. OnSim(t, w, acc) \/ OnBoard(t, w)
  BY <1>1, <1>2 DEF OnSim, OnBoard, Chosen, Starting, Devices, SimOff
<1>4. Talk(t, p, w, acc)
  BY <1>1, <1>2, <1>3 DEF Talk, WaitingRow
<1>5. Output(p, v) => Output(p, w)
  <2> SUFFICES ASSUME Output(p, v) PROVE Output(p, w)
    OBVIOUS
  <2>1. v.shown = <<>>
    BY DEF Output
  <2>2. <<>> \o (<<>> \o <<>>) = Upto(0)
    BY UptoZero
  <2>3. w.phase # "GHF" /\ w.phase # "line"
    OBVIOUS
  <2>4. Unseen(w) = <<>> \o <<>>
    BY <2>3 DEF Unseen
  <2> QED BY <1>1, <2>1, <2>2, <2>3, <2>4 DEF Output
<1> QED BY <1>4, <1>5 DEF Keeps

(* The simulator has ended, and the thread takes the next command.         *)
LEMMA RowSimEnded ==
  ASSUME NEW t, NEW p \in Places, NEW v, NEW acc, Talk(t, p, v, acc),
         v.phase = "simulate", v.sim = "gone",
         NEW w, SameFields(v, w), w.cnt = v.cnt, w.line = v.line,
         SameWire(v, w), SameSim(v, w), SameNotes(v, w), w.phase = "command"
  PROVE  Keeps(t, p, v, w, acc)
<1>1. \/ p \in {"bind", "accept", "board", "simulator"} /\ OnSim(t, v, acc)
      \/ p = "run_done"
  BY RowsSim
<1>2. OnSim(t, v, acc) => OnSim(t, w, acc)
  BY DEF OnSim, Named, Quiet, SameFields, SameWire, SameSim, SameNotes
<1>3. Chosen(v) => Chosen(w)
  BY DEF Chosen, SameFields, SameNotes
<1>4. Talk(t, p, w, acc)
  <2>1. CASE p \in {"bind", "accept", "board", "simulator"}
    BY <1>1, <1>2, <1>3, <2>1 DEF Talk, WaitingRow, SimulatorRow, SameSim,
       SameNotes
  <2>2. CASE p = "run_done"
    BY <1>3, <2>2 DEF Talk, RunDoneRow, Named, Quiet, SameFields, SameWire,
       SameSim
  <2> QED BY <1>1, <2>1, <2>2
<1>5. Output(p, v) => Output(p, w)
  BY <1>1 DEF Output, Unseen, SameWire, SameSim, SameNotes
<1> QED BY <1>4, <1>5 DEF Keeps

(* A simulator that connects, or is refused, and one that exits.           *)
LEMMA RowSimMoves ==
  ASSUME NEW t, NEW p \in Places, NEW v, NEW acc, Talk(t, p, v, acc),
         NEW w, SameThread(v, w), SameWire(v, w), SameNotes(v, w),
         w.out = v.out, w.ack = v.ack,
         \/ v.sim = "boot" /\ w.sim \in {"run", "gone"}
         \/ v.sim = "run" /\ w.sim = "gone"
  PROVE  Keeps(t, p, v, w, acc)
<1>1. p \in {"bind", "accept", "board", "simulator"} /\ OnSim(t, v, acc)
  BY RowsSim DEF Talk, RunDoneRow
<1>2. OnSim(t, w, acc)
  BY <1>1 DEF OnSim, Named, Quiet, SameFields, SameThread, SameWire, SameNotes
<1>3. Chosen(v) => Chosen(w)
  BY DEF Chosen, SameFields, SameThread, SameNotes
<1>4. Talk(t, p, w, acc)
  BY <1>1, <1>2, <1>3 DEF Talk, WaitingRow, SimulatorRow, SameNotes
<1>5. Output(p, v) => Output(p, w)
  BY <1>1 DEF Output, Unseen, SameThread, SameWire, SameNotes
<1> QED BY <1>4, <1>5 DEF Keeps

(* send_char() has its acknowledgement.                                    *)
LEMMA RowSimAck ==
  ASSUME NEW t, NEW p \in Places, NEW v, NEW acc, Talk(t, p, v, acc),
         NEW w, SameThread(v, w), SameWire(v, w), SameNotes(v, w),
         v.sim = "ack", v.ack > 0, w.sim = "run", w.out = v.out,
         w.ack = v.ack - 1
  PROVE  Keeps(t, p, v, w, acc)
<1>1. p \in {"bind", "accept", "board", "simulator"} /\ OnSim(t, v, acc)
  <2>1. \/ p \in {"bind", "accept", "board", "simulator"} /\ OnSim(t, v, acc)
        \/ p = "run_done"
    <3>1. v.ack # 0
      OBVIOUS
    <3> QED BY <3>1, RowsSim
  <2>2. v.ack # 0
    OBVIOUS
  <2>3. p # "run_done"
    BY <2>2 DEF Talk, RunDoneRow
  <2> QED BY <2>1, <2>3
<1>2. v.ack = 1 /\ v.out = <<>> /\ v.phase = "simulate"
  BY <1>1 DEF OnSim
<1>3. OnSim(t, w, acc)
  BY <1>1, <1>2 DEF OnSim, Named, Quiet, SameFields, SameThread, SameWire, SameNotes
<1>4. Chosen(v) => Chosen(w)
  BY DEF Chosen, SameFields, SameThread, SameNotes
<1>5. Talk(t, p, w, acc)
  BY <1>1, <1>3, <1>4 DEF Talk, WaitingRow, SimulatorRow, SameNotes
<1>6. Output(p, v) => Output(p, w)
  BY <1>1 DEF Output, Unseen, SameThread, SameWire, SameNotes
<1> QED BY <1>5, <1>6 DEF Keeps

(* What may be printed.                                                    *)
Printable(v) == v.shown \in Seq(Nat) /\ v.line \in Seq(Nat) /\ v.printed \in Nat

(* send_char() sends a character.                                          *)
LEMMA RowSendChar ==
  ASSUME NEW t, NEW p \in Places, NEW v, NEW acc, Talk(t, p, v, acc),
         Printable(v), v.sim = "run",
         NEW w, SameThread(v, w), SameWire(v, w), w.asked = v.asked,
         w.runs = v.runs, w.shown = v.shown, w.printed = v.printed + 1,
         w.sim = "ack", w.ack = v.ack,
         NEW c \in {0, v.printed + 1}, w.out = Append(v.out, c),
         c = 0 => "nul" \in acc
  PROVE  Keeps(t, p, v, w, acc)
<1>1. p \in {"bind", "accept", "board", "simulator"} /\ OnSim(t, v, acc)
  BY RowsSim DEF Talk, RunDoneRow
<1>2. /\ v.ack = 0 /\ v.out = <<>> /\ v.line = <<>> /\ v.phase = "simulate"
      /\ v.up = <<>>
  BY <1>1 DEF OnSim, Quiet
<1>3. c \in Nat /\ w.out = <<c>>
  BY <1>2 DEF Printable
<1>4. OnSim(t, w, acc)
  BY <1>1, <1>2, <1>3 DEF OnSim, Named, Quiet, NUL, SameFields, SameThread,
     SameWire
<1>5. Chosen(v) => Chosen(w)
  BY DEF Chosen, SameFields, SameThread
<1>6. Talk(t, p, w, acc)
  BY <1>1, <1>4, <1>5 DEF Talk, WaitingRow, SimulatorRow
<1>7. ASSUME acc = {}, Output(p, v) PROVE Output(p, w)
  <2>1. c = v.printed + 1
    BY <1>7
  <2>2. v.shown \o (<<>> \o <<>>) = Upto(v.printed)
    BY <1>1, <1>2, <1>7 DEF Output, Unseen
  <2>3. v.shown = Upto(v.printed)
    BY <2>2 DEF Printable
  <2>4. v.shown \o (<<>> \o <<c>>) = Append(v.shown, c)
    BY <1>3 DEF Printable
  <2>5. Append(v.shown, c) = Upto(v.printed + 1)
    BY <2>1, <2>3, UptoNext DEF Printable
  <2> QED BY <1>1, <1>2, <1>3, <2>4, <2>5 DEF Output, Unseen, SameThread, SameWire
<1> QED BY <1>6, <1>7 DEF Keeps

(* process(): a character from the board, which may end a line.            *)
LEMMA RowBoardChar ==
  ASSUME NEW t, NEW p \in Places, NEW v, NEW acc, Talk(t, p, v, acc),
         Printable(v), v.phase = "board",
         NEW w, SameFields(v, w), SameSim(v, w), w.cnt = v.cnt,
         w.asked = v.asked, w.runs = v.runs, w.shown = v.shown,
         w.printed = v.printed + 1, w.up = v.up,
         NEW c \in {0, v.printed + 1}, w.line = Append(v.line, c),
         c = 0 => "nul" \in acc,
         \/ w.phase = "board" /\ w.down = v.down
         \/ w.phase = "line" /\ w.down = Append(v.down, Line(w.line))
  PROVE  Keeps(t, p, v, w, acc)
<1>1. p \in {"bind", "accept", "board"} /\ OnBoard(t, v)
  BY RowsBoard
<1>2. v.up = <<>> /\ v.down = <<>> /\ v.out = <<>>
  BY <1>1 DEF OnBoard, Quiet, SimOff
<1>3. OnBoard(t, w)
  BY <1>1, <1>2 DEF OnBoard, Named, Quiet, SimOff, SameFields, SameSim
<1>4. Chosen(v) => Chosen(w)
  BY DEF Chosen, SameFields
<1>5. Talk(t, p, w, acc)
  BY <1>1, <1>3, <1>4 DEF Talk, WaitingRow
<1>6. ASSUME acc = {}, Output(p, v) PROVE Output(p, w)
  <2>5. c = v.printed + 1
    BY <1>6
  <2>1. v.shown \o (v.line \o <<>>) = Upto(v.printed)
    BY <1>1, <1>2, <1>6 DEF Output, Unseen
  <2>2. v.line \o <<>> = v.line /\ w.line \in Seq(Nat) /\ w.line \o <<>> = w.line
    BY <2>5 DEF Printable
  <2>3. v.shown \o v.line = Upto(v.printed)
    BY <2>1, <2>2
  <2>4. v.shown \o (w.line \o <<>>) = Upto(v.printed + 1)
    <3>1. v.shown \o Append(v.line, v.printed + 1) = Upto(v.printed + 1)
      BY <2>3, LineGrows, Zenon DEF Printable
    <3> QED BY <2>2, <2>5, <3>1, Zenon
  <2> QED BY <1>1, <1>2, <2>4 DEF Output, Unseen, SameSim
<1> QED BY <1>5, <1>6 DEF Keeps

(* The acknowledgement of a line, ...                                      *)
LEMMA RowLineAck ==
  ASSUME NEW t, NEW p \in Places, NEW v, NEW acc, Talk(t, p, v, acc),
         Printable(v), v.phase = "line", v.up # <<>>,
         NEW w, SameFields(v, w), SameSim(v, w), SameNotes(v, w),
         w.cnt = v.cnt, w.line = <<>>, w.up = <<>>, w.down = v.down,
         w.phase = "board"
  PROVE  Keeps(t, p, v, w, acc)
<1>1. p \in {"bind", "accept", "board"} /\ OnBoard(t, v)
  BY RowsBoard
<1>2. v.up = <<ACK>> /\ v.down = <<>> /\ v.out = <<>>
  BY <1>1 DEF OnBoard, Quiet, SimOff
<1>3. OnBoard(t, w)
  BY <1>1, <1>2 DEF OnBoard, Named, Quiet, SimOff, SameFields, SameSim, SameNotes
<1>4. Chosen(v) => Chosen(w)
  BY DEF Chosen, SameFields, SameNotes
<1>5. Talk(t, p, w, acc)
  BY <1>1, <1>3, <1>4 DEF Talk, WaitingRow, SameNotes
<1>6. ASSUME Output(p, v) PROVE Output(p, w)
  <2>1. v.shown \o <<>> = Upto(v.printed)
    BY <1>1, <1>6 DEF Output, Unseen
  <2>2. <<>> \o <<>> = <<>>
    OBVIOUS
  <2> QED BY <1>1, <1>2, <2>1, <2>2 DEF Output, Unseen, SameSim, SameNotes
<1> QED BY <1>5, <1>6 DEF Keeps

(* ... the end of the program, and the memory is saved.                    *)
LEMMA RowBoardEnd ==
  ASSUME NEW t, NEW p \in Places, NEW v, NEW acc, Talk(t, p, v, acc),
         NEW w, SameFields(v, w), SameSim(v, w), SameNotes(v, w),
         w.cnt = v.cnt, w.line = v.line, w.up = v.up,
         \/ /\ v.phase = "board" /\ w.phase = "save"
            /\ w.down = Append(v.down, END)
         \/ v.phase = "save" /\ w.phase = "command" /\ w.down = v.down
  PROVE  Keeps(t, p, v, w, acc)
<1>1. \/ p \in {"bind", "accept", "board"} /\ OnBoard(t, v)
      \/ p = "run_done" /\ v.phase = "save"
  BY RowsBoard
<1>2. OnBoard(t, v) => OnBoard(t, w)
  BY DEF OnBoard, Named, Quiet, SimOff, SameFields, SameSim, SameNotes
<1>3. Chosen(v) => Chosen(w)
  BY DEF Chosen, SameFields, SameNotes
<1>4. Talk(t, p, w, acc)
  <2>1. CASE p \in {"bind", "accept", "board"}
    BY <1>1, <1>2, <1>3, <2>1 DEF Talk, WaitingRow, SameNotes
  <2>2. CASE p = "run_done"
    BY <1>1, <1>3, <2>2 DEF Talk, RunDoneRow, Named, Quiet, SameFields, SameSim
  <2> QED BY <1>1, <2>1, <2>2
<1>5. Output(p, v) => Output(p, w)
  BY <1>1 DEF Output, Unseen, SameSim, SameNotes
<1> QED BY <1>4, <1>5 DEF Keeps

-----------------------------------------------------------------------------
(* The steps of the handlers in the table.                                 *)

(* A step from v to w takes the handler of t from p to q.                  *)
Steps(t, p, q, v, w, acc) ==
  /\ Talk(t, q, w, acc)
  /\ acc = {} /\ Output(p, v) => Output(q, w)

(* on_compile_clicked() and on_run_clicked().                              *)
LEMMA RowCompile ==
  ASSUME NEW t, NEW v, NEW acc, Talk(t, "free", v, acc),
         NEW w, SameThread(v, w), SameSim(v, w), SameNotes(v, w),
         w.up = Append(v.up, GAC), w.down = v.down
  PROVE  Steps(t, "free", "compile_command", v, w, acc)
<1>1. FreeRow(v)
  BY DEF Talk
<1>2. w.up = <<GAC>> /\ w.down = <<>>
  BY <1>1 DEF FreeRow, Quiet
<1>3. CompileCommandRow(w)
  BY <1>1, <1>2 DEF FreeRow, CompileCommandRow, SimOff, SameThread, SameSim
<1>4. Output("free", v) => Output("compile_command", w)
  BY <1>1 DEF Output, Unseen, FreeRow, SameThread, SameSim, SameNotes
<1> QED BY <1>3, <1>4 DEF Steps, Talk

(* on_run_clicked sends GHF and starts with an empty window.               *)
LEMMA RowRun ==
  ASSUME NEW t, NEW v, NEW acc, Talk(t, "free", v, acc), v.runs = TRUE,
         NEW w, SameThread(v, w), SameSim(v, w), w.asked = v.asked,
         w.shown = <<>>, w.up = Append(v.up, GHF), w.down = v.down
  PROVE  Steps(t, "free", "run_command", v, w, acc)
<1>1. FreeRow(v)
  BY DEF Talk
<1>2. w.up = <<GHF>> /\ w.down = <<>>
  BY <1>1 DEF FreeRow, Quiet
<1>3. RunCommandRow(w)
  BY <1>1, <1>2 DEF FreeRow, RunCommandRow, SimOff, Chosen, SameThread,
     SameFields, SameSim
<1>4. Output("run_command", w)
  BY DEF Output
<1> QED BY <1>3, <1>4 DEF Steps, Talk

(* The answer to the command has arrived, and the path is sent.            *)
LEMMA AnswerCommand ==
  ASSUME NEW t, NEW p \in {"compile_command", "run_command"}, NEW v, NEW acc,
         Talk(t, p, v, acc), v.down # <<>>
  PROVE  /\ v.down = <<ACK>> /\ v.up = <<>> /\ v.cnt = 0 /\ SimOff(v)
         /\ p = "compile_command" => v.phase = "GAC"
         /\ p = "run_command" => v.phase = "GHF" /\ Chosen(v)
BY DEF Talk, CompileCommandRow, RunCommandRow

(* The acknowledgement of GAC or GHF is read and the path sent.            *)
LEMMA RowCommandAck ==
  ASSUME NEW t, NEW p, NEW q, NEW v, NEW acc, Talk(t, p, v, acc),
         \/ p = "compile_command" /\ q = "compile_path"
         \/ p = "run_command" /\ q = "run_path",
         v.down # <<>>,
         NEW w, SameThread(v, w), SameSim(v, w), SameNotes(v, w),
         w.up = Append(v.up, Path(t)), w.down = <<>>
  PROVE  Steps(t, p, q, v, w, acc)
<1>1. /\ v.down = <<ACK>> /\ v.up = <<>> /\ v.cnt = 0 /\ SimOff(v)
      /\ p = "compile_command" => v.phase = "GAC"
      /\ p = "run_command" => v.phase = "GHF" /\ Chosen(v)
  BY AnswerCommand
<1>2. w.up = <<Path(t)>>
  BY <1>1, AppendFirst, Zenon
<1>3. CASE p = "compile_command"
  <2>1. CompilePathRow(t, w)
    BY <1>1, <1>2, <1>3 DEF CompilePathRow, SimOff, SameThread, SameSim
  <2>2. Output(p, v) => Output(q, w)
    BY <1>1, <1>3 DEF Output, Unseen, SameThread, SameSim, SameNotes
  <2> QED BY <1>3, <2>1, <2>2 DEF Steps, Talk
<1>4. CASE p = "run_command"
  <2>1. RunPathRow(t, w)
    BY <1>1, <1>2, <1>4 DEF RunPathRow, SimOff, Chosen, SameThread,
         SameFields, SameSim, SameNotes
  <2>2. Output(p, v) => Output(q, w)
    BY <1>4 DEF Output, SameNotes
  <2> QED BY <1>4, <2>1, <2>2 DEF Steps, Talk
<1> QED BY <1>3, <1>4

(* The name is sent when the server has taken the path.                    *)
LEMMA RowName ==
  ASSUME NEW t, NEW v, NEW acc, Talk(t, "compile_path", v, acc), v.up = <<>>,
         NEW w, SameThread(v, w), SameSim(v, w), SameNotes(v, w),
         w.up = Append(v.up, Name(t)), w.down = v.down
  PROVE  Steps(t, "compile_path", "compile_name", v, w, acc)
<1>1. /\ v.phase = "GAC" /\ v.down = <<>> /\ SimOff(v) /\ v.cnt = 1
      /\ v.path = <<Path(t)>>
  BY DEF Talk, CompilePathRow
<1>2. w.up = <<Name(t)>>
  BY AppendFirst, Zenon
<1>3. CompileNameRow(t, w)
  BY <1>1, <1>2 DEF CompileNameRow, SimOff, SameThread, SameFields, SameSim
<1>4. Output("compile_path", v) => Output("compile_name", w)
  BY <1>1 DEF Output, Unseen, SameThread, SameSim, SameNotes
<1> QED BY <1>3, <1>4 DEF Steps, Talk

(* The device type is sent, unless it is empty.                            *)
LEMMA RowDevice ==
  ASSUME NEW t, NEW v, NEW acc, Talk(t, "compile_name", v, acc), v.up = <<>>,
         NEW w, SameThread(v, w), SameSim(v, w), w.runs = v.runs,
         w.shown = v.shown, w.printed = v.printed, w.down = v.down,
         \/ w.asked \in Devices /\ w.up = Append(v.up, Device(w.asked))
         \/ w.up = v.up /\ "device" \in acc
  PROVE  Steps(t, "compile_name", "compile_answer", v, w, acc)
<1>1. /\ v.phase = "GAC" /\ v.down = <<>> /\ SimOff(v) /\ v.cnt = 2
      /\ v.path = <<Path(t)>> /\ v.filename = <<Name(t)>>
  BY DEF Talk, CompileNameRow
<1>2. \/ w.asked \in Devices /\ w.up = <<Device(w.asked)>>
      \/ w.up = <<>> /\ "device" \in acc
  BY AppendFirst, Zenon
<1>3. CompileAnswerRow(t, w, acc)
  BY <1>1, <1>2 DEF CompileAnswerRow, SimOff, Named, SameThread, SameFields,
     SameSim
<1>4. Output("compile_name", v) => Output("compile_answer", w)
  BY <1>1 DEF Output, Unseen, SameThread, SameSim
<1> QED BY <1>3, <1>4 DEF Steps, Talk

(* The answer to GAC, and the handler returns.                             *)
LEMMA AnswerCompiled ==
  ASSUME NEW t, NEW v, NEW acc, Talk(t, "compile_answer", v, acc),
         v.down # <<>>
  PROVE  /\ v.phase = "command" /\ v.down = <<ACK>> /\ v.cnt = 0
         /\ v.up = <<>> /\ Chosen(v) /\ SimOff(v)
BY DEF Talk, CompileAnswerRow

(* The answer to a compilation is read.                                    *)
LEMMA RowCompiled ==
  ASSUME NEW t, NEW v, NEW acc, Talk(t, "compile_answer", v, acc),
         v.down # <<>>,
         NEW w, SameThread(v, w), SameSim(v, w), SameNotes(v, w),
         w.up = v.up, w.down = <<>>
  PROVE  Steps(t, "compile_answer", "compile_done", v, w, acc)
<1>1. /\ v.phase = "command" /\ v.cnt = 0 /\ v.up = <<>>
      /\ Chosen(v) /\ SimOff(v)
  BY AnswerCompiled
<1>2. CompileDoneRow(w)
  BY <1>1 DEF CompileDoneRow, SimOff, Quiet, Chosen, SameThread,
     SameFields, SameSim, SameNotes
<1>3. Output("compile_answer", v) => Output("compile_done", w)
  BY <1>1 DEF Output, Unseen, SameThread, SameSim, SameNotes
<1> QED BY <1>2, <1>3 DEF Steps, Talk

(* on_compile_clicked shows the assembly and returns.                      *)
LEMMA RowCompileReturn ==
  ASSUME NEW t, NEW v, NEW acc, Talk(t, "compile_done", v, acc),
         NEW w, SameThread(v, w), SameSim(v, w), SameWire(v, w),
         w.asked = v.asked, w.shown = v.shown, w.printed = v.printed
  PROVE  Steps(t, "compile_done", "free", v, w, acc)
<1>1. CompileDoneRow(v)
  BY DEF Talk
<1>2. FreeRow(w)
  BY <1>1 DEF CompileDoneRow, FreeRow, SimOff, Quiet, Chosen, SameThread,
       SameFields, SameSim, SameWire
<1>3. Output("compile_done", v) => Output("free", w)
  BY <1>1 DEF CompileDoneRow, Output, Unseen, SameThread, SameSim, SameWire
<1> QED BY <1>2, <1>3 DEF Steps, Talk

(* The name of a run is sent, and the output is waited for.                *)
LEMMA RowRunName ==
  ASSUME NEW t, NEW v, NEW acc, Talk(t, "run_path", v, acc), v.up = <<>>,
         NEW w, SameThread(v, w), SameSim(v, w), SameNotes(v, w),
         w.up = Append(v.up, Name(t)), w.down = v.down,
         NEW d, v.asked = d \/ "device" \in acc, NEW q,
         (q = "bind" /\ d = "Or1ksim") \/ (q = "board" /\ d = "VEX_T2")
  PROVE  Steps(t, "run_path", q, v, w, acc)
<1>1. /\ v.phase = "GHF" /\ v.down = <<>> /\ SimOff(v) /\ Chosen(v)
      /\ v.cnt = 1 /\ v.path = <<Path(t)>>
  BY DEF Talk, RunPathRow
<1>2. w.up = <<Name(t)>>
  BY AppendFirst, Zenon
<1>3. Starting(t, w) /\ Chosen(w)
  BY <1>1, <1>2 DEF Starting, Chosen, SimOff, SameThread, SameFields, SameSim,
     SameNotes
<1>4. WaitingRow(t, w, d, acc)
  BY <1>3 DEF WaitingRow, SameNotes
<1>5. Output("run_path", v) => Output(q, w)
  BY <1>1 DEF Output, SameThread, SameNotes
<1>6. q = "bind" \/ q = "board"
  OBVIOUS
<1> QED BY <1>4, <1>5, <1>6 DEF Steps, Talk

(* The GUI listens on the port of the simulator.                           *)
LEMMA RowBind ==
  ASSUME NEW t, NEW v, NEW acc, Talk(t, "bind", v, acc)
  PROVE  Steps(t, "bind", "accept", v, v, acc)
<1>1. Talk(t, "accept", v, acc)
  BY DEF Talk
<1>2. Output("bind", v) => Output("accept", v)
  BY DEF Output
<1> QED BY <1>1, <1>2 DEF Steps

(* The simulator that has connected is accepted.                           *)
LEMMA RowAccept ==
  ASSUME NEW t, NEW v, NEW acc, Talk(t, "accept", v, acc),
         v.phase \in {"simulate", "command"}, v.asked = "Or1ksim",
         v.sim \in {"run", "ack", "gone"}
  PROVE  Steps(t, "accept", "simulator", v, v, acc)
<1>1. Chosen(v) /\ (Starting(t, v) \/ OnSim(t, v, acc) \/ OnBoard(t, v))
  BY DEF Talk, WaitingRow
<1>2. ~Starting(t, v) /\ ~OnBoard(t, v)
  BY DEF Starting, OnBoard
<1>3. SimulatorRow(t, v, acc)
  BY <1>1, <1>2 DEF SimulatorRow
<1>4. Output("accept", v) => Output("simulator", v)
  BY DEF Output
<1> QED BY <1>3, <1>4 DEF Steps, Talk

(* A character of the simulator is on its way to the handler.              *)
LEMMA SimulatorOut ==
  ASSUME NEW t, NEW v, NEW acc, Talk(t, "simulator", v, acc), v.out # <<>>
  PROVE  /\ v.phase = "simulate" /\ v.sim = "ack" /\ v.ack = 0
         /\ \E c \in Nat : v.out = <<c>> /\ (c = NUL => "nul" \in acc)
BY DEF Talk, SimulatorRow, OnSim

(* The character on its way is shown.                                      *)
LEMMA ShowOne ==
  ASSUME NEW a \in Seq(Nat), NEW c \in Nat
  PROVE  Append(a, c) \o (<<>> \o <<>>) = a \o (<<>> \o <<c>>)
<1>1. <<>> \o <<>> = <<>> /\ <<>> \o <<c>> = <<c>>
  OBVIOUS
<1>2. Append(a, c) = a \o <<c>> /\ Append(a, c) \in Seq(Nat)
  OBVIOUS
<1>3. Append(a, c) \o <<>> = Append(a, c)
  BY <1>2, ConcatEmptySeq
<1> QED BY <1>1, <1>2, <1>3

(* recvFromOr1ksim shows the character of the simulator, ...               *)
LEMMA RowShow ==
  ASSUME NEW t, NEW v, NEW acc, Talk(t, "simulator", v, acc), Printable(v),
         NEW c \in Nat, v.out = <<c>>,
         NEW w, SameThread(v, w), SameWire(v, w), w.asked = v.asked,
         w.printed = v.printed, w.sim = v.sim,
         w.shown = Append(v.shown, c), w.out = <<>>, w.ack = v.ack
  PROVE  Steps(t, "simulator", "simulator_shown", v, w, acc)
<1>1. v.out # <<>>
  BY ReceiveOne, Zenon
<1>2. v.phase = "simulate" /\ v.sim = "ack" /\ v.ack = 0
  BY <1>1, SimulatorOut, Zenon
<1>3. Chosen(v) /\ OnSim(t, v, acc)
  BY DEF Talk, SimulatorRow
<1>4. SimulatorShownRow(t, w)
  BY <1>2, <1>3 DEF SimulatorShownRow, OnSim, Chosen, Named, Quiet, SameFields,
     SameThread, SameWire
<1>5. ASSUME Output("simulator", v) PROVE Output("simulator_shown", w)
  <2>1. v.line = <<>>
    BY <1>3 DEF OnSim
  <2>2. v.shown \o (<<>> \o <<c>>) = Upto(v.printed)
    BY <1>2, <1>5, <2>1 DEF Output, Unseen
  <2>3. Append(v.shown, c) \o (<<>> \o <<>>) = v.shown \o (<<>> \o <<c>>)
    BY ShowOne, Zenon DEF Printable
  <2>4. Unseen(w) = <<>> \o <<>>
    BY <1>2, <2>1 DEF Unseen, SameThread
  <2> QED BY <1>2, <2>2, <2>3, <2>4 DEF Output, SameThread
<1> QED BY <1>4, <1>5 DEF Steps, Talk

(* ... or not, when the window is closed, and acknowledges it; ...         *)
LEMMA RowHide ==
  ASSUME NEW t, NEW v, NEW acc, Talk(t, "simulator", v, acc), "hidden" \in acc,
         v.out # <<>>,
         NEW w, SameThread(v, w), SameWire(v, w), w.asked = v.asked,
         w.sim = v.sim, w.out = <<>>, w.ack = v.ack + 1
  PROVE  Steps(t, "simulator", "simulator", v, w, acc)
<1>1. v.phase = "simulate" /\ v.sim = "ack" /\ v.ack = 0
  BY SimulatorOut, Zenon
<1>2. Chosen(v) /\ OnSim(t, v, acc)
  BY DEF Talk, SimulatorRow
<1>3. w.ack = 1
  BY <1>1
<1>4. OnSim(t, w, acc)
  BY <1>1, <1>2, <1>3 DEF OnSim, Named, Quiet, SameFields, SameThread, SameWire
<1>5. SimulatorRow(t, w, acc)
  BY <1>1, <1>2, <1>4 DEF SimulatorRow, Chosen, SameThread, SameFields
<1>6. acc # {}
  OBVIOUS
<1> QED BY <1>5, <1>6 DEF Steps, Talk

(* ... what was shown is acknowledged when setData has returned; ...       *)
LEMMA RowAckSim ==
  ASSUME NEW t, NEW v, NEW acc, Talk(t, "simulator_shown", v, acc),
         NEW w, SameThread(v, w), SameWire(v, w), SameNotes(v, w),
         w.sim = v.sim, w.out = v.out, w.ack = v.ack + 1
  PROVE  Steps(t, "simulator_shown", "simulator", v, w, acc)
<1>1. SimulatorShownRow(t, v)
  BY DEF Talk
<1>2. w.ack = 1
  <2>1. v.ack = 0
    BY <1>1 DEF SimulatorShownRow
  <2> QED BY <2>1
<1>3. OnSim(t, w, acc)
  BY <1>1, <1>2 DEF SimulatorShownRow, OnSim, Named, Quiet, SameFields,
     SameThread, SameWire, SameNotes
<1>4. SimulatorRow(t, w, acc)
  BY <1>1, <1>3 DEF SimulatorShownRow, SimulatorRow, Chosen, SameThread,
     SameFields, SameNotes
<1>5. Output("simulator_shown", v) => Output("simulator", w)
  BY <1>1 DEF SimulatorShownRow, Output, Unseen, SameThread, SameWire, SameNotes
<1> QED BY <1>4, <1>5 DEF Steps, Talk

(* ... or ends the loop; or the simulator has closed the connection.       *)
LEMMA RowSimDone ==
  ASSUME NEW t, NEW v, NEW acc, Talk(t, "simulator", v, acc),
         v.out = <<NUL>> \/ (v.out = <<>> /\ v.sim = "gone"),
         NEW w, SameThread(v, w), SameWire(v, w), SameNotes(v, w),
         w.sim = v.sim, w.out = <<>>, w.ack = v.ack
  PROVE  Steps(t, "simulator", "run_done", v, w, acc)
<1>1. Chosen(v) /\ OnSim(t, v, acc)
  BY DEF Talk, SimulatorRow
<1>2. CASE v.out = <<NUL>>
  <2>1. v.out # <<>>
    BY <1>2, ReceiveOne, Zenon
  <2>2. PICK c \in Nat : v.out = <<c>> /\ (c = NUL => "nul" \in acc)
    BY <2>1, SimulatorOut, Zenon
  <2>3. v.phase = "simulate" /\ v.sim = "ack" /\ v.ack = 0
    BY <2>1, SimulatorOut, Zenon
  <2>4. c = NUL
    <3>1. <<c>>[1] = c /\ <<NUL>>[1] = NUL
      OBVIOUS
    <3> QED BY <1>2, <2>2, <3>1, Zenon
  <2>5. RunDoneRow(t, w)
    BY <1>1, <2>3 DEF RunDoneRow, OnSim, Chosen, Named, Quiet, SameFields,
       SameThread, SameWire, SameNotes
  <2> QED BY <2>2, <2>4, <2>5 DEF Steps, Talk
<1>3. CASE v.out = <<>> /\ v.sim = "gone"
  <2>1. v.phase \in {"simulate", "command"}
    BY <1>1, <1>3 DEF OnSim
  <2>2. RunDoneRow(t, w)
    BY <1>1, <1>3, <2>1 DEF RunDoneRow, OnSim, Chosen, Named, Quiet,
       SameFields, SameThread, SameWire, SameNotes
  <2>3. Output("simulator", v) => Output("run_done", w)
    BY <1>3, <2>1 DEF Output, Unseen, SameThread, SameNotes
  <2> QED BY <2>2, <2>3 DEF Steps, Talk
<1> QED BY <1>2, <1>3

(* What comes from the board: a line, or the end.                          *)
LEMMA BoardReplies ==
  ASSUME NEW t, NEW v, NEW acc, Talk(t, "board", v, acc), v.down # <<>>
  PROVE  /\ OnBoard(t, v) /\ Chosen(v) /\ v.up = <<>>
         /\ \/ v.phase = "line" /\ v.down = <<Line(v.line)>>
            \/ v.phase \in {"save", "command"} /\ v.down = <<END>>
<1>1. Chosen(v) /\ (Starting(t, v) \/ OnSim(t, v, acc) \/ OnBoard(t, v))
  BY DEF Talk, WaitingRow
<1>2. ~Starting(t, v) /\ ~OnSim(t, v, acc)
  BY DEF Starting, OnSim, Quiet
<1> QED BY <1>1, <1>2 DEF OnBoard, Quiet

(* The string in a buffer is a piece of it, and all of it if it holds no   *)
(* NUL.                                                                    *)
LEMMA CStringIs ==
  ASSUME NEW text \in Seq(Nat)
  PROVE  /\ CString(text) \in Seq(Nat)
         /\ (\A i \in 1 .. Len(text) : text[i] # NUL) => CString(text) = text
<1> DEFINE S == {i \in 1 .. Len(text) : \A j \in 1 .. i : text[j] # NUL}
           n == Cardinality(S)
<1>1. Len(text) \in Nat
  OBVIOUS
<1>2. /\ IsFiniteSet(1 .. Len(text))
      /\ Cardinality(1 .. Len(text)) = IF 1 > Len(text) THEN 0 ELSE Len(text) - 1 + 1
  BY <1>1, FS_Interval
<1>3. Cardinality(1 .. Len(text)) = Len(text)
  BY <1>1, <1>2
<1>4. S \subseteq 1 .. Len(text)
  OBVIOUS
<1>5. IsFiniteSet(S) /\ n <= Len(text)
  <2> HIDE DEF S
  <2> QED BY <1>2, <1>3, <1>4, FS_Subset
<1>6. n \in Nat
  <2> HIDE DEF S
  <2> QED BY <1>5, FS_CardinalityType
<1>7. CString(text) = SubSeq(text, 1, n)
  BY DEF CString
<1>8. ASSUME \A i \in 1 .. Len(text) : text[i] # NUL PROVE n = Len(text)
  <2>1. S = 1 .. Len(text)
    <3> SUFFICES ASSUME NEW i \in 1 .. Len(text), NEW j \in 1 .. i
                 PROVE  j \in 1 .. Len(text)
      BY <1>8
    <3> QED BY <1>1
  <2> QED BY <1>3, <2>1
<1> HIDE DEF n
<1>9. SubSeq(text, 1, n) \in Seq(Nat)
  BY <1>5, <1>6
<1>10. SubSeq(text, 1, Len(text)) = text
  <2> DEFINE r == SubSeq(text, 1, Len(text))
  <2>1. r \in Seq(Nat) /\ Len(r) = Len(text)
    BY <1>1
  <2>2. \A i \in 1 .. Len(text) : r[i] = text[i]
    BY <1>1
  <2> HIDE DEF r
  <2>3. r = text
    BY <2>1, <2>2, SeqEqual
  <2> QED BY <2>3 DEF r
<1> QED BY <1>7, <1>8, <1>9, <1>10

(* The numbers of printed characters are not NUL.                          *)
LEMMA NoNul ==
  ASSUME NEW a \in Seq(Nat), NEW b \in Seq(Nat), NEW n \in Nat,
         a \o b = Upto(n)
  PROVE  CString(b) = b
<1>1. Len(a) \in Nat /\ Len(b) \in Nat /\ Len(a \o b) = Len(a) + Len(b)
  OBVIOUS
<1>2. Len(Upto(n)) = n
  BY DEF Upto
<1>3. ASSUME NEW i \in 1 .. Len(b) PROVE b[i] # NUL
  <2>1. Len(a) + i \in 1 .. Len(a) + Len(b)
    BY <1>1
  <2>2. (a \o b)[Len(a) + i] = b[i]
    BY <1>1, <2>1
  <2>3. Len(a) + i \in 1 .. n
    BY <1>1, <1>2, <2>1
  <2>4. Upto(n)[Len(a) + i] = Len(a) + i
    BY <2>3 DEF Upto
  <2> QED BY <1>1, <2>2, <2>4 DEF NUL
<1> QED BY <1>3, CStringIs

(* A line of the board is shown, ...                                       *)
LEMMA RowBoardShow ==
  ASSUME NEW t, NEW v, NEW acc, Talk(t, "board", v, acc), Printable(v),
         v.down = <<Line(v.line)>>,
         NEW w, SameThread(v, w), SameSim(v, w), w.asked = v.asked,
         w.printed = v.printed, w.shown = v.shown \o CString(v.line),
         w.up = v.up, w.down = <<>>
  PROVE  Steps(t, "board", "board_shown", v, w, acc)
<1>1. v.down # <<>>
  BY ReceiveOne, Zenon
<1>2. v.down # <<END>>
  BY Segments, Zenon
<1>3. OnBoard(t, v) /\ Chosen(v) /\ v.up = <<>> /\ v.phase = "line"
  BY <1>1, <1>2, BoardReplies, Zenon
<1>4. BoardShownRow(t, w)
  BY <1>3 DEF BoardShownRow, OnBoard, Named, Quiet, SimOff, Chosen, SameFields,
     SameThread, SameSim
<1>5. ASSUME Output("board", v) PROVE Output("board_shown", w)
  <2>1. v.out = <<>>
    BY <1>3 DEF OnBoard, SimOff
  <2>2. v.shown \o (v.line \o <<>>) = Upto(v.printed)
    BY <1>3, <1>5, <2>1 DEF Output, Unseen
  <2>3. v.shown \o v.line = Upto(v.printed)
    <3>1. v.line \o <<>> = v.line
      BY DEF Printable
    <3> QED BY <2>2, <3>1
  <2>4. CString(v.line) = v.line
    BY <2>3, NoNul, Zenon DEF Printable
  <2>5. w.shown = Upto(w.printed)
    BY <2>3, <2>4
  <2>6. w.phase = "line"
    BY <1>3 DEF SameThread
  <2> QED BY <2>5, <2>6 DEF Output
<1> QED BY <1>4, <1>5 DEF Steps, Talk

(* ... or not, when the window is closed, and acknowledged; ...            *)
LEMMA RowBoardHide ==
  ASSUME NEW t, NEW v, NEW acc, Talk(t, "board", v, acc), "hidden" \in acc,
         v.down = <<Line(v.line)>>,
         NEW w, SameThread(v, w), SameSim(v, w), w.asked = v.asked,
         w.up = Append(v.up, ACK), w.down = <<>>
  PROVE  Steps(t, "board", "board", v, w, acc)
<1>1. v.down # <<>>
  BY ReceiveOne, Zenon
<1>2. v.down # <<END>>
  BY Segments, Zenon
<1>3. OnBoard(t, v) /\ Chosen(v) /\ v.up = <<>> /\ v.phase = "line"
  BY <1>1, <1>2, BoardReplies, Zenon
<1>4. w.up = <<ACK>>
  BY <1>3, AppendFirst, Zenon
<1>5. OnBoard(t, w) /\ Chosen(w)
  BY <1>3, <1>4 DEF OnBoard, Named, SimOff, Chosen, SameFields, SameThread,
     SameSim
<1>6. WaitingRow(t, w, "VEX_T2", acc)
  BY <1>5 DEF WaitingRow, OnBoard
<1>7. acc # {}
  OBVIOUS
<1> QED BY <1>6, <1>7 DEF Steps, Talk

(* ... what was shown is acknowledged when setData has returned; ...       *)
LEMMA RowAckBoard ==
  ASSUME NEW t, NEW v, NEW acc, Talk(t, "board_shown", v, acc), Printable(v),
         NEW w, SameThread(v, w), SameSim(v, w), SameNotes(v, w),
         w.up = Append(v.up, ACK), w.down = v.down
  PROVE  Steps(t, "board_shown", "board", v, w, acc)
<1>1. BoardShownRow(t, v)
  BY DEF Talk
<1>2. w.up = <<ACK>>
  BY <1>1, AppendFirst, Zenon DEF BoardShownRow, Quiet
<1>3. OnBoard(t, w) /\ Chosen(w)
  BY <1>1, <1>2 DEF BoardShownRow, OnBoard, Named, Quiet, SimOff, Chosen,
     SameFields, SameThread, SameSim, SameNotes
<1>4. WaitingRow(t, w, "VEX_T2", acc)
  BY <1>3 DEF WaitingRow, OnBoard
<1>5. ASSUME Output("board_shown", v) PROVE Output("board", w)
  <2>1. v.shown = Upto(v.printed) /\ w.phase = "line"
    BY <1>1, <1>5 DEF Output, BoardShownRow, SameThread
  <2>2. w.up # <<>>
    BY <1>2, ReceiveOne, Zenon
  <2>3. Unseen(w) = <<>>
    BY <2>1, <2>2 DEF Unseen
  <2>4. w.shown \o <<>> = v.shown
    <3>1. v.shown \in Seq(Nat)
      BY DEF Printable
    <3>2. w.shown = v.shown
      BY DEF SameNotes
    <3>3. v.shown \o <<>> = v.shown
      BY <3>1
    <3> QED BY <3>2, <3>3
  <2> QED BY <2>1, <2>3, <2>4 DEF Output, SameNotes
<1> QED BY <1>4, <1>5 DEF Steps, Talk

(* ... a line that begins with a NUL ends the loop.                        *)
LEMMA RowBoardNul ==
  ASSUME NEW t, NEW v, NEW acc, Talk(t, "board", v, acc),
         v.down = <<Line(v.line)>>,
         NEW w, SameThread(v, w), SameSim(v, w), SameNotes(v, w),
         w.up = v.up, w.down = <<>>
  PROVE  Steps(t, "board", "run_done", v, w, acc)
<1>1. v.down # <<>>
  BY ReceiveOne, Zenon
<1>2. v.down # <<END>>
  BY Segments, Zenon
<1>3. OnBoard(t, v) /\ Chosen(v) /\ v.up = <<>> /\ v.phase = "line"
  BY <1>1, <1>2, BoardReplies, Zenon
<1>4. RunDoneRow(t, w)
  BY <1>3 DEF RunDoneRow, OnBoard, SimOff, Chosen, Named, Quiet, SameFields,
     SameThread, SameSim, SameNotes
<1>5. Output("board", v) => Output("run_done", w)
  BY <1>3 DEF Output, Unseen, SameThread, SameSim, SameNotes
<1> QED BY <1>4, <1>5 DEF Steps, Talk

(* So does the server's END.                                               *)
LEMMA RowBoardDone ==
  ASSUME NEW t, NEW v, NEW acc, Talk(t, "board", v, acc), v.down = <<END>>,
         NEW w, SameThread(v, w), SameSim(v, w), SameNotes(v, w),
         w.up = v.up, w.down = <<>>
  PROVE  Steps(t, "board", "run_done", v, w, acc)
<1>1. v.down # <<>>
  BY ReceiveOne, Zenon
<1>2. v.down # <<Line(v.line)>>
  BY Segments, Zenon
<1>3. OnBoard(t, v) /\ Chosen(v) /\ v.up = <<>> /\ v.phase \in {"save", "command"}
  BY <1>1, <1>2, BoardReplies, Zenon
<1>4. RunDoneRow(t, w)
  BY <1>3 DEF RunDoneRow, OnBoard, SimOff, Chosen, Named, Quiet, SameFields,
     SameThread, SameSim, SameNotes
<1>5. Output("board", v) => Output("run_done", w)
  BY <1>3 DEF Output, Unseen, SameThread, SameSim, SameNotes
<1> QED BY <1>4, <1>5 DEF Steps, Talk

(* The handler of "Run" returns.                                           *)
LEMMA RowRunReturn ==
  ASSUME NEW t, NEW v, NEW acc, Talk(t, "run_done", v, acc),
         v.phase \in {"command", "GAC", "GHF"}
  PROVE  Steps(t, "run_done", "free", v, v, acc)
<1>1. RunDoneRow(t, v)
  BY DEF Talk
<1>2. FreeRow(v)
  BY <1>1 DEF RunDoneRow, FreeRow, SimOff
<1>3. Output("run_done", v) => Output("free", v)
  BY DEF Output
<1> QED BY <1>2, <1>3 DEF Steps, Talk

-----------------------------------------------------------------------------
(* The frame of a step.                                                    *)

(* g differs from f at h alone.                                            *)
OnlyAt(f, g, h) == DOMAIN g = DOMAIN f /\ \A u \in DOMAIN f \ {h} : g[u] = f[u]

(* The step concerns tab h alone.                                          *)
OnlyThis(h) ==
  /\ OnlyAt(thread, thread', h) /\ OnlyAt(up, up', h) /\ OnlyAt(down, down', h)
  /\ OnlyAt(sim, sim', h) /\ OnlyAt(simOut, simOut', h)
  /\ OnlyAt(simAck, simAck', h) /\ OnlyAt(asked, asked', h)
  /\ OnlyAt(printed, printed', h) /\ OnlyAt(shown, shown', h)
  /\ \A u \in Tabs \ {h} : (u \in runnable') = (u \in runnable)

Typed(t) == DOMAIN thread[t] = DOMAIN Idle /\ thread[t].line \in Seq(Nat)
Recorded ==
  /\ asked \in [Tabs -> Devices \cup {""}]
  /\ printed \in [Tabs -> Nat] /\ shown \in [Tabs -> Seq(Nat)]

(* The fields of the view of a tab.                                        *)
LEMMA ViewIs ==
  ASSUME NEW t
  PROVE  /\ View(t).phase = thread[t].phase /\ View(t).cnt = thread[t].cnt
         /\ View(t).path = thread[t].path
         /\ View(t).filename = thread[t].filename
         /\ View(t).device = thread[t].deviceType
         /\ View(t).line = thread[t].line /\ View(t).up = up[t]
         /\ View(t).down = down[t] /\ View(t).sim = sim[t]
         /\ View(t).out = simOut[t] /\ View(t).ack = simAck[t]
         /\ View(t).asked = asked[t] /\ View(t).runs = (t \in runnable)
         /\ View(t).shown = shown[t] /\ View(t).printed = printed[t]
BY Zenon DEF View

(* The fields of the view of a tab after a step.                           *)
LEMMA ViewNext ==
  ASSUME NEW t
  PROVE  /\ View(t)'.phase = thread'[t].phase /\ View(t)'.cnt = thread'[t].cnt
         /\ View(t)'.path = thread'[t].path
         /\ View(t)'.filename = thread'[t].filename
         /\ View(t)'.device = thread'[t].deviceType
         /\ View(t)'.line = thread'[t].line /\ View(t)'.up = up'[t]
         /\ View(t)'.down = down'[t] /\ View(t)'.sim = sim'[t]
         /\ View(t)'.out = simOut'[t] /\ View(t)'.ack = simAck'[t]
         /\ View(t)'.asked = asked'[t] /\ View(t)'.runs = (t \in runnable')
         /\ View(t)'.shown = shown'[t] /\ View(t)'.printed = printed'[t]
BY Zenon DEF View

(* The invariant after a step of one tab from place p to place q.          *)
LEMMA OneTab ==
  ASSUME SessionGood, NEW h \in Tabs, NEW p \in Places, NEW q \in Places,
         Where(stack, h, p), Where(stack', h, q), stack' \in Seq(Frames),
         StackGood',
         \A u \in Tabs \ {h}, r \in Places :
           Where(stack', u, r) <=> Where(stack, u, r),
         OnlyThis(h), Typed(h)', Recorded', opened' = opened, deviceBox' = deviceBox,
         dev' = dev, accidents \subseteq accidents', ServerGood', ListenGood',
         PeerGood', asked'[h] \in Devices => dev[h] \in Devices,
         Steps(h, p, q, View(h), View(h)', accidents')
  PROVE  SessionGood'
<1>1. SessionTypes'
  <2>1. SessionTypes
    BY DEF SessionGood
  <2>2. /\ opened' \subseteq Tabs /\ deviceBox' \in Devices
        /\ dev' \in [Tabs -> Devices \cup {""}]
        /\ stack' \in Seq([tab : Tabs, at : Positions])
    BY <2>1 DEF SessionTypes, Frames
  <2>3. /\ DOMAIN thread' = Tabs /\ DOMAIN up' = Tabs /\ DOMAIN down' = Tabs
        /\ DOMAIN sim' = Tabs /\ DOMAIN simOut' = Tabs /\ DOMAIN simAck' = Tabs
    BY <2>1 DEF SessionTypes, OnlyThis, OnlyAt
  <2>4. ASSUME NEW u \in Tabs
        PROVE  DOMAIN thread'[u] = DOMAIN Idle /\ thread'[u].line \in Seq(Nat)
    <3>1. CASE u = h
      BY <3>1 DEF Typed
    <3>2. CASE u # h
      BY <2>1, <3>2 DEF SessionTypes, OnlyThis, OnlyAt
    <3> QED BY <3>1, <3>2
  <2> QED BY <2>2, <2>3, <2>4 DEF SessionTypes, Recorded
<1>2. DevicesGood'
  <2>1. DevicesGood /\ asked \in [Tabs -> Devices \cup {""}]
    BY DEF SessionGood, SessionTypes
  <2> QED BY <2>1 DEF DevicesGood, OnlyThis, OnlyAt
<1>3. ASSUME NEW u \in Tabs \ {h} PROVE View(u)' = View(u)
  <2>1. SessionTypes
    BY DEF SessionGood
  <2>2. /\ thread'[u] = thread[u] /\ up'[u] = up[u] /\ down'[u] = down[u]
        /\ sim'[u] = sim[u] /\ simOut'[u] = simOut[u] /\ simAck'[u] = simAck[u]
        /\ asked'[u] = asked[u] /\ printed'[u] = printed[u]
        /\ shown'[u] = shown[u] /\ (u \in runnable') = (u \in runnable)
    BY <2>1 DEF SessionTypes, OnlyThis, OnlyAt
  <2> QED BY <2>2, Zenon DEF View
<1>4. OneEach(stack')
  BY DEF StackGood, OneEach
<1>5. \A r : Where(stack', h, r) => r = q
  BY <1>4, OnePlace
<1>6. TabsGood'
  <2>1. ASSUME NEW u \in Tabs, NEW r \in Places, Where(stack', u, r)
        PROVE  Talk(u, r, View(u)', accidents')
    <3>1. CASE u = h
      BY <1>5, <2>1, <3>1 DEF Steps
    <3>2. CASE u # h
      <4>1. Where(stack, u, r) /\ View(u)' = View(u)
        BY <1>3, <2>1, <3>2
      <4>2. Talk(u, r, View(u), accidents)
        BY <4>1 DEF SessionGood, TabsGood
      <4> QED BY <4>1, <4>2, TalkGrows
    <3> QED BY <3>1, <3>2
  <2> QED BY <2>1 DEF TabsGood
<1>7. OutputGood'
  <2>1. ASSUME accidents' = {}, NEW u \in Tabs, NEW r \in Places,
               Where(stack', u, r)
        PROVE  Output(r, View(u)')
    <3>1. accidents = {}
      BY <2>1
    <3>2. CASE u = h
      <4>1. Output(p, View(h))
        BY <3>1 DEF SessionGood, OutputGood
      <4> QED BY <1>5, <2>1, <3>2, <4>1 DEF Steps
    <3>3. CASE u # h
      <4>1. Where(stack, u, r) /\ View(u)' = View(u)
        BY <1>3, <2>1, <3>3
      <4>2. Output(r, View(u))
        BY <3>1, <4>1 DEF SessionGood, OutputGood
      <4> QED BY <4>1, <4>2
    <3> QED BY <3>2, <3>3
  <2> QED BY <2>1 DEF OutputGood
<1> QED BY <1>1, <1>2, <1>6, <1>7 DEF SessionGood

(* What most steps of server and simulators leave as it is.                *)
LEMMA ServerKept ==
  ASSUME SessionGood, NEW h \in Tabs, OnlyAt(thread, thread', h),
         opened' = opened, backlog' = backlog,
         thread[h].phase \notin {"none", "start"},
         thread'[h].phase \notin {"none", "start"},
         thread'[h].sock = thread[h].sock
  PROVE  ServerGood'
<1>1. ServerGood /\ DOMAIN thread = Tabs
  BY DEF SessionGood, SessionTypes
<1>2. /\ backlog' \in Seq(Tabs)
      /\ \A i, j \in 1 .. Len(backlog') : backlog'[i] = backlog'[j] => i = j
  BY <1>1 DEF ServerGood
<1>3. \A t \in Tabs : Waits(t)' => Waits(t)
  BY DEF Waits
<1>4. \A t \in Tabs \ {h} : thread'[t] = thread[t]
  BY <1>1 DEF OnlyAt
<1>5. h \in opened /\ ~Waits(h) /\ thread[h].sock = h
  BY <1>1 DEF ServerGood
<1>6. ASSUME NEW t \in Tabs
      PROVE  /\ Waits(t)' => t \in opened' /\ thread'[t].phase = "none"
             /\ thread'[t].phase # "none" => t \in opened'
             /\ thread'[t].phase \notin {"none", "start"} => thread'[t].sock = t
  <2>1. CASE t = h
    BY <1>3, <1>5, <2>1
  <2>2. CASE t # h
    BY <1>1, <1>3, <1>4, <2>2 DEF ServerGood
  <2> QED BY <2>1, <2>2
<1> QED BY <1>2, <1>6 DEF ServerGood

(* The simulator of t may be waiting to be accepted.                       *)
Listens(t) ==
  /\ thread[t].phase \in {"simulate", "command"}
  /\ asked[t] = "Or1ksim" /\ sim[t] \in {"run", "ack", "gone"}

(* A step of one tab's thread and simulator keeps ListenGood when the      *)
(* listening simulator of that tab goes on, or its handler is not waiting  *)
(* for one.                                                                *)
LEMMA ListenKept ==
  ASSUME SessionGood, NEW h \in Tabs, OnlyAt(thread, thread', h),
         OnlyAt(sim, sim', h), UNCHANGED <<stack, listenq, asked>>,
         \/ Listens(h) => Listens(h)'
         \/ /\ ~Where(stack, h, "bind") /\ ~Where(stack, h, "accept")
            /\ ~Where(stack, h, "board")
  PROVE  ListenGood'
<1>1. ListenGood /\ DOMAIN thread = Tabs /\ DOMAIN sim = Tabs
  BY DEF SessionGood, SessionTypes
<1>2. CASE listenq = <<>>
  BY <1>2 DEF ListenGood
<1>3. CASE listenq # <<>>
  <2>1. PICK t \in Tabs :
          /\ listenq = <<t>>
          /\ \E p \in {"bind", "accept", "board"} : Where(stack, t, p)
          /\ Listens(t)
    BY <1>1, <1>3 DEF ListenGood, Listens
  <2>2. Listens(t)'
    <3>1. CASE t = h
      BY <2>1, <3>1
    <3>2. CASE t # h
      BY <1>1, <2>1, <3>2 DEF Listens, OnlyAt
    <3> QED BY <3>1, <3>2
  <2> QED BY <2>1, <2>2 DEF ListenGood, Listens
<1> QED BY <1>2, <1>3

(* A step of the thread or of the simulator of h.                          *)
LEMMA ServerStep ==
  ASSUME SessionGood, NEW h \in Tabs, NEW p \in Places, Where(stack, h, p),
         UNCHANGED <<opened, deviceBox, dev, stack, peer, bound>>,
         OnlyThis(h), Typed(h)', Recorded', UNCHANGED asked,
         accidents \subseteq accidents', ServerGood', ListenGood',
         Keeps(h, p, View(h), View(h)', accidents')
  PROVE  SessionGood'
<1>1. /\ stack' \in Seq(Frames) /\ StackGood' /\ PeerGood' /\ DevicesGood
  BY DEF SessionGood, SessionTypes, StackGood, PeerGood, Frames
<1>2. Steps(h, p, p, View(h), View(h)', accidents')
  BY DEF Keeps, Steps
<1>3. asked'[h] \in Devices => dev[h] \in Devices
  BY <1>1 DEF DevicesGood
<1>4. \A u \in Tabs \ {h}, r \in Places : Where(stack', u, r) <=> Where(stack, u, r)
  OBVIOUS
<1>5. Where(stack', h, p)
  OBVIOUS
<1> QED BY <1>1, <1>2, <1>3, <1>4, <1>5, OneTab

(* The last handler goes on, returns, or stays.                            *)
LEMMA StackStep ==
  ASSUME SessionGood, NEW t \in Tabs, NEW p \in Positions, At(t, p),
         NEW q \in Places,
         \/ q \in Positions /\ Goto(q)
         \/ q = "free" /\ Return
         \/ q = p /\ stack' = stack
  PROVE  /\ Where(stack, t, p) /\ Where(stack', t, q)
         /\ stack' \in Seq(Frames) /\ StackGood'
         /\ \A u \in Tabs \ {t}, r \in Places :
              Where(stack', u, r) <=> Where(stack, u, r)
<1>1. /\ stack \in Seq(Frames) /\ OneEach(stack) /\ StackGood
      /\ \A i \in 1 .. Len(stack) : i < Len(stack) => stack[i].at \in EventPoints
  BY DEF SessionGood, SessionTypes, StackGood, Frames, OneEach
<1>2. stack # <<>> /\ stack[Len(stack)] = [tab |-> t, at |-> p]
  BY DEF At, Top, Last
<1>3. Where(stack, t, p) /\ stack[Len(stack)].tab = t
  BY <1>1, <1>2, TopPlace
<1>4. CASE q \in Positions /\ Goto(q)
  <2>1. stack' = MoveTop(stack, q)
    BY <1>4 DEF Goto, MoveTop
  <2>2. /\ stack' \in Seq(Frames) /\ OneEach(stack') /\ Where(stack', t, q)
        /\ Len(stack') = Len(stack)
        /\ \A i \in 1 .. Len(stack) : i < Len(stack) => stack'[i] = stack[i]
        /\ \A u \in Tabs \ {t}, r \in Places :
             Where(stack', u, r) <=> Where(stack, u, r)
    BY <1>1, <1>2, <1>3, <1>4, <2>1, Changed
  <2>3. StackGood'
    BY <1>1, <2>2 DEF StackGood, OneEach
  <2> QED BY <1>3, <2>2, <2>3
<1>5. CASE q = "free" /\ Return
  <2>1. stack' = Front(stack)
    BY <1>5 DEF Return
  <2>2. /\ stack' \in Seq(Frames) /\ OneEach(stack') /\ Where(stack', t, q)
        /\ Len(stack') = Len(stack) - 1
        /\ \A i \in 1 .. Len(stack') : stack'[i] = stack[i]
        /\ \A u \in Tabs \ {t}, r \in Places :
             Where(stack', u, r) <=> Where(stack, u, r)
    BY <1>1, <1>2, <1>3, <1>5, <2>1, Popped
  <2>3. \A i \in 1 .. Len(stack') : i < Len(stack') => stack'[i].at \in EventPoints
    BY <1>1, <2>2
  <2>4. StackGood'
    BY <2>2, <2>3 DEF StackGood, OneEach
  <2> QED BY <1>3, <2>2, <2>4
<1>6. CASE q = p /\ stack' = stack
  <2>1. StackGood'
    BY <1>1, <1>6 DEF StackGood
  <2> QED BY <1>1, <1>3, <1>6, <2>1
<1> QED BY <1>4, <1>5, <1>6

(* Only the simulator of the last handler may be waiting.                  *)
LEMMA ListenTop ==
  ASSUME SessionGood, listenq # <<>>
  PROVE  \E t \in Tabs :
           /\ listenq = <<t>> /\ Listens(t) /\ stack # <<>>
           /\ stack[Len(stack)].tab = t
           /\ stack[Len(stack)].at \in {"bind", "accept", "board"}
<1>1. ListenGood /\ StackGood /\ stack \in Seq(Frames)
  BY DEF SessionGood, SessionTypes, Frames
<1>2. PICK t \in Tabs, p \in {"bind", "accept", "board"} :
        listenq = <<t>> /\ Where(stack, t, p) /\ Listens(t)
  BY <1>1 DEF ListenGood, Listens
<1>3. p \in Positions \ EventPoints
  BY DEF Positions, EventPoints, Delays
<1>4. stack # <<>> /\ stack[Len(stack)].tab = t /\ stack[Len(stack)].at = p
  BY <1>1, <1>2, <1>3, OutsideDelay DEF StackGood
<1> QED BY <1>2, <1>4

(* The simulator that is read from belongs to the last handler.            *)
LEMMA PeerTop ==
  ASSUME SessionGood, NEW u \in Tabs, Where(stack, u, "simulator")
  PROVE  /\ stack # <<>> /\ stack[Len(stack)].tab = u
         /\ stack[Len(stack)].at = "simulator" /\ peer = u
<1>1. StackGood /\ stack \in Seq(Frames) /\ PeerGood
  BY DEF SessionGood, SessionTypes, Frames
<1>2. "simulator" \in Positions \ EventPoints /\ "simulator" \in Reads
  BY DEF Positions, EventPoints, Delays, Reads
<1> QED BY <1>1, <1>2, OutsideDelay DEF StackGood, PeerGood

(* A step of the handler of t.                                             *)
LEMMA HandlerStep ==
  ASSUME SessionGood, NEW t \in Tabs, NEW p \in Positions, At(t, p),
         NEW q \in Places,
         \/ q \in Positions /\ Goto(q)
         \/ q = "free" /\ Return
         \/ q = p /\ stack' = stack,
         UNCHANGED <<opened, deviceBox, dev, backlog, thread>>,
         OnlyThis(t), Recorded', accidents \subseteq accidents',
         ListenGood', PeerGood', asked'[t] \in Devices => dev[t] \in Devices,
         Steps(t, p, q, View(t), View(t)', accidents')
  PROVE  SessionGood'
<1>1. /\ Where(stack, t, p) /\ Where(stack', t, q)
      /\ stack' \in Seq(Frames) /\ StackGood'
      /\ \A u \in Tabs \ {t}, r \in Places :
           Where(stack', u, r) <=> Where(stack, u, r)
  BY StackStep
<1>2. ServerGood' /\ Typed(t)'
  BY DEF SessionGood, SessionTypes, ServerGood, Waits, Typed
<1>3. p \in Places
  BY DEF Places
<1> QED BY <1>1, <1>2, <1>3, OneTab

(* The handler of t does not come to hold the port of the simulator.       *)
LEMMA PeerKept ==
  ASSUME SessionGood, NEW t \in Tabs, NEW p \in Places, NEW q \in Places,
         Where(stack, t, p), Where(stack', t, q), stack' \in Seq(Frames),
         OneEach(stack'),
         \A u \in Tabs \ {t}, r \in Places :
           Where(stack', u, r) <=> Where(stack, u, r),
         q \in Holds => p \in Holds, q \in Reads => p \in Reads,
         UNCHANGED <<peer, bound>>
  PROVE  PeerGood'
<1>1. PeerGood /\ Holds \subseteq Places /\ Reads \subseteq Holds
  BY DEF SessionGood, Holds, Reads, Places, Positions
<1>2. ASSUME NEW u \in Tabs, NEW r \in Holds, Where(stack', u, r)
      PROVE  \E x \in Holds : Where(stack, u, x) /\ (r \in Reads => x \in Reads)
  <2>1. CASE u # t
    BY <1>1, <1>2, <2>1
  <2>2. CASE u = t
    <3>1. r = q
      BY <1>2, <2>2, OnePlace
    <3> QED BY <2>2, <3>1
  <2> QED BY <2>1, <2>2
<1>3. ASSUME NEW u \in Tabs, NEW r \in Reads, Where(stack', u, r) PROVE peer' = u
  <2>1. PICK x \in Holds : Where(stack, u, x) /\ x \in Reads
    BY <1>1, <1>2, <1>3
  <2> QED BY <1>1, <2>1 DEF PeerGood
<1>4. ASSUME NEW u \in Tabs, NEW r \in Holds, Where(stack', u, r) PROVE bound'
  <2>1. PICK x \in Holds : Where(stack, u, x)
    BY <1>2, <1>4
  <2> QED BY <1>1, <2>1 DEF PeerGood
<1>5. ASSUME NEW u \in Tabs, NEW x \in Tabs, NEW r \in Holds, NEW y \in Holds,
             Where(stack', u, r), Where(stack', x, y)
      PROVE  u = x
  <2>1. PICK a \in Holds : Where(stack, u, a)
    BY <1>2, <1>5
  <2>2. PICK b \in Holds : Where(stack, x, b)
    BY <1>2, <1>5
  <2> QED BY <1>1, <2>1, <2>2 DEF PeerGood
<1> QED BY <1>3, <1>4, <1>5 DEF PeerGood

(* A handler that does not wait for a simulator.                           *)
LEMMA OtherHandlers ==
  ASSUME SessionGood, NEW t \in Tabs,
         NEW p \in Positions \ {"bind", "accept", "board"}, At(t, p),
         NEW q \in Places,
         \/ q \in Positions \ Holds /\ Goto(q)
         \/ p \in Reads /\ q \in Reads /\ Goto(q)
         \/ q = "free" /\ Return
         \/ q = p /\ stack' = stack,
         UNCHANGED <<listenq, peer, bound>>
  PROVE  ListenGood' /\ PeerGood'
<1>1. stack # <<>> /\ stack[Len(stack)].tab = t /\ stack[Len(stack)].at = p
  BY DEF At, Top, Last
<1>2. listenq = <<>>
  BY <1>1, ListenTop
<1>3. ListenGood'
  BY <1>2 DEF ListenGood
<1>4. /\ p \in Places /\ Reads \subseteq Positions /\ Reads \subseteq Holds
      /\ "free" \notin Holds
  BY DEF Places, Positions, Reads, Holds
<1>5. /\ Where(stack, t, p) /\ Where(stack', t, q) /\ stack' \in Seq(Frames)
      /\ OneEach(stack')
      /\ \A u \in Tabs \ {t}, r \in Places :
           Where(stack', u, r) <=> Where(stack, u, r)
  BY <1>4, StackStep DEF StackGood, OneEach
<1>6. (q \in Holds => p \in Holds) /\ (q \in Reads => p \in Reads)
  BY <1>4
<1>7. PeerGood'
  BY <1>4, <1>5, <1>6, PeerKept
<1> QED BY <1>3, <1>7

-----------------------------------------------------------------------------
(* What is known before a step, and the updates of the actions.            *)
LEMMA Stand ==
  ASSUME SessionGood, NEW h \in Tabs
  PROVE  /\ \E p \in Places : Where(stack, h, p) /\ Talk(h, p, View(h), accidents)
         /\ Typed(h) /\ Recorded /\ Printable(View(h))
         /\ h \in DOMAIN thread /\ h \in DOMAIN up /\ h \in DOMAIN down
         /\ h \in DOMAIN sim /\ h \in DOMAIN simOut /\ h \in DOMAIN simAck
         /\ h \in DOMAIN asked /\ h \in DOMAIN printed /\ h \in DOMAIN shown
         /\ thread[h].phase \notin {"none", "start"} => thread[h].sock = h
<1>1. SessionTypes /\ TabsGood /\ ServerGood
  BY DEF SessionGood
<1>2. PICK p \in Places : Where(stack, h, p)
  BY <1>1, SomePlace DEF SessionTypes, Frames
<1>3. Talk(h, p, View(h), accidents)
  BY <1>1, <1>2 DEF TabsGood
<1>4. Typed(h) /\ Recorded
  BY <1>1 DEF SessionTypes, Typed, Recorded
<1>5. Printable(View(h))
  <2>1. thread[h].line \in Seq(Nat) /\ printed[h] \in Nat /\ shown[h] \in Seq(Nat)
    BY <1>4 DEF Typed, Recorded
  <2> QED BY <2>1, ViewIs, Zenon DEF Printable
<1> QED BY <1>1, <1>2, <1>3, <1>4, <1>5 DEF SessionTypes, ServerGood

(* An EXCEPT changes one component, to the value given.                    *)
LEMMA Updated ==
  ASSUME NEW f, NEW h \in DOMAIN f, NEW x, NEW g, g = [f EXCEPT ![h] = x]
  PROVE  OnlyAt(f, g, h) /\ g[h] = x
BY DEF OnlyAt

(* What is unchanged changed at most at h.                                 *)
LEMMA Untouched == ASSUME NEW f, NEW h PROVE OnlyAt(f, f, h)
BY DEF OnlyAt

(* The thread of h changes its phase, and nothing else.                    *)
SameBut(h) ==
  /\ thread'[h].cnt = thread[h].cnt /\ thread'[h].path = thread[h].path
  /\ thread'[h].filename = thread[h].filename
  /\ thread'[h].deviceType = thread[h].deviceType
  /\ thread'[h].line = thread[h].line

(* A thread that only goes to another phase.                               *)
LEMMA PhaseSet ==
  ASSUME SessionGood, NEW h \in Tabs, NEW ph,
         thread' = [thread EXCEPT ![h].phase = ph]
  PROVE  /\ OnlyAt(thread, thread', h) /\ Typed(h)' /\ SameBut(h)
         /\ thread'[h].phase = ph /\ thread'[h].sock = thread[h].sock
<1>1. h \in DOMAIN thread /\ Typed(h)
  BY Stand
<1>2. thread' = [thread EXCEPT ![h] = [thread[h] EXCEPT !.phase = ph]]
  OBVIOUS
<1>3. OnlyAt(thread, thread', h) /\ thread'[h] = [thread[h] EXCEPT !.phase = ph]
  BY <1>1, <1>2, Updated
<1>4. DOMAIN thread[h] = {"phase", "sock", "cnt", "path", "filename",
                          "deviceType", "line"}
  BY <1>1 DEF Typed, Idle
<1>5. DOMAIN thread'[h] = DOMAIN thread[h]
  BY <1>3
<1>6. /\ thread'[h].phase = ph /\ thread'[h].sock = thread[h].sock
      /\ SameBut(h)
  BY <1>3, <1>4 DEF SameBut
<1>7. Typed(h)'
  BY <1>1, <1>5, <1>6 DEF Typed, SameBut
<1> QED BY <1>3, <1>6, <1>7

(* The views before and after a step.                                      *)
LEMMA Views ==
  ASSUME NEW h
  PROVE  /\ SameBut(h) =>
              /\ SameFields(View(h), View(h)') /\ View(h)'.cnt = View(h).cnt
              /\ View(h)'.line = View(h).line
         /\ SameBut(h) /\ thread'[h].phase = thread[h].phase
              => SameThread(View(h), View(h)')
         /\ up'[h] = up[h] /\ down'[h] = down[h] => SameWire(View(h), View(h)')
         /\ sim'[h] = sim[h] /\ simOut'[h] = simOut[h] /\ simAck'[h] = simAck[h]
              => SameSim(View(h), View(h)')
         /\ asked'[h] = asked[h] /\ runnable' = runnable /\ shown'[h] = shown[h]
                /\ printed'[h] = printed[h]
              => SameNotes(View(h), View(h)')
<1>1. /\ View(h).phase = thread[h].phase /\ View(h).cnt = thread[h].cnt
      /\ View(h).path = thread[h].path /\ View(h).filename = thread[h].filename
      /\ View(h).device = thread[h].deviceType /\ View(h).line = thread[h].line
      /\ View(h)'.phase = thread'[h].phase /\ View(h)'.cnt = thread'[h].cnt
      /\ View(h)'.path = thread'[h].path
      /\ View(h)'.filename = thread'[h].filename
      /\ View(h)'.device = thread'[h].deviceType
      /\ View(h)'.line = thread'[h].line
  BY ViewIs, ViewNext, Zenon
<1>2. SameBut(h) => /\ SameFields(View(h), View(h)')
                    /\ View(h)'.cnt = View(h).cnt /\ View(h)'.line = View(h).line
  BY <1>1, Zenon DEF SameBut, SameFields
<1>3. SameBut(h) /\ thread'[h].phase = thread[h].phase
        => SameThread(View(h), View(h)')
  BY <1>1, <1>2, Zenon DEF SameThread
<1>4. up'[h] = up[h] /\ down'[h] = down[h] => SameWire(View(h), View(h)')
  BY ViewIs, ViewNext, Zenon DEF SameWire
<1>5. sim'[h] = sim[h] /\ simOut'[h] = simOut[h] /\ simAck'[h] = simAck[h]
        => SameSim(View(h), View(h)')
  BY ViewIs, ViewNext, Zenon DEF SameSim
<1>6. asked'[h] = asked[h] /\ runnable' = runnable /\ shown'[h] = shown[h]
          /\ printed'[h] = printed[h]
        => SameNotes(View(h), View(h)')
  <2>1. ASSUME runnable' = runnable PROVE View(h)'.runs = View(h).runs
    <3>1. View(h).runs = (h \in runnable) /\ View(h)'.runs = (h \in runnable')
      BY ViewIs, ViewNext, Zenon
    <3>2. View(h)'.runs = (h \in runnable)
      BY <2>1, <3>1
    <3> QED BY <3>1, <3>2
  <2>2. /\ View(h).asked = asked[h] /\ View(h).shown = shown[h]
        /\ View(h).printed = printed[h] /\ View(h)'.asked = asked'[h]
        /\ View(h)'.shown = shown'[h] /\ View(h)'.printed = printed'[h]
    BY ViewIs, ViewNext, Zenon
  <2> QED BY <2>1, <2>2, Zenon DEF SameNotes
<1> QED BY <1>2, <1>3, <1>4, <1>5, <1>6, Zenon

-----------------------------------------------------------------------------
(* The steps of the server's threads.                                      *)

LEMMA DoSaveMemory ==
  ASSUME SessionGood, NEW h \in Tabs, SaveMemory(h)
  PROVE  SessionGood'
<1> DEFINE v == View(h)
           w == View(h)'
<1>1. PICK p \in Places : Where(stack, h, p) /\ Talk(h, p, v, accidents)
  BY Stand
<1>2. /\ thread[h].phase = "save" /\ thread' = [thread EXCEPT ![h].phase = "command"]
      /\ UNCHANGED <<opened, deviceBox, dev, stack, runnable, peer, bound, listenq, up,
                     down, backlog, sim, simOut, simAck, asked, printed, shown,
                     accidents>>
  BY DEF SaveMemory, In, gui, conns, sims, history
<1>3. /\ OnlyAt(thread, thread', h) /\ Typed(h)' /\ SameBut(h)
      /\ thread'[h].phase = "command" /\ thread'[h].sock = thread[h].sock
  BY <1>2, PhaseSet
<1>4. OnlyThis(h)
  BY <1>2, <1>3, Untouched DEF OnlyThis
<1>5. Keeps(h, p, v, w, accidents)
  <2>1. /\ SameFields(v, w) /\ w.cnt = v.cnt /\ w.line = v.line
        /\ SameWire(v, w) /\ SameSim(v, w) /\ SameNotes(v, w)
    BY <1>2, <1>3, Views
  <2>2. v.phase = "save" /\ w.phase = "command"
    BY <1>2, <1>3, ViewIs, ViewNext
  <2> HIDE DEF v, w
  <2> QED BY <1>1, <2>1, <2>2, RowBoardEnd DEF SameWire
<1>6. ServerGood'
  BY <1>2, <1>3, ServerKept
<1>7. ListenGood'
  BY <1>2, <1>3, <1>4, ListenKept DEF Listens, OnlyThis
<1>8. Recorded'
  BY <1>2, Stand DEF Recorded
<1> QED BY <1>1, <1>2, <1>3, <1>4, <1>5, <1>6, <1>7, <1>8, ServerStep

(* The thread of a run notices that system() returned: SimulatorEnded.     *)
LEMMA DoSimulatorEnded ==
  ASSUME SessionGood, NEW h \in Tabs, SimulatorEnded(h)
  PROVE  SessionGood'
<1> DEFINE v == View(h)
           w == View(h)'
<1>1. PICK p \in Places : Where(stack, h, p) /\ Talk(h, p, v, accidents)
  BY Stand
<1>2. /\ thread[h].phase = "simulate" /\ sim[h] = "gone"
      /\ thread' = [thread EXCEPT ![h].phase = "command"]
      /\ UNCHANGED <<opened, deviceBox, dev, stack, runnable, peer, bound, listenq, up,
                     down, backlog, sim, simOut, simAck, asked, printed, shown,
                     accidents>>
  BY DEF SimulatorEnded, In, gui, conns, sims, history
<1>3. /\ OnlyAt(thread, thread', h) /\ Typed(h)' /\ SameBut(h)
      /\ thread'[h].phase = "command" /\ thread'[h].sock = thread[h].sock
  BY <1>2, PhaseSet
<1>4. OnlyThis(h)
  BY <1>2, <1>3, Untouched DEF OnlyThis
<1>5. Keeps(h, p, v, w, accidents)
  <2>1. /\ SameFields(v, w) /\ w.cnt = v.cnt /\ w.line = v.line
        /\ SameWire(v, w) /\ SameSim(v, w) /\ SameNotes(v, w)
    BY <1>2, <1>3, Views
  <2>2. v.phase = "simulate" /\ w.phase = "command" /\ v.sim = "gone"
    BY <1>2, <1>3, ViewIs, ViewNext
  <2> HIDE DEF v, w
  <2> QED BY <1>1, <2>1, <2>2, RowSimEnded
<1>6. ServerGood'
  BY <1>2, <1>3, ServerKept
<1>7. ListenGood'
  BY <1>2, <1>3, <1>4, ListenKept DEF Listens, OnlyThis
<1>8. Recorded'
  BY <1>2, Stand DEF Recorded
<1> QED BY <1>1, <1>2, <1>3, <1>4, <1>5, <1>6, <1>7, <1>8, ServerStep

(* A segment to the GUI.                                                   *)
LEMMA DoBoardEnd ==
  ASSUME SessionGood, NEW h \in Tabs, BoardEnd(h)
  PROVE  SessionGood'
<1> DEFINE v == View(h)
           w == View(h)'
<1>1. PICK p \in Places : Where(stack, h, p) /\ Talk(h, p, v, accidents)
  BY Stand
<1>2. /\ thread[h].phase = "board"
      /\ thread' = [thread EXCEPT ![h].phase = "save"]
      /\ down' = [down EXCEPT ![h] = Append(down[h], END)]
      /\ UNCHANGED <<opened, deviceBox, dev, stack, runnable, peer, bound, listenq, up,
                     backlog, sim, simOut, simAck, asked, printed, shown,
                     accidents>>
  <2>1. thread[h].phase = "board"
    BY DEF BoardEnd, In
  <2>2. thread[h].sock = h
    BY <2>1, Stand
  <2> QED BY <2>1, <2>2 DEF BoardEnd, gui, sims, history
<1>3. /\ OnlyAt(thread, thread', h) /\ Typed(h)' /\ SameBut(h)
      /\ thread'[h].phase = "save" /\ thread'[h].sock = thread[h].sock
  BY <1>2, PhaseSet
<1>4. OnlyAt(down, down', h) /\ down'[h] = Append(down[h], END)
  BY <1>2, Stand, Updated
<1>5. OnlyThis(h)
  BY <1>2, <1>3, <1>4, Untouched DEF OnlyThis
<1>6. Keeps(h, p, v, w, accidents)
  <2>1. /\ SameFields(v, w) /\ w.cnt = v.cnt /\ w.line = v.line
        /\ SameSim(v, w) /\ SameNotes(v, w)
    BY <1>2, <1>3, Views
  <2>2. /\ v.phase = "board" /\ w.phase = "save" /\ w.up = v.up
        /\ w.down = Append(v.down, END)
    <3>1. v.down = down[h] /\ w.down = down'[h] /\ v.up = up[h] /\ w.up = up'[h]
      BY ViewIs, ViewNext, Zenon
    <3>2. v.phase = thread[h].phase /\ w.phase = thread'[h].phase
      BY ViewIs, ViewNext, Zenon
    <3> QED BY <1>2, <1>3, <1>4, <3>1, <3>2
  <2> HIDE DEF v, w
  <2> QED BY <1>1, <2>1, <2>2, RowBoardEnd
<1>7. ServerGood'
  BY <1>2, <1>3, ServerKept
<1>8. ListenGood'
  BY <1>2, <1>3, <1>5, ListenKept DEF Listens, OnlyThis
<1>9. Recorded'
  BY <1>2, Stand DEF Recorded
<1> QED BY <1>1, <1>2, <1>3, <1>5, <1>6, <1>7, <1>8, <1>9, ServerStep

(* The server generates the files of a compilation: Generate.              *)
LEMMA DoGenerate ==
  ASSUME SessionGood, NEW h \in Tabs, Generate(h)
  PROVE  SessionGood'
<1> DEFINE v == View(h)
           w == View(h)'
<1>1. PICK p \in Places : Where(stack, h, p) /\ Talk(h, p, v, accidents)
  BY Stand
<1>2. /\ thread[h].phase = "generate"
      /\ thread' = [thread EXCEPT ![h].phase = "command"]
      /\ down' = [down EXCEPT ![h] = Append(down[h], ACK)]
      /\ UNCHANGED <<opened, deviceBox, dev, stack, runnable, peer, bound, listenq, up,
                     backlog, sim, simOut, simAck, asked, printed, shown,
                     accidents>>
  <2>1. thread[h].phase = "generate"
    BY DEF Generate, In
  <2>2. thread[h].sock = h
    BY <2>1, Stand
  <2> QED BY <2>1, <2>2 DEF Generate, gui, sims, history
<1>3. /\ OnlyAt(thread, thread', h) /\ Typed(h)' /\ SameBut(h)
      /\ thread'[h].phase = "command" /\ thread'[h].sock = thread[h].sock
  BY <1>2, PhaseSet
<1>4. OnlyAt(down, down', h) /\ down'[h] = Append(down[h], ACK)
  BY <1>2, Stand, Updated
<1>5. OnlyThis(h)
  BY <1>2, <1>3, <1>4, Untouched DEF OnlyThis
<1>6. Keeps(h, p, v, w, accidents)
  <2>1. /\ SameFields(v, w) /\ w.cnt = v.cnt /\ w.line = v.line
        /\ SameSim(v, w) /\ SameNotes(v, w)
    BY <1>2, <1>3, Views
  <2>2. /\ v.phase = "generate" /\ w.phase = "command" /\ w.up = v.up
        /\ w.down = Append(v.down, ACK)
    <3>1. v.down = down[h] /\ w.down = down'[h] /\ v.up = up[h] /\ w.up = up'[h]
      BY ViewIs, ViewNext, Zenon
    <3>2. v.phase = thread[h].phase /\ w.phase = thread'[h].phase
      BY ViewIs, ViewNext, Zenon
    <3> QED BY <1>2, <1>3, <1>4, <3>1, <3>2
  <2> HIDE DEF v, w
  <2> QED BY <1>1, <2>1, <2>2, RowGenerate
<1>7. ServerGood'
  BY <1>2, <1>3, ServerKept
<1>8. ListenGood'
  BY <1>2, <1>3, <1>5, ListenKept DEF Listens, OnlyThis
<1>9. Recorded'
  BY <1>2, Stand DEF Recorded
<1> QED BY <1>1, <1>2, <1>3, <1>5, <1>6, <1>7, <1>8, <1>9, ServerStep

(* A segment from the GUI.                                                 *)
LEMMA Something ==
  ASSUME NEW q, NEW k \in 1 .. Len(q)
  PROVE  q # <<>>
OBVIOUS

(* A recv of one segment takes it all and leaves nothing.                  *)
LEMMA Taken ==
  ASSUME NEW q, NEW x, q = <<x>>, NEW k \in 1 .. Len(q)
  PROVE  Received(q, k) = <<x>> /\ Rest(q, k) = <<>> /\ Received(q, k)[1] = x
<1>1. 1 .. Len(q) = {1} /\ Received(q, 1) = <<x>> /\ Rest(q, 1) = <<>>
  BY ReceiveOne
<1>2. k = 1
  BY <1>1
<1>3. <<x>>[1] = x
  OBVIOUS
<1> QED BY <1>1, <1>2, <1>3

(* A handler that stands elsewhere is not waiting for a simulator or a     *)
(* board.                                                                  *)
LEMMA NotWaiting ==
  ASSUME SessionGood, NEW h, NEW p, Where(stack, h, p),
         p \notin {"bind", "accept", "board"}
  PROVE  /\ ~Where(stack, h, "bind") /\ ~Where(stack, h, "accept")
         /\ ~Where(stack, h, "board")
<1>1. stack \in Seq(Frames) /\ OneEach(stack)
  BY DEF SessionGood, SessionTypes, StackGood, Frames, OneEach
<1> QED BY <1>1, OnePlace

(* The server reads a command: RecvCommand.                                *)
LEMMA DoRecvCommand ==
  ASSUME SessionGood, NEW h \in Tabs, RecvCommand(h)
  PROVE  SessionGood'
<1> DEFINE v == View(h)
           w == View(h)'
<1>1. PICK p \in Places : Where(stack, h, p) /\ Talk(h, p, v, accidents)
  BY Stand
<1>2. thread[h].phase = "command" /\ thread[h].sock = h
  BY Stand DEF RecvCommand, In
<1>3. PICK k \in 1 .. Len(up[h]) :
        /\ up' = [up EXCEPT ![h] = Rest(up[h], k)]
        /\ IF Received(up[h], k) \in {<<GAC>>, <<GHF>>}
           THEN /\ thread' = [thread EXCEPT ![h].phase = Received(up[h], k)[1][1]]
                /\ down' = [down EXCEPT ![h] = Append(down[h], ACK)]
           ELSE UNCHANGED <<thread, down>>
  BY <1>2 DEF RecvCommand
<1>4. UNCHANGED <<opened, deviceBox, dev, stack, runnable, peer, bound, listenq,
                  backlog, sim, simOut, simAck, asked, printed, shown, accidents>>
  BY DEF RecvCommand, gui, sims, history
<1>5. \/ p = "compile_command" /\ v.up = <<GAC>> /\ v.down = <<>>
      \/ p = "run_command" /\ v.up = <<GHF>> /\ v.down = <<>>
  <2>1. v.phase = "command" /\ v.up # <<>>
    BY <1>2, <1>3, Something, ViewIs
  <2> HIDE DEF v
  <2> QED BY <1>1, <2>1, RowsCommand
<1>6. PICK ph : /\ thread' = [thread EXCEPT ![h].phase = ph] /\ ph \in {"GAC", "GHF"}
                /\ p = "compile_command" => ph = "GAC"
                /\ p = "run_command" => ph = "GHF"
                /\ up'[h] = <<>> /\ OnlyAt(up, up', h)
                /\ down'[h] = <<ACK>> /\ OnlyAt(down, down', h)
  <2>1. PICK x \in {GAC, GHF} :
          /\ up[h] = <<x>> /\ down[h] = <<>>
          /\ p = "compile_command" => x = GAC
          /\ p = "run_command" => x = GHF
    BY <1>5, ViewIs
  <2>2. /\ Received(up[h], k) = <<x>> /\ Rest(up[h], k) = <<>>
        /\ Received(up[h], k)[1] = x
    BY <2>1, Taken
  <2>3. /\ thread' = [thread EXCEPT ![h].phase = x[1]]
        /\ down' = [down EXCEPT ![h] = Append(down[h], ACK)]
        /\ up' = [up EXCEPT ![h] = <<>>]
    BY <1>3, <2>1, <2>2
  <2>4. Append(down[h], ACK) = <<ACK>>
    BY <2>1, AppendFirst, Zenon
  <2>5. OnlyAt(down, down', h) /\ down'[h] = <<ACK>>
    BY <2>3, <2>4, Stand, Updated
  <2>6. OnlyAt(up, up', h) /\ up'[h] = <<>>
    BY <2>3, Stand, Updated
  <2>7. x[1] \in {"GAC", "GHF"} /\ (x = GAC => x[1] = "GAC") /\ (x = GHF => x[1] = "GHF")
    BY Segments
  <2> QED BY <2>1, <2>3, <2>5, <2>6, <2>7
<1>7. /\ OnlyAt(thread, thread', h) /\ Typed(h)' /\ SameBut(h)
      /\ thread'[h].phase = ph /\ thread'[h].sock = thread[h].sock
  BY <1>6, PhaseSet
<1>8. OnlyThis(h)
  BY <1>4, <1>6, <1>7, Untouched DEF OnlyThis
<1>9. Keeps(h, p, v, w, accidents)
  <2>1. /\ SameFields(v, w) /\ w.cnt = v.cnt /\ w.line = v.line
        /\ SameSim(v, w) /\ SameNotes(v, w)
    BY <1>4, <1>7, Views
  <2>2. /\ v.phase = "command" /\ w.phase = ph /\ w.up = <<>> /\ w.down = <<ACK>>
    BY <1>2, <1>6, <1>7, ViewIs, ViewNext
  <2>3. \/ v.up = <<GAC>> /\ p = "compile_command" /\ w.phase = "GAC"
        \/ v.up = <<GHF>> /\ p = "run_command" /\ w.phase = "GHF"
    BY <1>5, <1>6, <2>2
  <2> HIDE DEF v, w
  <2> QED BY <1>1, <2>1, <2>2, <2>3, RowCommand
<1>10. ServerGood'
  BY <1>2, <1>4, <1>6, <1>7, ServerKept
<1>11. ListenGood'
  <2>1. p \notin {"bind", "accept", "board"}
    BY <1>5
  <2>2. /\ ~Where(stack, h, "bind") /\ ~Where(stack, h, "accept")
        /\ ~Where(stack, h, "board")
    BY <1>1, <2>1, NotWaiting
  <2> QED BY <1>4, <1>7, <1>8, <2>2, ListenKept DEF OnlyThis
<1>12. Recorded'
  BY <1>4, Stand DEF Recorded
<1> QED BY <1>1, <1>4, <1>7, <1>8, <1>9, <1>10, <1>11, <1>12, ServerStep

(* An accident that may have happened.                                     *)
LEMMA Mishap ==
  ASSUME NEW a, NEW b \in BOOLEAN, Accident(a, b)
  PROVE  /\ accidents \subseteq accidents'
         /\ b => a \in accidents'
         /\ ~b => accidents' = accidents
BY DEF Accident

(* The entries of a sequence without its first.                            *)
LEMMA TailEntries ==
  ASSUME NEW S, NEW s \in Seq(S), s # <<>>,
         \A i, j \in 1 .. Len(s) : s[i] = s[j] => i = j
  PROVE  /\ Head(s) \in S /\ Head(s) = s[1] /\ 1 \in 1 .. Len(s)
         /\ Tail(s) \in Seq(S) /\ Len(Tail(s)) = Len(s) - 1
         /\ \A i \in 1 .. Len(Tail(s)) :
              i + 1 \in 1 .. Len(s) /\ Tail(s)[i] = s[i + 1] /\ Tail(s)[i] # Head(s)
         /\ \A i, j \in 1 .. Len(Tail(s)) : Tail(s)[i] = Tail(s)[j] => i = j
<1>1. Head(s) \in S /\ Head(s) = s[1] /\ 1 \in 1 .. Len(s) /\ Len(s) \in Nat
  OBVIOUS
<1>2. Tail(s) \in Seq(S) /\ Len(Tail(s)) = Len(s) - 1
  OBVIOUS
<1>3. \A i \in 1 .. Len(s) - 1 : Tail(s)[i] = s[i + 1] /\ i + 1 \in 1 .. Len(s)
  OBVIOUS
<1> DEFINE r == Tail(s)
<1> HIDE DEF r
<1>4. \A i \in 1 .. Len(r) : i + 1 \in 1 .. Len(s) /\ r[i] = s[i + 1]
  BY <1>1, <1>2, <1>3 DEF r
<1>5. \A i \in 1 .. Len(r) : i \in Nat /\ i + 1 # 1
  BY <1>1, <1>2 DEF r
<1>6. \A i \in 1 .. Len(r) : r[i] # s[1]
  BY <1>1, <1>4, <1>5
<1>7. \A i, j \in 1 .. Len(r) : r[i] = r[j] => i = j
  <2> SUFFICES ASSUME NEW i \in 1 .. Len(r), NEW j \in 1 .. Len(r), r[i] = r[j]
               PROVE  i = j
    OBVIOUS
  <2>1. i + 1 = j + 1
    BY <1>4
  <2> QED BY <1>5, <2>1
<1> QED BY <1>1, <1>2, <1>4, <1>6, <1>7 DEF r

(* The server accepts a connection: Accept.                                *)
LEMMA DoAccept ==
  ASSUME SessionGood, Accept
  PROVE  SessionGood'
<1>1. /\ ServerGood /\ SessionTypes
  BY DEF SessionGood
<1>2. /\ backlog # <<>> /\ backlog' = Tail(backlog)
      /\ thread' = [thread EXCEPT ![Head(backlog)].phase = "start"]
      /\ UNCHANGED <<opened, deviceBox, dev, stack, runnable, peer, bound, listenq, up,
                     down, sim, simOut, simAck, asked, printed, shown,
                     accidents>>
  BY DEF Accept, gui, conns, sims, history
<1>3. PICK h \in Tabs :
        /\ h = Head(backlog) /\ h = backlog[1] /\ 1 \in 1 .. Len(backlog)
        /\ backlog' \in Seq(Tabs)
        /\ \A i \in 1 .. Len(backlog') :
             i + 1 \in 1 .. Len(backlog) /\ backlog'[i] = backlog[i + 1]
               /\ backlog'[i] # h
        /\ \A i, j \in 1 .. Len(backlog') : backlog'[i] = backlog'[j] => i = j
  BY <1>1, <1>2, TailEntries DEF ServerGood
<1> DEFINE v == View(h)
           w == View(h)'
<1>4. Waits(h) /\ h \in opened /\ thread[h].phase = "none"
  BY <1>1, <1>3 DEF Waits, ServerGood
<1>5. PICK p \in Places : Where(stack, h, p) /\ Talk(h, p, v, accidents)
  BY <1>3, Stand
<1>6. /\ OnlyAt(thread, thread', h) /\ Typed(h)' /\ SameBut(h)
      /\ thread'[h].phase = "start"
  <2>1. thread' = [thread EXCEPT ![h].phase = "start"]
    BY <1>2, <1>3
  <2> QED BY <2>1, PhaseSet
<1>7. OnlyThis(h)
  BY <1>2, <1>6, Untouched DEF OnlyThis
<1>8. Keeps(h, p, v, w, accidents)
  <2>1. /\ SameFields(v, w) /\ w.cnt = v.cnt /\ w.line = v.line
        /\ SameWire(v, w) /\ SameSim(v, w) /\ SameNotes(v, w)
    BY <1>2, <1>6, Views
  <2>2. v.phase = "none" /\ w.phase = "start"
    BY <1>4, <1>6, ViewIs, ViewNext
  <2> HIDE DEF v, w
  <2> QED BY <1>5, <2>1, <2>2, RowStart
<1>9. ServerGood'
  <2>1. \A t \in Tabs : Waits(t)' => Waits(t) /\ t # h
    BY <1>3 DEF Waits
  <2>2. \A t \in Tabs \ {h} : thread'[t] = thread[t]
    BY <1>1, <1>6 DEF OnlyAt, SessionTypes
  <2>3. ASSUME NEW t \in Tabs
        PROVE  /\ Waits(t)' => t \in opened' /\ thread'[t].phase = "none"
               /\ thread'[t].phase # "none" => t \in opened'
               /\ thread'[t].phase \notin {"none", "start"} => thread'[t].sock = t
    <3>1. CASE t = h
      BY <1>2, <1>4, <1>6, <2>1, <3>1
    <3>2. CASE t # h
      BY <1>1, <1>2, <2>1, <2>2, <3>2 DEF ServerGood
    <3> QED BY <3>1, <3>2
  <2> QED BY <1>3, <2>3 DEF ServerGood
<1>10. ListenGood'
  <2>1. ~Listens(h)
    BY <1>4 DEF Listens
  <2> QED BY <1>2, <1>3, <1>6, <1>7, <2>1, ListenKept DEF OnlyThis
<1>11. Recorded'
  BY <1>2, <1>3, Stand DEF Recorded
<1> QED BY <1>2, <1>3, <1>5, <1>6, <1>7, <1>8, <1>9, <1>10, <1>11, ServerStep

(* The fields of the record of a thread.                                   *)
ThreadFields == {"phase", "sock", "cnt", "path", "filename", "deviceType", "line"}

(* The server starts the thread of a connection: StartHandler.             *)
LEMMA DoStartHandler ==
  ASSUME SessionGood, OnTrack', NEW h \in Tabs, StartHandler(h)
  PROVE  SessionGood'
<1> DEFINE v == View(h)
           w == View(h)'
<1>1. PICK p \in Places : Where(stack, h, p) /\ Talk(h, p, v, accidents)
  BY Stand
<1>2. /\ thread[h].phase = "start"
      /\ thread' = [thread EXCEPT ![h].phase = "command", ![h].sock = client_sock]
      /\ Accident("stolen", client_sock # h)
      /\ UNCHANGED <<opened, deviceBox, dev, stack, runnable, peer, bound, listenq, up,
                     down, backlog, sim, simOut, simAck, asked, printed, shown>>
  BY DEF StartHandler, In, gui, conns, sims, history
<1>3. client_sock = h /\ accidents' = accidents
  <2>1. "stolen" \notin accidents'
    BY DEF OnTrack
  <2>2. (client_sock # h) \in BOOLEAN
    OBVIOUS
  <2> QED BY <1>2, <2>1, <2>2, Mishap
<1>4. /\ OnlyAt(thread, thread', h) /\ Typed(h)' /\ SameBut(h)
      /\ thread'[h].phase = "command" /\ thread'[h].sock = h
  <2>1. h \in DOMAIN thread /\ Typed(h)
    BY Stand
  <2>2. DOMAIN thread[h] = ThreadFields
    BY <2>1 DEF Typed, Idle, ThreadFields
  <2> DEFINE r == [thread[h] EXCEPT !.phase = "command", !.sock = h]
  <2>3. thread' = [thread EXCEPT ![h] = r]
    BY <1>2, <1>3, <2>1
  <2>4. OnlyAt(thread, thread', h) /\ thread'[h] = r
    BY <2>1, <2>3, Updated
  <2>5. /\ DOMAIN r = DOMAIN thread[h] /\ r.phase = "command" /\ r.sock = h
        /\ r.cnt = thread[h].cnt /\ r.path = thread[h].path
        /\ r.filename = thread[h].filename /\ r.line = thread[h].line
        /\ r.deviceType = thread[h].deviceType
    BY <2>2 DEF ThreadFields
  <2> HIDE DEF r
  <2> QED BY <2>1, <2>4, <2>5 DEF Typed, SameBut
<1>5. OnlyThis(h)
  BY <1>2, <1>4, Untouched DEF OnlyThis
<1>6. Keeps(h, p, v, w, accidents)
  <2>1. /\ SameFields(v, w) /\ w.cnt = v.cnt /\ w.line = v.line
        /\ SameWire(v, w) /\ SameSim(v, w) /\ SameNotes(v, w)
    BY <1>2, <1>4, Views
  <2>2. v.phase = "start" /\ w.phase = "command"
    BY <1>2, <1>4, ViewIs, ViewNext
  <2> HIDE DEF v, w
  <2> QED BY <1>1, <2>1, <2>2, RowStart
<1>7. ServerGood'
  <2>1. ServerGood /\ DOMAIN thread = Tabs
    BY DEF SessionGood, SessionTypes
  <2>2. \A t \in Tabs \ {h} : thread'[t] = thread[t]
    BY <1>4, <2>1 DEF OnlyAt
  <2>3. \A t \in Tabs : Waits(t)' => Waits(t) /\ t # h
    BY <1>2, <2>1 DEF Waits, ServerGood
  <2>4. ASSUME NEW t \in Tabs
        PROVE  /\ Waits(t)' => t \in opened' /\ thread'[t].phase = "none"
               /\ thread'[t].phase # "none" => t \in opened'
               /\ thread'[t].phase \notin {"none", "start"} => thread'[t].sock = t
    <3>1. CASE t = h
      BY <1>2, <1>4, <2>1, <2>3, <3>1 DEF ServerGood
    <3>2. CASE t # h
      BY <1>2, <2>1, <2>2, <2>3, <3>2 DEF ServerGood
    <3> QED BY <3>1, <3>2
  <2>5. /\ backlog' \in Seq(Tabs)
        /\ \A i, j \in 1 .. Len(backlog') : backlog'[i] = backlog'[j] => i = j
    BY <1>2, <2>1 DEF ServerGood
  <2> QED BY <2>4, <2>5 DEF ServerGood
<1>8. ListenGood'
  <2>1. ~Listens(h)
    BY <1>2 DEF Listens
  <2> QED BY <1>2, <1>4, <1>5, <2>1, ListenKept DEF OnlyThis
<1>9. Recorded'
  BY <1>2, Stand DEF Recorded
<1> QED BY <1>1, <1>2, <1>3, <1>4, <1>5, <1>6, <1>7, <1>8, <1>9, ServerStep

(* A thread stores a field, a line, or what it is doing.                   *)
LEMMA RecordOf ==
  ASSUME SessionGood, NEW h \in Tabs
  PROVE  DOMAIN thread[h] = ThreadFields
BY Stand DEF Typed, Idle, ThreadFields

(* What StoreGacField stores for each value of cnt.                        *)
LEMMA StoreIs ==
  ASSUME NEW th, NEW f
  PROVE  /\ th.cnt = 0 => StoreGacField(th, f) = [th EXCEPT !.path = f, !.cnt = 1]
         /\ th.cnt = 1 =>
              StoreGacField(th, f) = [th EXCEPT !.filename = f, !.cnt = 2]
         /\ th.cnt = 2 =>
              StoreGacField(th, f) =
                [th EXCEPT !.deviceType = f, !.cnt = 0, !.phase = "generate"]
<1>1. CASE th.cnt = 0
  BY <1>1 DEF StoreGacField
<1>2. CASE th.cnt = 1
  BY <1>2 DEF StoreGacField
<1>3. CASE th.cnt = 2
  BY <1>3 DEF StoreGacField
<1> QED BY <1>1, <1>2, <1>3

(* The record of a thread after it has stored a field of GAC.              *)
GacStored(th, f, r) ==
  /\ DOMAIN r = DOMAIN th /\ r.sock = th.sock /\ r.line = th.line
  /\ \/ /\ th.cnt = 0 /\ r.cnt = 1 /\ r.phase = th.phase /\ r.path = f
        /\ r.filename = th.filename /\ r.deviceType = th.deviceType
     \/ /\ th.cnt = 1 /\ r.cnt = 2 /\ r.phase = th.phase /\ r.path = th.path
        /\ r.filename = f /\ r.deviceType = th.deviceType
     \/ /\ th.cnt = 2 /\ r.cnt = 0 /\ r.phase = "generate" /\ r.path = th.path
        /\ r.filename = th.filename /\ r.deviceType = f

(* StoreGacField stores the field that is expected next.                   *)
LEMMA StoreDoes ==
  ASSUME NEW th, DOMAIN th = ThreadFields, th.cnt \in {0, 1, 2}, NEW f
  PROVE  GacStored(th, f, StoreGacField(th, f))
<1>1. CASE th.cnt = 0
  <2> DEFINE r == [th EXCEPT !.path = f, !.cnt = 1]
  <2>1. /\ DOMAIN r = DOMAIN th /\ r.sock = th.sock /\ r.line = th.line
        /\ r.cnt = 1 /\ r.phase = th.phase /\ r.path = f
        /\ r.filename = th.filename /\ r.deviceType = th.deviceType
    BY DEF ThreadFields
  <2>2. StoreGacField(th, f) = r
    BY <1>1, StoreIs
  <2> HIDE DEF r
  <2> QED BY <1>1, <2>1, <2>2 DEF GacStored
<1>2. CASE th.cnt = 1
  <2> DEFINE r == [th EXCEPT !.filename = f, !.cnt = 2]
  <2>1. /\ DOMAIN r = DOMAIN th /\ r.sock = th.sock /\ r.line = th.line
        /\ r.cnt = 2 /\ r.phase = th.phase /\ r.path = th.path
        /\ r.filename = f /\ r.deviceType = th.deviceType
    BY DEF ThreadFields
  <2>2. StoreGacField(th, f) = r
    BY <1>2, StoreIs
  <2> HIDE DEF r
  <2> QED BY <1>2, <2>1, <2>2 DEF GacStored
<1>3. CASE th.cnt = 2
  <2> DEFINE r == [th EXCEPT !.deviceType = f, !.cnt = 0, !.phase = "generate"]
  <2>1. /\ DOMAIN r = DOMAIN th /\ r.sock = th.sock /\ r.line = th.line
        /\ r.cnt = 0 /\ r.phase = "generate" /\ r.path = th.path
        /\ r.filename = th.filename /\ r.deviceType = f
    BY DEF ThreadFields
  <2>2. StoreGacField(th, f) = r
    BY <1>3, StoreIs
  <2> HIDE DEF r
  <2> QED BY <1>3, <2>1, <2>2 DEF GacStored
<1> QED BY <1>1, <1>2, <1>3

(* The server reads a field of a compilation: RecvGacField.                *)
LEMMA DoRecvGacField ==
  ASSUME SessionGood, NEW h \in Tabs, RecvGacField(h)
  PROVE  SessionGood'
<1> DEFINE v == View(h)
           w == View(h)'
<1>1. PICK p \in Places : Where(stack, h, p) /\ Talk(h, p, v, accidents)
  BY Stand
<1>2. thread[h].phase = "GAC" /\ thread[h].sock = h
  BY Stand DEF RecvGacField, In
<1>3. PICK k \in 1 .. Len(up[h]) :
        /\ up' = [up EXCEPT ![h] = Rest(up[h], k)]
        /\ thread' = [thread EXCEPT ![h] =
                        StoreGacField(thread[h], Received(up[h], k))]
  BY <1>2 DEF RecvGacField
<1>4. UNCHANGED <<opened, deviceBox, dev, stack, runnable, peer, bound, listenq, down,
                  backlog, sim, simOut, simAck, asked, printed, shown, accidents>>
  BY DEF RecvGacField, gui, sims, history
<1>5. \/ p = "compile_path" /\ v.cnt = 0 /\ v.up = <<Path(h)>>
      \/ p = "compile_name" /\ v.cnt = 1 /\ v.up = <<Name(h)>>
      \/ /\ p = "compile_answer" /\ v.cnt = 2
         /\ v.asked \in Devices /\ v.up = <<Device(v.asked)>>
  <2>1. v.phase = "GAC" /\ v.up # <<>>
    BY <1>2, <1>3, Something, ViewIs
  <2> HIDE DEF v
  <2> QED BY <1>1, <2>1, RowsGac
<1>6. PICK x : up[h] = <<x>>
  BY <1>5, ViewIs
<1>7. Received(up[h], k) = up[h] /\ Rest(up[h], k) = <<>>
  BY <1>6, Taken
<1>8. OnlyAt(up, up', h) /\ up'[h] = <<>>
  BY <1>3, <1>7, Stand, Updated
<1>9. OnlyAt(thread, thread', h) /\ GacStored(thread[h], up[h], thread'[h])
  <2>1. DOMAIN thread[h] = ThreadFields /\ h \in DOMAIN thread
    BY RecordOf, Stand
  <2>2. thread[h].cnt \in {0, 1, 2}
    BY <1>5, ViewIs
  <2>3. GacStored(thread[h], up[h], StoreGacField(thread[h], up[h]))
    BY <2>1, <2>2, StoreDoes
  <2> QED BY <1>3, <1>7, <2>1, <2>3, Updated
<1>10. Typed(h)' /\ thread'[h].sock = h /\ thread'[h].phase \in {"GAC", "generate"}
  BY <1>2, <1>9, Stand DEF Typed, GacStored
<1>11. OnlyThis(h)
  BY <1>4, <1>8, <1>9, Untouched DEF OnlyThis
<1>12. Keeps(h, p, v, w, accidents)
  <2>1. SameSim(v, w) /\ SameNotes(v, w)
    BY <1>4, Views
  <2>2. /\ v.phase = "GAC" /\ w.up = <<>> /\ w.down = v.down /\ w.line = v.line
    BY <1>2, <1>4, <1>8, <1>9, ViewIs, ViewNext DEF GacStored
  <2>3. v.up # <<>>
    BY <1>3, Something, ViewIs
  <2>4. /\ v.cnt = thread[h].cnt /\ v.path = thread[h].path /\ v.up = up[h]
        /\ v.filename = thread[h].filename /\ v.device = thread[h].deviceType
        /\ w.cnt = thread'[h].cnt /\ w.path = thread'[h].path
        /\ w.filename = thread'[h].filename /\ w.device = thread'[h].deviceType
        /\ w.phase = thread'[h].phase
    BY ViewIs, ViewNext, Zenon
  <2>5. \/ /\ v.cnt = 0 /\ w.cnt = 1 /\ w.phase = "GAC" /\ w.path = v.up
           /\ w.filename = v.filename /\ w.device = v.device
        \/ /\ v.cnt = 1 /\ w.cnt = 2 /\ w.phase = "GAC" /\ w.path = v.path
           /\ w.filename = v.up /\ w.device = v.device
        \/ /\ v.cnt = 2 /\ w.cnt = 0 /\ w.phase = "generate"
           /\ w.path = v.path /\ w.filename = v.filename /\ w.device = v.up
    BY <1>2, <1>9, <2>4, Zenon DEF GacStored
  <2> HIDE DEF v, w
  <2> QED BY <1>1, <2>1, <2>2, <2>3, <2>5, RowGac
<1>13. ServerGood'
  BY <1>2, <1>4, <1>9, <1>10, ServerKept
<1>14. ListenGood'
  <2>1. ~Listens(h)
    BY <1>2 DEF Listens
  <2> QED BY <1>4, <1>9, <1>11, <2>1, ListenKept DEF OnlyThis
<1>15. Recorded'
  BY <1>4, Stand DEF Recorded
<1> QED BY <1>1, <1>4, <1>10, <1>11, <1>12, <1>13, <1>14, <1>15, ServerStep

(* The server reads a field of a run: RecvGhfField.                        *)
LEMMA DoRecvGhfField ==
  ASSUME SessionGood, NEW h \in Tabs, RecvGhfField(h)
  PROVE  SessionGood'
<1> DEFINE v == View(h)
           w == View(h)'
<1>1. PICK p \in Places : Where(stack, h, p) /\ Talk(h, p, v, accidents)
  BY Stand
<1>2. thread[h].phase = "GHF" /\ thread[h].sock = h
  BY Stand DEF RecvGhfField, In
<1>3. PICK k \in 1 .. Len(up[thread[h].sock]) :
        /\ up' = [up EXCEPT ![thread[h].sock] = Rest(@, k)]
        /\ \/ /\ thread[h].cnt = 0
              /\ thread' = [thread EXCEPT
                   ![h].path = Received(up[thread[h].sock], k), ![h].cnt = 1]
              /\ UNCHANGED <<sims, printed>>
           \/ /\ thread[h].cnt = 1
              /\ \E simulate \in SimulatorChosen(h) :
                   /\ thread' = [thread EXCEPT ![h] =
                         [@ EXCEPT !.filename = Received(up[thread[h].sock], k),
                            !.cnt = 0, !.line = <<>>,
                            !.phase = IF simulate THEN "simulate" ELSE "board"]]
                   /\ sim' = [sim EXCEPT ![h] = IF simulate THEN "boot" ELSE @]
              /\ simOut' = [simOut EXCEPT ![h] = <<>>]
              /\ simAck' = [simAck EXCEPT ![h] = 0]
              /\ printed' = [printed EXCEPT ![h] = 0]
  BY Zenon DEF RecvGhfField
<1>4. /\ k \in 1 .. Len(up[h])
      /\ UNCHANGED <<opened, deviceBox, dev, stack, runnable, peer, bound, listenq,
                     down, backlog, asked, shown, accidents>>
  BY <1>2 DEF RecvGhfField, gui
<1>5. \/ p = "run_path" /\ v.cnt = 0 /\ v.up = <<Path(h)>>
      \/ p \in {"bind", "accept", "board"} /\ Starting(h, v) /\ Chosen(v)
  <2>1. v.phase = "GHF" /\ v.up # <<>>
    BY <1>2, <1>4, Something, ViewIs
  <2> HIDE DEF v
  <2> QED BY <1>1, <2>1, RowsGhf
<1>6. PICK x : up[h] = <<x>>
  <2>1. v.up = <<Path(h)>> \/ v.up = <<Name(h)>>
    <3> HIDE DEF v
    <3> QED BY <1>5 DEF Starting
  <2> QED BY <2>1, ViewIs
<1>7. Received(up[h], k) = up[h] /\ Rest(up[h], k) = <<>> /\ up[h] # <<>>
  <2>1. Received(up[h], k) = <<x>> /\ Rest(up[h], k) = <<>>
    BY <1>4, <1>6, Taken, Zenon
  <2> QED BY <1>4, <1>6, <2>1, Something, Zenon
<1>8. OnlyAt(up, up', h) /\ up'[h] = <<>>
  <2>1. up' = [up EXCEPT ![h] = Rest(up[h], k)]
    BY <1>2, <1>3
  <2> QED BY <1>7, <2>1, Stand, Updated
<1>9. /\ v.phase = "GHF" /\ v.up # <<>> /\ w.up = <<>> /\ w.down = v.down
      /\ w.asked = v.asked /\ w.shown = v.shown /\ w.runs = v.runs
  <2>1. v.phase = "GHF" /\ v.up = up[h] /\ w.up = up'[h]
    BY <1>2, ViewIs, ViewNext
  <2>2. w.down = v.down /\ w.asked = v.asked /\ w.shown = v.shown
    BY <1>4, ViewIs, ViewNext
  <2>3. w.runs = v.runs
    <3>1. v.runs = (h \in runnable) /\ w.runs = (h \in runnable')
      BY ViewIs, ViewNext, Zenon
    <3>2. w.runs = (h \in runnable)
      BY <1>4, <3>1
    <3> QED BY <3>1, <3>2
  <2> QED BY <1>7, <1>8, <2>1, <2>2, <2>3
<1>10. DOMAIN thread[h] = ThreadFields /\ h \in DOMAIN thread /\ Typed(h)
  BY RecordOf, Stand
<1>11. ASSUME OnlyAt(thread, thread', h), Typed(h)', thread'[h].sock = h,
              thread'[h].phase \in {"GHF", "simulate", "board"},
              OnlyThis(h), printed' \in [Tabs -> Nat],
              Keeps(h, p, v, w, accidents)
       PROVE  SessionGood'
  <2>1. ServerGood'
    BY <1>2, <1>4, <1>11, ServerKept
  <2>2. ListenGood'
    <3>1. ~Listens(h)
      BY <1>2 DEF Listens
    <3> QED BY <1>4, <1>11, <3>1, ListenKept DEF OnlyThis
  <2>3. Recorded'
    BY <1>4, <1>11, Stand DEF Recorded
  <2> QED BY <1>1, <1>4, <1>11, <2>1, <2>2, <2>3, ServerStep
<1>12. CASE thread[h].cnt = 0
  <2>1. /\ thread' = [thread EXCEPT ![h] =
                        [thread[h] EXCEPT !.path = up[h], !.cnt = 1]]
        /\ UNCHANGED <<sim, simOut, simAck, printed>>
    <3>1. thread[h].cnt # 1
      BY <1>12
    <3> QED BY <1>2, <1>3, <1>7, <1>10, <3>1 DEF sims
  <2> DEFINE r == [thread[h] EXCEPT !.path = up[h], !.cnt = 1]
  <2>2. OnlyAt(thread, thread', h) /\ thread'[h] = r
    BY <1>10, <2>1, Updated
  <2>3. /\ DOMAIN r = DOMAIN thread[h] /\ r.sock = thread[h].sock
        /\ r.line = thread[h].line /\ r.cnt = 1 /\ r.phase = thread[h].phase
        /\ r.path = up[h] /\ r.filename = thread[h].filename
        /\ r.deviceType = thread[h].deviceType
    BY <1>10 DEF ThreadFields
  <2> HIDE DEF r
  <2>4. Typed(h)' /\ thread'[h].sock = h /\ thread'[h].phase = "GHF"
    BY <1>2, <1>10, <2>2, <2>3 DEF Typed
  <2>5. OnlyThis(h)
    BY <1>4, <1>8, <2>1, <2>2, Untouched DEF OnlyThis
  <2>6. Keeps(h, p, v, w, accidents)
    <3>1. SameSim(v, w) /\ SameNotes(v, w)
      BY <1>4, <2>1, Views
    <3>2. /\ v.cnt = 0 /\ w.cnt = 1 /\ w.phase = "GHF" /\ w.path = v.up
          /\ w.filename = v.filename /\ w.device = v.device /\ w.line = v.line
      BY <1>2, <1>12, <2>2, <2>3, ViewIs, ViewNext
    <3> HIDE DEF v, w
    <3> QED BY <1>1, <1>9, <3>1, <3>2, RowGhfPath
  <2>7. printed' \in [Tabs -> Nat]
    BY <2>1, Stand DEF Recorded
  <2> QED BY <1>11, <2>2, <2>4, <2>5, <2>6, <2>7
<1>13. CASE thread[h].cnt = 1
  <2>1. PICK simulate \in SimulatorChosen(h) :
          /\ thread' = [thread EXCEPT ![h] =
                [thread[h] EXCEPT !.filename = up[h], !.cnt = 0, !.line = <<>>,
                   !.phase = IF simulate THEN "simulate" ELSE "board"]]
          /\ sim' = [sim EXCEPT ![h] = IF simulate THEN "boot" ELSE sim[h]]
    <3>1. thread[h].cnt # 0
      BY <1>13
    <3> QED BY <1>2, <1>3, <1>7, <3>1
  <2>2. /\ simOut' = [simOut EXCEPT ![h] = <<>>]
        /\ simAck' = [simAck EXCEPT ![h] = 0]
        /\ printed' = [printed EXCEPT ![h] = 0]
    <3>1. thread[h].cnt # 0
      BY <1>13
    <3> QED BY <1>3, <3>1
  <2>3. Starting(h, v) /\ Chosen(v)
    <3>1. v.cnt # 0
      BY <1>13, ViewIs
    <3> HIDE DEF v
    <3> QED BY <1>5, <3>1
  <2>4. simulate = (asked[h] = "Or1ksim")
    <3>1. asked[h] \in Devices /\ thread[h].deviceType = <<Device(asked[h])>>
      BY <2>3, ViewIs DEF Chosen
    <3>2. thread[h].deviceType # <<>>
      BY <3>1, ReceiveOne, Zenon
    <3>3. simulate = (thread[h].deviceType = <<Device("Or1ksim")>>)
      BY <3>2 DEF SimulatorChosen
    <3>4. \A a, b : <<a>> = <<b>> <=> a = b
      <4> SUFFICES ASSUME NEW a, NEW b, <<a>> = <<b>> PROVE a = b
        OBVIOUS
      <4>1. <<a>>[1] = a /\ <<b>>[1] = b
        OBVIOUS
      <4> QED BY <4>1
    <3>5. thread[h].deviceType = <<Device("Or1ksim")>> <=> asked[h] = "Or1ksim"
      BY <3>1, <3>4, Segments
    <3> QED BY <3>3, <3>5
  <2> DEFINE ph == IF simulate THEN "simulate" ELSE "board"
             r == [thread[h] EXCEPT !.filename = up[h], !.cnt = 0, !.line = <<>>,
                     !.phase = ph]
  <2>5. ph \in {"simulate", "board"} /\ (ph = "simulate" <=> asked[h] = "Or1ksim")
    BY <2>4
  <2>6. OnlyAt(thread, thread', h) /\ thread'[h] = r
    BY <1>10, <2>1, Updated
  <2> HIDE DEF ph
  <2>7. /\ DOMAIN r = DOMAIN thread[h] /\ r.sock = thread[h].sock
        /\ r.line = <<>> /\ r.cnt = 0 /\ r.phase = ph
        /\ r.path = thread[h].path /\ r.filename = up[h]
        /\ r.deviceType = thread[h].deviceType
    BY <1>10, Zenon DEF ThreadFields
  <2> HIDE DEF r
  <2>8. Typed(h)' /\ thread'[h].sock = h /\ thread'[h].phase = ph
    BY <1>2, <1>10, <2>6, <2>7 DEF Typed
  <2>9. OnlyAt(sim, sim', h) /\ sim'[h] = IF simulate THEN "boot" ELSE sim[h]
    BY <2>1, Stand, Updated
  <2>10. OnlyAt(simOut, simOut', h) /\ simOut'[h] = <<>>
    BY <2>2, Stand, Updated
  <2>11. OnlyAt(simAck, simAck', h) /\ simAck'[h] = 0
    BY <2>2, Stand, Updated
  <2>12. OnlyAt(printed, printed', h) /\ printed'[h] = 0
    BY <2>2, Stand, Updated
  <2>13. OnlyThis(h)
    BY <1>4, <1>8, <2>6, <2>9, <2>10, <2>11, <2>12, Untouched DEF OnlyThis
  <2>14. Keeps(h, p, v, w, accidents)
    <3>1. /\ v.cnt = 1 /\ w.printed = 0 /\ w.path = v.path /\ w.filename = v.up
          /\ w.device = v.device /\ w.cnt = 0 /\ w.line = <<>> /\ w.out = <<>>
          /\ w.ack = 0
      <4>1. w.out = <<>> /\ w.line = <<>>
        BY <2>6, <2>7, <2>10, ViewNext
      <4>2. v.cnt = 1 /\ w.printed = 0 /\ w.cnt = 0 /\ w.ack = 0
        BY <1>13, <2>6, <2>7, <2>11, <2>12, ViewIs, ViewNext
      <4>3. w.path = v.path /\ w.filename = v.up /\ w.device = v.device
        BY <2>6, <2>7, ViewIs, ViewNext
      <4> QED BY <4>1, <4>2, <4>3
    <3>2. \/ v.asked = "Or1ksim" /\ w.phase = "simulate" /\ w.sim = "boot"
          \/ v.asked # "Or1ksim" /\ w.phase = "board" /\ w.sim = v.sim
      <4>1. /\ v.asked = asked[h] /\ w.phase = thread'[h].phase /\ w.sim = sim'[h]
            /\ v.sim = sim[h]
        BY ViewIs, ViewNext, Zenon
      <4> QED BY <2>4, <2>5, <2>8, <2>9, <4>1
    <3> HIDE DEF v, w
    <3> QED BY <1>1, <1>9, <3>1, <3>2, RowGhfStart
  <2>15. printed' \in [Tabs -> Nat]
    BY <2>2, Stand DEF Recorded
  <2> QED BY <1>11, <2>5, <2>6, <2>8, <2>13, <2>14, <2>15
<1> QED BY <1>3, <1>12, <1>13

(* The board prints a character: BoardChar.                                *)
LEMMA DoBoardChar ==
  ASSUME SessionGood, NEW h \in Tabs, NEW isNul \in BOOLEAN,
         NEW isCR \in BOOLEAN, BoardChar(h, isNul, isCR)
  PROVE  SessionGood'
<1> DEFINE v == View(h)
           w == View(h)'
           c == IF isNul THEN NUL ELSE printed[h] + 1
           line == Append(thread[h].line, c)
           ph == IF isCR THEN "line" ELSE "board"
           r == [thread[h] EXCEPT !.line = line, !.phase = ph]
<1>1. PICK p \in Places : Where(stack, h, p) /\ Talk(h, p, v, accidents)
  BY Stand
<1>2. thread[h].phase = "board" /\ thread[h].sock = h
  BY Stand DEF BoardChar, In
<1>3. /\ DOMAIN thread[h] = ThreadFields /\ h \in DOMAIN thread /\ Typed(h)
      /\ printed \in [Tabs -> Nat] /\ Printable(v)
  BY RecordOf, Stand DEF Recorded
<1>4. /\ printed' = [printed EXCEPT ![h] = printed[h] + 1]
      /\ thread' = [thread EXCEPT ![h] = r]
      /\ down' = IF isCR THEN [down EXCEPT ![h] = Append(down[h], Line(line))]
                 ELSE down
      /\ UNCHANGED <<opened, deviceBox, dev, stack, runnable, peer, bound, listenq, up,
                     backlog, sim, simOut, simAck, asked, shown>>
      /\ accidents \subseteq accidents' /\ (isNul => "nul" \in accidents')
  BY <1>2, <1>3 DEF BoardChar, gui, sims
<1>16. c \in {0, printed[h] + 1} /\ c \in Nat /\ (c = 0 => isNul)
  BY <1>3 DEF NUL
<1> HIDE DEF c
<1>5. line \in Seq(Nat) /\ ph \in {"line", "board"} /\ (isCR <=> ph = "line")
  BY <1>3, <1>16 DEF Typed
<1> HIDE DEF line, ph
<1>6. OnlyAt(thread, thread', h) /\ thread'[h] = r
  BY <1>3, <1>4, Updated
<1>7. /\ DOMAIN r = DOMAIN thread[h] /\ r.sock = thread[h].sock
      /\ r.line = line /\ r.cnt = thread[h].cnt /\ r.phase = ph
      /\ r.path = thread[h].path /\ r.filename = thread[h].filename
      /\ r.deviceType = thread[h].deviceType
  BY <1>3 DEF ThreadFields
<1> HIDE DEF r
<1>8. Typed(h)' /\ thread'[h].sock = h /\ thread'[h].phase = ph
  BY <1>2, <1>3, <1>5, <1>6, <1>7 DEF Typed
<1>9. OnlyAt(printed, printed', h) /\ printed'[h] = printed[h] + 1
  BY <1>4, Stand, Updated
<1>10. /\ OnlyAt(down, down', h)
       /\ down'[h] = IF isCR THEN Append(down[h], Line(line)) ELSE down[h]
  <2>1. CASE isCR
    <3>1. down' = [down EXCEPT ![h] = Append(down[h], Line(line))]
      BY <1>4, <2>1
    <3> QED BY <2>1, <3>1, Stand, Updated
  <2>2. CASE ~isCR
    BY <1>4, <2>2, Untouched
  <2> QED BY <2>1, <2>2
<1>11. OnlyThis(h)
  BY <1>4, <1>6, <1>9, <1>10, Untouched DEF OnlyThis
<1>12. Keeps(h, p, v, w, accidents')
  <2>1. SameSim(v, w)
    BY <1>4, Views
  <2>2. w.runs = v.runs
    <3>1. v.runs = (h \in runnable) /\ w.runs = (h \in runnable')
      BY ViewIs, ViewNext, Zenon
    <3>2. w.runs = (h \in runnable)
      BY <1>4, <3>1
    <3> QED BY <3>1, <3>2
  <2>3. /\ v.phase = thread[h].phase /\ v.cnt = thread[h].cnt
        /\ v.path = thread[h].path /\ v.filename = thread[h].filename
        /\ v.device = thread[h].deviceType /\ v.line = thread[h].line
        /\ v.up = up[h] /\ v.down = down[h] /\ v.asked = asked[h]
        /\ v.shown = shown[h] /\ v.printed = printed[h]
    BY ViewIs, Zenon
  <2>4. /\ w.phase = ph /\ w.cnt = thread[h].cnt
        /\ w.path = thread[h].path /\ w.filename = thread[h].filename
        /\ w.device = thread[h].deviceType /\ w.line = line
        /\ w.up = up[h] /\ w.down = down'[h] /\ w.asked = asked[h]
        /\ w.shown = shown[h] /\ w.printed = printed'[h]
    <3>1. /\ w.phase = thread'[h].phase /\ w.cnt = thread'[h].cnt
          /\ w.path = thread'[h].path /\ w.filename = thread'[h].filename
          /\ w.device = thread'[h].deviceType /\ w.line = thread'[h].line
          /\ w.up = up'[h] /\ w.down = down'[h] /\ w.asked = asked'[h]
          /\ w.shown = shown'[h] /\ w.printed = printed'[h]
      BY ViewNext, Zenon
    <3> HIDE DEF w
    <3> QED BY <1>4, <1>6, <1>7, <3>1
  <2>5. SameFields(v, w)
    BY <2>3, <2>4 DEF SameFields
  <2>6. /\ w.printed = v.printed + 1 /\ w.line = Append(v.line, c)
        /\ w.cnt = v.cnt /\ w.asked = v.asked /\ w.shown = v.shown /\ w.up = v.up
        /\ v.phase = "board"
    BY <1>2, <1>9, <2>3, <2>4 DEF line
  <2>7. \/ w.phase = "board" /\ w.down = v.down
        \/ w.phase = "line" /\ w.down = Append(v.down, Line(w.line))
    BY <1>5, <1>10, <2>3, <2>4
  <2>8. c \in {0, v.printed + 1} /\ (c = 0 => "nul" \in accidents')
    BY <1>4, <1>16, <2>3
  <2> HIDE DEF v, w
  <2>9. Talk(h, p, v, accidents')
    BY <1>1, <1>4, TalkGrows
  <2> QED BY <1>3, <2>1, <2>2, <2>5, <2>6, <2>7, <2>8, <2>9, RowBoardChar
<1>13. ServerGood'
  BY <1>2, <1>4, <1>5, <1>6, <1>8, ServerKept
<1>14. ListenGood'
  <2>1. ~Listens(h)
    BY <1>2 DEF Listens
  <2> QED BY <1>4, <1>6, <1>11, <2>1, ListenKept DEF OnlyThis
<1>15. Recorded'
  <2>1. printed' \in [Tabs -> Nat]
    BY <1>3, <1>4
  <2>2. asked' = asked /\ shown' = shown
    BY <1>4
  <2> QED BY <2>1, <2>2, Stand DEF Recorded
<1> QED BY <1>1, <1>4, <1>8, <1>11, <1>12, <1>13, <1>14, <1>15, ServerStep

(* The server reads the acknowledgement of a line: RecvLineAck.            *)
LEMMA DoRecvLineAck ==
  ASSUME SessionGood, NEW h \in Tabs, RecvLineAck(h)
  PROVE  SessionGood'
<1> DEFINE v == View(h)
           w == View(h)'
           r == [thread[h] EXCEPT !.phase = "board", !.line = <<>>]
<1>1. PICK p \in Places : Where(stack, h, p) /\ Talk(h, p, v, accidents)
  BY Stand
<1>2. thread[h].phase = "line" /\ thread[h].sock = h /\ up[h] # <<>>
  BY Stand DEF RecvLineAck, In
<1>3. /\ DOMAIN thread[h] = ThreadFields /\ h \in DOMAIN thread /\ Typed(h)
      /\ Printable(v)
  BY RecordOf, Stand
<1>4. up[h] = <<ACK>>
  <2>1. v.phase = "line" /\ v.up # <<>>
    BY <1>2, ViewIs
  <2>2. OnBoard(h, v)
    <3> HIDE DEF v
    <3> QED BY <1>1, <2>1, RowsBoard
  <2>3. v.up = <<ACK>>
    BY <2>1, <2>2 DEF OnBoard, Quiet
  <2> QED BY <2>3, ViewIs
<1>5. Head(up[h]) = ACK /\ Tail(up[h]) = <<>>
  BY <1>4, ReceiveOne
<1>6. /\ up' = [up EXCEPT ![h] = <<>>]
      /\ thread' = [thread EXCEPT ![h] = r]
      /\ UNCHANGED <<opened, deviceBox, dev, stack, runnable, peer, bound, listenq,
                     down, backlog, sim, simOut, simAck, asked, printed, shown,
                     accidents>>
  BY <1>2, <1>3, <1>5 DEF RecvLineAck, gui, sims, history
<1>7. OnlyAt(thread, thread', h) /\ thread'[h] = r
  BY <1>3, <1>6, Updated
<1>8. /\ DOMAIN r = DOMAIN thread[h] /\ r.sock = thread[h].sock
      /\ r.line = <<>> /\ r.cnt = thread[h].cnt /\ r.phase = "board"
      /\ r.path = thread[h].path /\ r.filename = thread[h].filename
      /\ r.deviceType = thread[h].deviceType
  BY <1>3, Zenon DEF ThreadFields
<1> HIDE DEF r
<1>9. Typed(h)' /\ thread'[h].sock = h /\ thread'[h].phase = "board"
  BY <1>2, <1>3, <1>7, <1>8 DEF Typed
<1>10. OnlyAt(up, up', h) /\ up'[h] = <<>>
  BY <1>6, Stand, Updated
<1>11. OnlyThis(h)
  BY <1>6, <1>7, <1>10, Untouched DEF OnlyThis
<1>12. Keeps(h, p, v, w, accidents)
  <2>1. SameSim(v, w) /\ SameNotes(v, w)
    BY <1>6, Views
  <2>2. v.phase = "line" /\ v.up # <<>>
    BY <1>2, ViewIs
  <2>3. /\ w.path = v.path /\ w.filename = v.filename /\ w.device = v.device
        /\ w.cnt = v.cnt /\ w.phase = "board" /\ w.down = v.down
    BY <1>6, <1>7, <1>8, ViewIs, ViewNext
  <2>4. w.line = <<>> /\ w.up = <<>>
    BY <1>7, <1>8, <1>10, ViewNext
  <2>5. SameFields(v, w)
    BY <2>3 DEF SameFields
  <2> HIDE DEF v, w
  <2> QED BY <1>1, <1>3, <2>1, <2>2, <2>3, <2>4, <2>5, RowLineAck
<1>13. ServerGood'
  BY <1>2, <1>6, <1>7, <1>9, ServerKept
<1>14. ListenGood'
  <2>1. ~Listens(h)
    BY <1>2 DEF Listens
  <2> QED BY <1>6, <1>7, <1>11, <2>1, ListenKept DEF OnlyThis
<1>15. Recorded'
  BY <1>6, Stand DEF Recorded
<1> QED BY <1>1, <1>6, <1>9, <1>11, <1>12, <1>13, <1>14, <1>15, ServerStep

-----------------------------------------------------------------------------
(* The steps of the simulators.                                            *)
LEMMA ServerSame ==
  ASSUME SessionGood, UNCHANGED <<opened, backlog, thread>>
  PROVE  ServerGood' /\ \A h \in Tabs : Typed(h)' /\ SameBut(h)
BY DEF SessionGood, SessionTypes, ServerGood, Waits, Typed, SameBut

(* A simulator that runs is that of a handler that waits for its output.   *)
LEMMA Running ==
  ASSUME NEW t, NEW p \in Places, NEW v, NEW acc, Talk(t, p, v, acc),
         v.sim = "boot" \/ v.sim = "run"
  PROVE  /\ p \in {"bind", "accept", "board", "simulator"} /\ OnSim(t, v, acc)
         /\ v.sim = "boot" => p # "simulator"
<1>1. p \in {"bind", "accept", "board", "simulator"} /\ OnSim(t, v, acc)
  BY RowsSim DEF Talk, RunDoneRow
<1>2. v.sim = "boot" => p # "simulator"
  BY DEF Talk, SimulatorRow
<1> QED BY <1>1, <1>2

(* The simulator connects to port 7777: SimConnect.                        *)
LEMMA DoSimConnect ==
  ASSUME SessionGood, NEW h \in Tabs, SimConnect(h)
  PROVE  SessionGood'
<1> DEFINE v == View(h)
           w == View(h)'
<1>1. PICK p \in Places : Where(stack, h, p) /\ Talk(h, p, v, accidents)
  BY Stand
<1>2. /\ sim[h] = "boot"
      /\ IF bound
         THEN /\ sim' = [sim EXCEPT ![h] = "run"]
              /\ listenq' = Append(listenq, h)
         ELSE sim' = [sim EXCEPT ![h] = "gone"] /\ UNCHANGED listenq
      /\ UNCHANGED <<opened, deviceBox, dev, stack, runnable, peer, bound, up, down,
                     backlog, thread, simOut, simAck, asked, printed, shown>>
  BY DEF SimConnect, gui, conns, server, history
<1>3. accidents \subseteq accidents'
  BY DEF SimConnect, Accident
<1>4. OnlyAt(sim, sim', h) /\ sim'[h] = IF bound THEN "run" ELSE "gone"
  BY <1>2, Stand, Updated
<1>5. OnlyThis(h)
  BY <1>2, <1>4, Untouched DEF OnlyThis
<1>6. ServerGood' /\ Typed(h)' /\ SameBut(h)
  BY <1>2, ServerSame
<1>7. Keeps(h, p, v, w, accidents')
  <2>1. SameThread(v, w) /\ SameWire(v, w) /\ SameNotes(v, w)
    BY <1>2, <1>6, Views
  <2>2. w.out = v.out /\ w.ack = v.ack
    BY <1>2, ViewIs, ViewNext
  <2>3. v.sim = "boot" /\ w.sim \in {"run", "gone"}
    BY <1>2, <1>4, ViewIs, ViewNext
  <2> HIDE DEF v, w
  <2>4. Talk(h, p, v, accidents')
    BY <1>1, <1>3, TalkGrows
  <2> QED BY <2>1, <2>2, <2>3, <2>4, RowSimMoves
<1>8. ListenGood'
  <2>1. CASE bound
    <3>1. v.sim = "boot"
      BY <1>2, ViewIs
    <3>2. p \in {"bind", "accept", "board"} /\ OnSim(h, v, accidents)
      <4> HIDE DEF v
      <4> QED BY <1>1, <3>1, Running
    <3>3. thread[h].phase = "simulate" /\ asked[h] = "Or1ksim"
      <4>1. v.phase = "simulate" /\ v.asked = "Or1ksim"
        <5> HIDE DEF v
        <5> QED BY <3>1, <3>2 DEF OnSim
      <4> QED BY <4>1, ViewIs
    <3>4. listenq = <<>>
      <4> SUFFICES ASSUME listenq # <<>> PROVE FALSE
        OBVIOUS
      <4>1. PICK t \in Tabs : Listens(t) /\ stack[Len(stack)].tab = t
        BY ListenTop
      <4>2. p \in Positions \ EventPoints
        BY <3>2 DEF Positions, EventPoints, Delays
      <4>3. /\ stack \in Seq(Frames)
            /\ \A i \in 1 .. Len(stack) : i < Len(stack) => stack[i].at \in EventPoints
        BY DEF SessionGood, SessionTypes, StackGood, Frames
      <4>4. stack[Len(stack)].tab = h
        BY <1>1, <4>2, <4>3, OutsideDelay
      <4> QED BY <1>2, <4>1, <4>4 DEF Listens
    <3>5. listenq' = <<h>>
      BY <1>2, <2>1, <3>4, AppendFirst
    <3>6. Where(stack', h, p)
      BY <1>1, <1>2
    <3>7. thread'[h].phase = "simulate" /\ asked'[h] = "Or1ksim" /\ sim'[h] = "run"
      BY <1>2, <1>4, <2>1, <3>3
    <3> QED BY <3>2, <3>5, <3>6, <3>7 DEF ListenGood
  <2>2. CASE ~bound
    <3>1. ~Listens(h)
      BY <1>2 DEF Listens
    <3> QED BY <1>2, <1>4, <1>5, <2>2, <3>1, ListenKept DEF OnlyThis
  <2> QED BY <2>1, <2>2
<1>9. Recorded'
  BY <1>2, Stand DEF Recorded
<1> QED BY <1>1, <1>2, <1>3, <1>5, <1>6, <1>7, <1>8, <1>9, ServerStep

(* The simulator ends: SimExit.                                            *)
LEMMA DoSimExit ==
  ASSUME SessionGood, NEW h \in Tabs, SimExit(h)
  PROVE  SessionGood'
<1> DEFINE v == View(h)
           w == View(h)'
<1>1. PICK p \in Places : Where(stack, h, p) /\ Talk(h, p, v, accidents)
  BY Stand
<1>2. /\ sim[h] = "run" /\ sim' = [sim EXCEPT ![h] = "gone"]
      /\ UNCHANGED <<opened, deviceBox, dev, stack, runnable, peer, bound, listenq, up,
                     down, backlog, thread, simOut, simAck, asked, printed,
                     shown, accidents>>
  BY DEF SimExit, gui, conns, server, history
<1>3. OnlyAt(sim, sim', h) /\ sim'[h] = "gone"
  BY <1>2, Stand, Updated
<1>4. OnlyThis(h)
  BY <1>2, <1>3, Untouched DEF OnlyThis
<1>5. ServerGood' /\ Typed(h)' /\ SameBut(h)
  BY <1>2, ServerSame
<1>6. Keeps(h, p, v, w, accidents)
  <2>1. SameThread(v, w) /\ SameWire(v, w) /\ SameNotes(v, w)
    BY <1>2, <1>5, Views
  <2>2. w.out = v.out /\ w.ack = v.ack /\ v.sim = "run" /\ w.sim = "gone"
    BY <1>2, <1>3, ViewIs, ViewNext
  <2> HIDE DEF v, w
  <2> QED BY <1>1, <2>1, <2>2, RowSimMoves
<1>7. ListenGood'
  BY <1>2, <1>3, <1>4, ListenKept DEF Listens, OnlyThis
<1>8. Recorded'
  BY <1>2, Stand DEF Recorded
<1> QED BY <1>1, <1>2, <1>4, <1>5, <1>6, <1>7, <1>8, ServerStep

(* The simulator reads the acknowledgement of its character: SimRecvAck.   *)
LEMMA DoSimRecvAck ==
  ASSUME SessionGood, NEW h \in Tabs, SimRecvAck(h)
  PROVE  SessionGood'
<1> DEFINE v == View(h)
           w == View(h)'
<1>1. PICK p \in Places : Where(stack, h, p) /\ Talk(h, p, v, accidents)
  BY Stand
<1>2. /\ sim[h] = "ack" /\ simAck[h] > 0 /\ sim' = [sim EXCEPT ![h] = "run"]
      /\ simAck' = [simAck EXCEPT ![h] = simAck[h] - 1]
      /\ UNCHANGED <<opened, deviceBox, dev, stack, runnable, peer, bound, listenq, up,
                     down, backlog, thread, simOut, asked, printed,
                     shown, accidents>>
  BY DEF SimRecvAck, gui, conns, server, history
<1>3. /\ OnlyAt(sim, sim', h) /\ sim'[h] = "run"
      /\ OnlyAt(simAck, simAck', h) /\ simAck'[h] = simAck[h] - 1
  BY <1>2, Stand, Updated
<1>4. OnlyThis(h)
  BY <1>2, <1>3, Untouched DEF OnlyThis
<1>5. ServerGood' /\ Typed(h)' /\ SameBut(h)
  BY <1>2, ServerSame
<1>6. Keeps(h, p, v, w, accidents)
  <2>1. SameThread(v, w) /\ SameWire(v, w) /\ SameNotes(v, w)
    BY <1>2, <1>5, Views
  <2>2. w.out = v.out /\ v.sim = "ack" /\ w.sim = "run"
    BY <1>2, <1>3, ViewIs, ViewNext
  <2>3. v.ack > 0 /\ w.ack = v.ack - 1
    <3>1. v.ack = simAck[h] /\ w.ack = simAck'[h]
      BY ViewIs, ViewNext, Zenon
    <3> QED BY <1>2, <1>3, <3>1
  <2> HIDE DEF v, w
  <2> QED BY <1>1, <2>1, <2>2, <2>3, RowSimAck
<1>7. ListenGood'
  BY <1>2, <1>3, <1>4, ListenKept DEF Listens, OnlyThis
<1>8. Recorded'
  BY <1>2, Stand DEF Recorded
<1> QED BY <1>1, <1>2, <1>4, <1>5, <1>6, <1>7, <1>8, ServerStep

(* The simulator prints a character: send_char.                            *)
LEMMA Dosend_char ==
  ASSUME SessionGood, NEW h \in Tabs, NEW isNul \in BOOLEAN, send_char(h, isNul)
  PROVE  SessionGood'
<1> DEFINE v == View(h)
           w == View(h)'
           c == IF isNul THEN NUL ELSE printed[h] + 1
<1>1. PICK p \in Places : Where(stack, h, p) /\ Talk(h, p, v, accidents)
  BY Stand
<1>2. /\ sim[h] = "run" /\ sim' = [sim EXCEPT ![h] = "ack"]
      /\ printed' = [printed EXCEPT ![h] = printed[h] + 1]
      /\ simOut' = [simOut EXCEPT ![h] = Append(simOut[h], c)]
      /\ Accident("nul", isNul)
      /\ UNCHANGED <<opened, deviceBox, dev, stack, runnable, peer, bound, listenq, up,
                     down, backlog, thread, simAck, asked, shown>>
  BY DEF send_char, gui, conns, server
<1>3. printed \in [Tabs -> Nat] /\ Printable(v)
  BY Stand DEF Recorded
<1>4. accidents \subseteq accidents' /\ (isNul => "nul" \in accidents')
  BY <1>2, Mishap
<1>5. c \in {0, printed[h] + 1} /\ (c = 0 => isNul)
  BY <1>3 DEF NUL
<1> HIDE DEF c
<1>6. /\ OnlyAt(sim, sim', h) /\ sim'[h] = "ack"
      /\ OnlyAt(simOut, simOut', h) /\ simOut'[h] = Append(simOut[h], c)
      /\ OnlyAt(printed, printed', h) /\ printed'[h] = printed[h] + 1
  BY <1>2, Stand, Updated
<1>7. OnlyThis(h)
  BY <1>2, <1>6, Untouched DEF OnlyThis
<1>8. ServerGood' /\ Typed(h)' /\ SameBut(h)
  BY <1>2, ServerSame
<1>9. Keeps(h, p, v, w, accidents')
  <2>1. SameThread(v, w) /\ SameWire(v, w)
    BY <1>2, <1>8, Views
  <2>2. w.runs = v.runs
    <3>1. v.runs = (h \in runnable) /\ w.runs = (h \in runnable')
      BY ViewIs, ViewNext, Zenon
    <3>2. w.runs = (h \in runnable)
      BY <1>2, <3>1
    <3> QED BY <3>1, <3>2
  <2>3. /\ w.asked = v.asked /\ w.shown = v.shown /\ w.ack = v.ack
        /\ v.sim = "run" /\ w.sim = "ack"
    BY <1>2, <1>6, ViewIs, ViewNext
  <2>4. /\ v.printed = printed[h] /\ w.printed = printed'[h] /\ v.out = simOut[h]
        /\ w.out = simOut'[h]
    BY ViewIs, ViewNext, Zenon
  <2>5. /\ w.printed = v.printed + 1 /\ w.out = Append(v.out, c)
        /\ c \in {0, v.printed + 1}
    BY <1>5, <1>6, <2>4
  <2>6. c = 0 => "nul" \in accidents'
    BY <1>4, <1>5
  <2> HIDE DEF v, w
  <2>7. Talk(h, p, v, accidents')
    BY <1>1, <1>4, TalkGrows
  <2> QED BY <1>3, <2>1, <2>2, <2>3, <2>5, <2>6, <2>7, RowSendChar
<1>10. ListenGood'
  BY <1>2, <1>6, <1>7, ListenKept DEF Listens, OnlyThis
<1>11. Recorded'
  <2>1. printed' \in [Tabs -> Nat]
    BY <1>2, <1>3
  <2>2. asked' = asked /\ shown' = shown
    BY <1>2
  <2> QED BY <2>1, <2>2, Stand DEF Recorded
<1> QED BY <1>1, <1>2, <1>4, <1>7, <1>8, <1>9, <1>10, <1>11, ServerStep

-----------------------------------------------------------------------------
(* The user's clicks.                                                      *)
LEMMA LoopIdle ==
  ASSUME SessionGood, EventLoop
  PROVE  /\ listenq = <<>>
         /\ \A i \in 1 .. Len(stack) : stack[i].at \in EventPoints
<1>1. stack \in Seq(Frames) /\ StackGood
  BY DEF SessionGood, SessionTypes, Frames
<1>2. stack # <<>> => stack[Len(stack)].at \in EventPoints
  BY DEF EventLoop, Top, Last
<1>3. listenq = <<>>
  <2> SUFFICES ASSUME listenq # <<>> PROVE FALSE
    OBVIOUS
  <2>1. stack # <<>> /\ stack[Len(stack)].at \in {"bind", "accept", "board"}
    BY ListenTop
  <2> QED BY <1>2, <2>1 DEF EventPoints, Delays
<1>4. ASSUME NEW i \in 1 .. Len(stack) PROVE stack[i].at \in EventPoints
  <2>1. stack # <<>> /\ (i < Len(stack) \/ i = Len(stack))
    BY <1>1
  <2> QED BY <1>1, <1>2, <2>1 DEF StackGood
<1> QED BY <1>3, <1>4

(* A click on a tab that has no handler.                                   *)
LEMMA ClickStep ==
  ASSUME SessionGood, OnTrack', NEW t \in Tabs, NEW cmd,
         NEW q \in Positions \ Holds, Click(t, cmd, q)
  PROVE  /\ Where(stack, t, "free") /\ Where(stack', t, q)
         /\ stack' \in Seq(Frames) /\ StackGood'
         /\ \A u \in Tabs \ {t}, r \in Places :
              Where(stack', u, r) <=> Where(stack, u, r)
         /\ ListenGood' /\ PeerGood' /\ accidents \subseteq accidents'
<1>1. stack \in Seq(Frames) /\ OneEach(stack) /\ StackGood /\ PeerGood
  BY DEF SessionGood, SessionTypes, StackGood, OneEach, Frames
<1>2. /\ EventLoop /\ stack' = PushTop(stack, t, q)
      /\ Accident("reentered", \E i \in 1 .. Len(stack) : stack[i].tab = t)
      /\ UNCHANGED <<listenq, peer, bound>>
  BY DEF Click, PushTop
<1>3. accidents \subseteq accidents' /\ \A i \in 1 .. Len(stack) : stack[i].tab # t
  <2>1. "reentered" \notin accidents'
    BY DEF OnTrack
  <2>2. (\E i \in 1 .. Len(stack) : stack[i].tab = t) \in BOOLEAN
    OBVIOUS
  <2> QED BY <1>2, <2>1, <2>2, Mishap
<1>4. listenq = <<>> /\ \A i \in 1 .. Len(stack) : stack[i].at \in EventPoints
  BY <1>2, LoopIdle
<1>5. /\ stack' \in Seq(Frames) /\ OneEach(stack') /\ Where(stack', t, q)
      /\ Len(stack') = Len(stack) + 1
      /\ \A i \in 1 .. Len(stack) : stack'[i] = stack[i]
      /\ \A u \in Tabs \ {t}, r \in Places :
           Where(stack', u, r) <=> Where(stack, u, r)
  BY <1>1, <1>2, <1>3, Pushed
<1>6. StackGood'
  <2>1. ASSUME NEW i \in 1 .. Len(stack'), i < Len(stack')
        PROVE  stack'[i].at \in EventPoints
    <3>1. i \in 1 .. Len(stack)
      BY <1>1, <1>5, <2>1
    <3> QED BY <1>4, <1>5, <3>1
  <2> QED BY <1>5, <2>1 DEF StackGood, OneEach
<1>7. Where(stack, t, "free")
  BY <1>3 DEF Where
<1>8. ListenGood'
  BY <1>2, <1>4 DEF ListenGood
<1>9. PeerGood'
  <2>1. "free" \in Places /\ q \in Places /\ Reads \subseteq Holds
    BY DEF Places, Positions, Reads, Holds
  <2>2. q \notin Holds /\ q \notin Reads
    BY <2>1
  <2> QED BY <1>2, <1>5, <1>7, <2>1, <2>2, PeerKept
<1> QED BY <1>3, <1>5, <1>6, <1>7, <1>8, <1>9

(* The user clicks on compile: on_compile_clicked.                         *)
LEMMA Doon_compile_clicked ==
  ASSUME SessionGood, OnTrack', NEW t \in Tabs, on_compile_clicked(t)
  PROVE  SessionGood'
<1> DEFINE v == View(t)
           w == View(t)'
           q == "compile_command"
<1>1. q \in Positions \ Holds /\ "free" \in Places /\ q \in Places
  BY DEF Positions, Holds, Reads, Places
<1>2. /\ Where(stack, t, "free") /\ Where(stack', t, q)
      /\ stack' \in Seq(Frames) /\ StackGood'
      /\ \A u \in Tabs \ {t}, r \in Places :
           Where(stack', u, r) <=> Where(stack, u, r)
      /\ ListenGood' /\ PeerGood' /\ accidents \subseteq accidents'
  BY <1>1, ClickStep DEF on_compile_clicked
<1>3. /\ up' = [up EXCEPT ![t] = Append(up[t], GAC)]
      /\ UNCHANGED <<opened, deviceBox, dev, runnable, down, backlog, thread,
                     sim, simOut, simAck, asked, printed, shown>>
  BY DEF on_compile_clicked, Click, server, sims
<1>4. OnlyAt(up, up', t) /\ up'[t] = Append(up[t], GAC)
  BY <1>3, Stand, Updated
<1>5. OnlyThis(t)
  BY <1>3, <1>4, Untouched DEF OnlyThis
<1>6. ServerGood' /\ Typed(t)' /\ SameBut(t)
  BY <1>3, ServerSame
<1>7. Recorded' /\ (asked'[t] \in Devices => dev[t] \in Devices)
  BY <1>3, Stand DEF Recorded, SessionGood, DevicesGood
<1>8. Steps(t, "free", q, v, w, accidents')
  <2>1. Talk(t, "free", v, accidents)
    BY <1>1, <1>2 DEF SessionGood, TabsGood
  <2>2. SameThread(v, w) /\ SameSim(v, w) /\ SameNotes(v, w)
    BY <1>3, <1>6, Views
  <2>3. w.up = Append(v.up, GAC) /\ w.down = v.down
    <3>1. v.up = up[t] /\ w.up = up'[t] /\ v.down = down[t] /\ w.down = down'[t]
      BY ViewIs, ViewNext, Zenon
    <3> QED BY <1>3, <1>4, <3>1
  <2> HIDE DEF v, w
  <2>4. Talk(t, "free", v, accidents')
    BY <1>2, <2>1, TalkGrows
  <2> QED BY <2>2, <2>3, <2>4, RowCompile
<1> HIDE DEF q
<1> QED BY <1>1, <1>2, <1>3, <1>5, <1>6, <1>7, <1>8, OneTab

(* The user clicks on run: on_run_clicked.                                 *)
LEMMA Doon_run_clicked ==
  ASSUME SessionGood, OnTrack', NEW t \in Tabs, on_run_clicked(t)
  PROVE  SessionGood'
<1> DEFINE v == View(t)
           w == View(t)'
           q == "run_command"
<1>1. q \in Positions \ Holds /\ "free" \in Places /\ q \in Places
  BY DEF Positions, Holds, Reads, Places
<1>2. /\ Where(stack, t, "free") /\ Where(stack', t, q)
      /\ stack' \in Seq(Frames) /\ StackGood'
      /\ \A u \in Tabs \ {t}, r \in Places :
           Where(stack', u, r) <=> Where(stack, u, r)
      /\ ListenGood' /\ PeerGood' /\ accidents \subseteq accidents'
  BY <1>1, ClickStep DEF on_run_clicked
<1>3. /\ up' = [up EXCEPT ![t] = Append(up[t], GHF)] /\ t \in runnable
      /\ shown' = [shown EXCEPT ![t] = <<>>]
      /\ UNCHANGED <<opened, deviceBox, dev, runnable, down, backlog, thread,
                     sim, simOut, simAck, asked, printed>>
  BY DEF on_run_clicked, Click, server, sims
<1>4. /\ OnlyAt(up, up', t) /\ up'[t] = Append(up[t], GHF)
      /\ OnlyAt(shown, shown', t) /\ shown'[t] = <<>>
  BY <1>3, Stand, Updated
<1>5. OnlyThis(t)
  BY <1>3, <1>4, Untouched DEF OnlyThis
<1>6. ServerGood' /\ Typed(t)' /\ SameBut(t)
  BY <1>3, ServerSame
<1>7. Recorded' /\ (asked'[t] \in Devices => dev[t] \in Devices)
  <2>1. shown' \in [Tabs -> Seq(Nat)]
    <3>1. shown \in [Tabs -> Seq(Nat)]
      BY Stand DEF Recorded
    <3>2. <<>> \in Seq(Nat)
      OBVIOUS
    <3> QED BY <1>3, <3>1, <3>2
  <2>2. asked' = asked /\ printed' = printed
    BY <1>3
  <2> QED BY <2>1, <2>2, Stand DEF Recorded, SessionGood, DevicesGood
<1>8. Steps(t, "free", q, v, w, accidents')
  <2>1. Talk(t, "free", v, accidents)
    BY <1>1, <1>2 DEF SessionGood, TabsGood
  <2>2. SameThread(v, w) /\ SameSim(v, w)
    BY <1>3, <1>6, Views
  <2>3. w.up = Append(v.up, GHF) /\ w.down = v.down /\ w.asked = v.asked
    <3>1. /\ v.up = up[t] /\ w.up = up'[t] /\ v.down = down[t]
          /\ w.down = down'[t] /\ v.asked = asked[t] /\ w.asked = asked'[t]
      BY ViewIs, ViewNext, Zenon
    <3> QED BY <1>3, <1>4, <3>1
  <2>4. w.shown = <<>>
    BY <1>4, ViewNext
  <2>5. v.runs = TRUE
    <3>1. v.runs = (t \in runnable)
      BY ViewIs, Zenon
    <3> QED BY <1>3, <3>1
  <2> HIDE DEF v, w
  <2>6. Talk(t, "free", v, accidents')
    BY <1>2, <2>1, TalkGrows
  <2> QED BY <2>2, <2>3, <2>4, <2>5, <2>6, RowRun
<1> HIDE DEF q
<1> QED BY <1>1, <1>2, <1>3, <1>5, <1>6, <1>7, <1>8, OneTab

-----------------------------------------------------------------------------
(* The steps of the handlers.                                              *)
LEMMA Handles ==
  ASSUME SessionGood, NEW t \in Tabs, NEW p \in Positions, At(t, p)
  PROVE  /\ Talk(t, p, View(t), accidents) /\ p \in Places /\ Where(stack, t, p)
         /\ asked[t] \in Devices => dev[t] \in Devices
<1>1. stack \in Seq(Frames) /\ TabsGood /\ DevicesGood
  BY DEF SessionGood, SessionTypes, Frames
<1>2. stack # <<>> /\ stack[Len(stack)] = [tab |-> t, at |-> p]
  BY DEF At, Top, Last
<1>3. Where(stack, t, p)
  BY <1>1, <1>2, TopPlace
<1>4. p \in Places
  BY DEF Places
<1> QED BY <1>1, <1>3, <1>4 DEF TabsGood, DevicesGood

(* The GUI reads the acknowledgement of its command and sends the path:    *)
(* RecvCommandAck.                                                         *)
LEMMA DoRecvCommandAck ==
  ASSUME SessionGood, NEW t \in Tabs, NEW p, NEW q,
         \/ p = "compile_command" /\ q = "compile_path"
         \/ p = "run_command" /\ q = "run_path",
         RecvCommandAck(t, p, q)
  PROVE  SessionGood'
<1> DEFINE v == View(t)
           w == View(t)'
<1>1. /\ p \in Positions \ {"bind", "accept", "board"} /\ q \in Places
      /\ q \in Positions \ Holds
  BY DEF Positions, Holds, Reads, Places
<1>2. At(t, p)
  BY DEF RecvCommandAck
<1>3. PICK k \in 1 .. Len(down[t]) :
        /\ down' = [down EXCEPT ![t] = Rest(down[t], k)]
        /\ IF Received(down[t], k)[1] = ACK
           THEN Goto(q) /\ up' = [up EXCEPT ![t] = Append(up[t], Path(t))]
           ELSE Return /\ UNCHANGED up
  BY DEF RecvCommandAck
<1>4. UNCHANGED <<opened, deviceBox, dev, runnable, peer, bound, listenq, backlog,
                  thread, sim, simOut, simAck, asked, printed, shown, accidents>>
  BY DEF RecvCommandAck, server, sims, history
<1>5. /\ Talk(t, p, v, accidents) /\ (asked[t] \in Devices => dev[t] \in Devices)
  BY <1>1, <1>2, Handles
<1>6. v.down # <<>>
  BY <1>3, Something, ViewIs
<1>7. down[t] = <<ACK>>
  <2>1. v.down = <<ACK>>
    <3> HIDE DEF v
    <3> QED BY <1>5, <1>6, AnswerCommand
  <2> QED BY <2>1, ViewIs
<1>8. Received(down[t], k)[1] = ACK /\ Rest(down[t], k) = <<>>
  BY <1>7, Taken
<1>9. /\ Goto(q) /\ OnlyAt(up, up', t) /\ up'[t] = Append(up[t], Path(t))
      /\ OnlyAt(down, down', t) /\ down'[t] = <<>>
  BY <1>3, <1>8, Stand, Updated
<1>10. OnlyThis(t)
  BY <1>4, <1>9, Untouched DEF OnlyThis
<1>11. ListenGood' /\ PeerGood'
  BY <1>1, <1>2, <1>4, <1>9, OtherHandlers
<1>12. Recorded' /\ SameBut(t)
  BY <1>4, Stand DEF Recorded, SameBut
<1>13. Steps(t, p, q, v, w, accidents)
  <2>1. SameThread(v, w) /\ SameSim(v, w) /\ SameNotes(v, w)
    BY <1>4, <1>12, Views
  <2>2. w.up = Append(v.up, Path(t)) /\ w.down = <<>>
    <3>1. v.up = up[t] /\ w.up = up'[t] /\ w.down = down'[t]
      BY ViewIs, ViewNext, Zenon
    <3> QED BY <1>9, <3>1
  <2> HIDE DEF v, w
  <2> QED BY <1>5, <1>6, <2>1, <2>2, RowCommandAck
<1> QED BY <1>1, <1>2, <1>4, <1>5, <1>9, <1>10, <1>11, <1>12, <1>13, HandlerStep

(* The delay was long enough.                                              *)
LEMMA Patient ==
  ASSUME OnTrack', NEW t, NEW more,
         accidents' = accidents \cup (IF CaughtUp(t) THEN {} ELSE {"slow"}) \cup more
  PROVE  CaughtUp(t) /\ accidents \subseteq accidents' /\ more \subseteq accidents'
<1>1. "slow" \notin accidents'
  BY DEF OnTrack
<1> QED BY <1>1

(* A delay after which the session is still on track was long enough for   *)
(* the server to read what was sent.                                       *)
LEMMA PatientDelay ==
  ASSUME OnTrack', NEW t, NEW p, DelayEnds(t, p)
  PROVE  CaughtUp(t) /\ accidents' = accidents /\ At(t, p)
<1>1. "slow" \notin accidents'
  BY DEF OnTrack
<1>2. At(t, p) /\ Accident("slow", ~CaughtUp(t))
  BY DEF DelayEnds
<1> QED BY <1>1, <1>2 DEF Accident

(* The delay after the path of a compilation ends: SendName.               *)
LEMMA DoSendName ==
  ASSUME SessionGood, OnTrack', NEW t \in Tabs,
         SendName(t, "compile_path", "compile_name")
  PROVE  SessionGood'
<1> DEFINE v == View(t)
           w == View(t)'
           p == "compile_path"
           q == "compile_name"
<1>1. /\ p \in Positions \ {"bind", "accept", "board"} /\ q \in Places
      /\ q \in Positions \ Holds /\ p \in Positions
  BY DEF Positions, Holds, Reads, Places
<1>2. At(t, p) /\ CaughtUp(t) /\ accidents' = accidents
  BY PatientDelay DEF SendName
<1>3. /\ Goto(q) /\ up' = [up EXCEPT ![t] = Append(up[t], Name(t))]
      /\ UNCHANGED <<opened, deviceBox, dev, runnable, peer, bound, listenq, down,
                     backlog, thread, sim, simOut, simAck, asked, printed, shown>>
  BY DEF SendName, server, sims, history
<1>4. /\ Talk(t, p, v, accidents) /\ (asked[t] \in Devices => dev[t] \in Devices)
  BY <1>1, <1>2, Handles
<1>5. OnlyAt(up, up', t) /\ up'[t] = Append(up[t], Name(t))
  BY <1>3, Stand, Updated
<1>6. OnlyThis(t)
  BY <1>3, <1>5, Untouched DEF OnlyThis
<1>7. ListenGood' /\ PeerGood'
  BY <1>1, <1>2, <1>3, OtherHandlers
<1>8. Recorded' /\ SameBut(t)
  BY <1>3, Stand DEF Recorded, SameBut
<1>9. Steps(t, p, q, v, w, accidents')
  <2>1. SameThread(v, w) /\ SameSim(v, w) /\ SameNotes(v, w)
    BY <1>3, <1>8, Views
  <2>2. w.up = Append(v.up, Name(t)) /\ w.down = v.down
    <3>1. v.up = up[t] /\ w.up = up'[t] /\ v.down = down[t] /\ w.down = down'[t]
      BY ViewIs, ViewNext, Zenon
    <3> QED BY <1>3, <1>5, <3>1
  <2>3. v.up = <<>>
    BY <1>2, ViewIs DEF CaughtUp
  <2> HIDE DEF v, w
  <2> QED BY <1>2, <1>4, <2>1, <2>2, <2>3, RowName
<1> HIDE DEF p, q
<1> QED BY <1>1, <1>2, <1>3, <1>4, <1>6, <1>7, <1>8, <1>9, HandlerStep

(* The delay after the name of a compilation ends: SendDevice.             *)
LEMMA DoSendDevice ==
  ASSUME SessionGood, OnTrack', NEW t \in Tabs, SendDevice(t)
  PROVE  SessionGood'
<1> DEFINE v == View(t)
           w == View(t)'
           p == "compile_name"
           q == "compile_answer"
<1>1. /\ p \in Positions \ {"bind", "accept", "board"} /\ q \in Places
      /\ q \in Positions \ Holds /\ p \in Positions
  BY DEF Positions, Holds, Reads, Places
<1>2. /\ At(t, p) /\ Goto(q)
      /\ up' = [up EXCEPT ![t] = IF dev[t] = "" THEN up[t]
                                 ELSE Append(up[t], Device(dev[t]))]
      /\ asked' = [asked EXCEPT ![t] = dev[t]]
      /\ accidents' = accidents \cup (IF CaughtUp(t) THEN {} ELSE {"slow"})
                            \cup (IF dev[t] = "" THEN {"device"} ELSE {})
      /\ UNCHANGED <<opened, deviceBox, dev, runnable, peer, bound, listenq, down,
                     backlog, thread, sim, simOut, simAck, printed, shown>>
  BY DEF SendDevice, server, sims
<1>3. /\ CaughtUp(t) /\ accidents \subseteq accidents'
      /\ dev[t] = "" => "device" \in accidents'
  <2>1. /\ CaughtUp(t) /\ accidents \subseteq accidents'
        /\ (IF dev[t] = "" THEN {"device"} ELSE {}) \subseteq accidents'
    BY <1>2, Patient
  <2> QED BY <2>1
<1>4. Talk(t, p, v, accidents)
  BY <1>1, <1>2, Handles
<1>5. dev[t] \in Devices \cup {""}
  BY DEF SessionGood, SessionTypes
<1>6. /\ OnlyAt(up, up', t) /\ OnlyAt(asked, asked', t) /\ asked'[t] = dev[t]
      /\ up'[t] = IF dev[t] = "" THEN up[t] ELSE Append(up[t], Device(dev[t]))
  <2>1. OnlyAt(asked, asked', t) /\ asked'[t] = dev[t]
    BY <1>2, Stand, Updated
  <2> DEFINE x == IF dev[t] = "" THEN up[t] ELSE Append(up[t], Device(dev[t]))
  <2>2. up' = [up EXCEPT ![t] = x]
    BY <1>2
  <2> HIDE DEF x
  <2>3. OnlyAt(up, up', t) /\ up'[t] = x
    BY <2>2, Stand, Updated
  <2> QED BY <2>1, <2>3 DEF x
<1>7. OnlyThis(t)
  BY <1>2, <1>6, Untouched DEF OnlyThis
<1>8. ListenGood' /\ PeerGood'
  BY <1>1, <1>2, OtherHandlers
<1>9. SameBut(t)
  BY <1>2 DEF SameBut
<1>10. Recorded'
  <2>1. asked' \in [Tabs -> Devices \cup {""}]
    BY <1>2, <1>5, Stand DEF Recorded
  <2>2. printed' = printed /\ shown' = shown
    BY <1>2
  <2> QED BY <2>1, <2>2, Stand DEF Recorded
<1>11. Steps(t, p, q, v, w, accidents')
  <2>1. SameThread(v, w) /\ SameSim(v, w)
    BY <1>2, <1>9, Views
  <2>2. w.runs = v.runs
    <3>1. v.runs = (t \in runnable) /\ w.runs = (t \in runnable')
      BY ViewIs, ViewNext, Zenon
    <3>2. w.runs = (t \in runnable)
      BY <1>2, <3>1
    <3> QED BY <3>1, <3>2
  <2>3. w.shown = v.shown /\ w.printed = v.printed /\ w.down = v.down
    <3>1. shown' = shown /\ printed' = printed /\ down' = down
      BY <1>2
    <3>2. /\ v.shown = shown[t] /\ w.shown = shown'[t]
          /\ v.printed = printed[t] /\ w.printed = printed'[t]
          /\ v.down = down[t] /\ w.down = down'[t]
      BY ViewIs, ViewNext, Zenon
    <3> HIDE DEF v, w
    <3> QED BY <3>1, <3>2
  <2>4. v.up = <<>>
    BY <1>3, ViewIs DEF CaughtUp
  <2>5. \/ w.asked \in Devices /\ w.up = Append(v.up, Device(w.asked))
        \/ w.up = v.up /\ "device" \in accidents'
    <3>1. v.up = up[t] /\ w.up = up'[t] /\ w.asked = asked'[t]
      BY ViewIs, ViewNext, Zenon
    <3>2. CASE dev[t] = ""
      BY <1>3, <1>6, <3>1, <3>2
    <3>3. CASE dev[t] # ""
      BY <1>5, <1>6, <3>1, <3>3
    <3> QED BY <3>2, <3>3
  <2> HIDE DEF v, w
  <2>6. Talk(t, p, v, accidents')
    BY <1>3, <1>4, TalkGrows
  <2> QED BY <2>1, <2>2, <2>3, <2>4, <2>5, <2>6, RowDevice
<1> HIDE DEF p, q
<1> QED BY <1>1, <1>2, <1>3, <1>6, <1>7, <1>8, <1>10, <1>11, HandlerStep

(* The GUI reads the answer to a compilation: RecvCompiled.                *)
LEMMA DoRecvCompiled ==
  ASSUME SessionGood, NEW t \in Tabs, RecvCompiled(t)
  PROVE  SessionGood'
<1> DEFINE v == View(t)
           w == View(t)'
           p == "compile_answer"
           q == "compile_done"
<1>1. /\ p \in Positions \ {"bind", "accept", "board"} /\ q \in Places
      /\ q \in Positions \ Holds /\ p \in Positions
  BY DEF Positions, Holds, Reads, Places
<1>2. At(t, p)
  BY DEF RecvCompiled
<1>3. PICK k \in 1 .. Len(down[t]) :
        /\ down' = [down EXCEPT ![t] = Rest(down[t], k)]
        /\ Goto(IF Received(down[t], k)[1] = ACK
                THEN "compile_done" ELSE "compile_failed")
  BY DEF RecvCompiled
<1>4. UNCHANGED <<opened, deviceBox, dev, runnable, peer, bound, listenq, up, backlog,
                  thread, sim, simOut, simAck, asked, printed, shown, accidents>>
  BY DEF RecvCompiled, server, sims, history
<1>5. /\ Talk(t, p, v, accidents) /\ (asked[t] \in Devices => dev[t] \in Devices)
  BY <1>1, <1>2, Handles
<1>6. v.down # <<>>
  BY <1>3, Something, ViewIs
<1>7. down[t] = <<ACK>>
  <2>1. v.down = <<ACK>>
    <3> HIDE DEF v
    <3> QED BY <1>5, <1>6, AnswerCompiled
  <2> QED BY <2>1, ViewIs
<1>8. Received(down[t], k)[1] = ACK /\ Rest(down[t], k) = <<>>
  BY <1>7, Taken
<1>9. Goto(q) /\ OnlyAt(down, down', t) /\ down'[t] = <<>>
  BY <1>3, <1>8, Stand, Updated
<1>10. OnlyThis(t)
  BY <1>4, <1>9, Untouched DEF OnlyThis
<1>11. ListenGood' /\ PeerGood'
  BY <1>1, <1>2, <1>4, <1>9, OtherHandlers
<1>12. Recorded' /\ SameBut(t)
  BY <1>4, Stand DEF Recorded, SameBut
<1>13. Steps(t, p, q, v, w, accidents)
  <2>1. SameThread(v, w) /\ SameSim(v, w) /\ SameNotes(v, w)
    BY <1>4, <1>12, Views
  <2>2. w.up = v.up /\ w.down = <<>>
    <3>1. v.up = up[t] /\ w.up = up'[t] /\ w.down = down'[t]
      BY ViewIs, ViewNext, Zenon
    <3> QED BY <1>4, <1>9, <3>1
  <2> HIDE DEF v, w
  <2> QED BY <1>5, <1>6, <2>1, <2>2, RowCompiled
<1> HIDE DEF p, q
<1> QED BY <1>1, <1>2, <1>4, <1>5, <1>9, <1>10, <1>11, <1>12, <1>13, HandlerStep

(* The delay after the answer ends and the assembly is shown: ShowAssembly.*)
LEMMA DoShowAssembly ==
  ASSUME SessionGood, OnTrack', NEW t \in Tabs, ShowAssembly(t)
  PROVE  SessionGood'
<1> DEFINE v == View(t)
           w == View(t)'
           p == "compile_done"
           q == "free"
<1>1. /\ p \in Positions \ {"bind", "accept", "board"} /\ q \in Places
      /\ p \in Positions /\ "compile_failed" \in Positions
  BY DEF Positions, Places
<1>2. /\ At(t, p) /\ CaughtUp(t) /\ accidents' = accidents
  <2>1. /\ Top.at \in {"compile_done", "compile_failed"}
        /\ At(t, Top.at) /\ accidents' = accidents /\ CaughtUp(t)
    BY PatientDelay DEF ShowAssembly
  <2>2. Top.at # "compile_failed"
    <3> SUFFICES ASSUME Top.at = "compile_failed" PROVE FALSE
      OBVIOUS
    <3>1. Talk(t, "compile_failed", v, accidents)
      BY <1>1, <2>1, Handles
    <3> QED BY <3>1 DEF Talk
  <2> QED BY <2>1, <2>2
<1>3. /\ Return
      /\ runnable' = runnable \/ runnable' = runnable \cup {t}
      /\ UNCHANGED <<opened, deviceBox, dev, peer, bound, listenq, up, down, backlog,
                     thread, sim, simOut, simAck, asked, printed, shown>>
  BY DEF ShowAssembly, conns, server, sims, history
<1>4. /\ Talk(t, p, v, accidents) /\ (asked[t] \in Devices => dev[t] \in Devices)
  BY <1>1, <1>2, Handles
<1>5. OnlyThis(t)
  <2>1. \A u \in Tabs \ {t} : (u \in runnable') = (u \in runnable)
    BY <1>3
  <2> QED BY <1>3, <2>1, Untouched DEF OnlyThis
<1>6. ListenGood' /\ PeerGood'
  BY <1>1, <1>2, <1>3, OtherHandlers
<1>7. Recorded' /\ SameBut(t)
  BY <1>3, Stand DEF Recorded, SameBut
<1>8. Steps(t, p, q, v, w, accidents')
  <2>1. SameThread(v, w) /\ SameSim(v, w) /\ SameWire(v, w)
    BY <1>3, <1>7, Views
  <2>2. w.asked = v.asked /\ w.shown = v.shown /\ w.printed = v.printed
    BY <1>3, ViewIs, ViewNext
  <2> HIDE DEF v, w
  <2> QED BY <1>2, <1>4, <2>1, <2>2, RowCompileReturn
<1> HIDE DEF p
<1> QED BY <1>1, <1>2, <1>3, <1>4, <1>5, <1>6, <1>7, <1>8, HandlerStep

(* The delay after the path of a run ends: SendRunName.                    *)
LEMMA DoSendRunName ==
  ASSUME SessionGood, OnTrack', NEW t \in Tabs, SendRunName(t)
  PROVE  SessionGood'
<1> DEFINE v == View(t)
           w == View(t)'
           p == "run_path"
<1>1. /\ p \in Positions \ {"bind", "accept", "board"} /\ p \in Positions
      /\ {"bind", "board"} \subseteq Places
      /\ {"bind", "board"} \subseteq Positions \ Holds
  BY DEF Positions, Holds, Reads, Places
<1>2. /\ At(t, p) /\ Goto(OutputFrom(t))
      /\ up' = [up EXCEPT ![t] = Append(up[t], Name(t))]
      /\ UNCHANGED <<opened, deviceBox, dev, runnable, peer, bound, listenq, down,
                     backlog, thread, sim, simOut, simAck, asked, printed, shown>>
  BY DEF SendRunName, server, sims, history
<1>3. /\ CaughtUp(t) /\ accidents \subseteq accidents'
      /\ dev[t] # asked[t] => "device" \in accidents'
  <2>1. /\ CaughtUp(t) /\ accidents \subseteq accidents'
        /\ (IF dev[t] = asked[t] THEN {} ELSE {"device"}) \subseteq accidents'
    BY Patient DEF SendRunName
  <2> QED BY <2>1
<1>4. /\ Talk(t, p, v, accidents) /\ (asked[t] \in Devices => dev[t] \in Devices)
  BY <1>1, <1>2, Handles
<1>5. asked[t] \in Devices
  <2>1. v.asked \in Devices
    <3> HIDE DEF v
    <3> QED BY <1>4 DEF Talk, RunPathRow, Chosen
  <2> QED BY <2>1, ViewIs
<1>6. PICK q : /\ q = OutputFrom(t) /\ q \in {"bind", "board"}
               /\ \/ q = "bind" /\ dev[t] = "Or1ksim"
                  \/ q = "board" /\ dev[t] = "VEX_T2"
  BY <1>4, <1>5 DEF OutputFrom, Devices
<1>7. OnlyAt(up, up', t) /\ up'[t] = Append(up[t], Name(t))
  BY <1>2, Stand, Updated
<1>8. OnlyThis(t)
  BY <1>2, <1>7, Untouched DEF OnlyThis
<1>9. ListenGood' /\ PeerGood'
  BY <1>1, <1>2, <1>6, OtherHandlers
<1>10. Recorded' /\ SameBut(t)
  BY <1>2, Stand DEF Recorded, SameBut
<1>11. Steps(t, p, q, v, w, accidents')
  <2>1. SameThread(v, w) /\ SameSim(v, w) /\ SameNotes(v, w)
    BY <1>2, <1>10, Views
  <2>2. w.up = Append(v.up, Name(t)) /\ w.down = v.down
    <3>1. v.up = up[t] /\ w.up = up'[t] /\ v.down = down[t] /\ w.down = down'[t]
      BY ViewIs, ViewNext, Zenon
    <3> QED BY <1>2, <1>7, <3>1
  <2>3. v.up = <<>>
    BY <1>3, ViewIs DEF CaughtUp
  <2>4. v.asked = dev[t] \/ "device" \in accidents'
    BY <1>3, ViewIs
  <2> HIDE DEF v, w
  <2>5. Talk(t, p, v, accidents')
    BY <1>3, <1>4, TalkGrows
  <2> QED BY <1>6, <2>1, <2>2, <2>3, <2>4, <2>5, RowRunName
<1> HIDE DEF p
<1> QED BY <1>1, <1>2, <1>3, <1>4, <1>6, <1>8, <1>9, <1>10, <1>11, HandlerStep

(* The GUI listens on port 7777: Bind.                                     *)
LEMMA DoBind ==
  ASSUME SessionGood, NEW t \in Tabs, Bind(t)
  PROVE  SessionGood'
<1> DEFINE v == View(t)
           w == View(t)'
<1>1. /\ "bind" \in Positions /\ "accept" \in Positions /\ "accept" \in Places
      /\ "bind" \in Places
  BY DEF Positions, Places
<1>2. /\ At(t, "bind")
      /\ IF bound THEN UNCHANGED <<stack, bound>> ELSE Goto("accept") /\ bound'
      /\ UNCHANGED <<opened, deviceBox, dev, runnable, peer, listenq, up, down,
                     backlog, thread, sim, simOut, simAck, asked, printed, shown>>
  BY DEF Bind, conns, server, sims, history
<1>3. accidents \subseteq accidents'
  BY DEF Bind, Accident
<1>4. /\ Talk(t, "bind", v, accidents)
      /\ asked[t] \in Devices => dev[t] \in Devices
  BY <1>1, <1>2, Handles
<1>5. OnlyThis(t) /\ Recorded'
  BY <1>2, Stand, Untouched DEF OnlyThis, Recorded
<1>6. w = v
  BY <1>2 DEF View
<1>7. stack # <<>> /\ stack[Len(stack)].tab = t /\ stack[Len(stack)].at = "bind"
  BY <1>2 DEF At, Top, Last
<1>8. Talk(t, "bind", v, accidents')
  <2> HIDE DEF v
  <2> QED BY <1>3, <1>4, TalkGrows
<1>9. CASE bound
  <2>1. stack' = stack /\ bound' = bound
    BY <1>2, <1>9
  <2>2. Steps(t, "bind", "bind", v, w, accidents')
    BY <1>6, <1>8 DEF Steps
  <2>3. ListenGood' /\ PeerGood'
    BY <1>2, <2>1 DEF SessionGood, ListenGood, PeerGood
  <2> HIDE DEF v, w
  <2> QED BY <1>1, <1>2, <1>3, <1>4, <1>5, <2>1, <2>2, <2>3, HandlerStep DEF v, w
<1>10. CASE ~bound
  <2>1. Goto("accept") /\ bound'
    BY <1>2, <1>10
  <2>2. Steps(t, "bind", "accept", v, w, accidents')
    BY <1>6, <1>8, RowBind
  <2>3. /\ Where(stack', t, "accept") /\ stack' \in Seq(Frames) /\ OneEach(stack')
        /\ \A u \in Tabs \ {t}, r \in Places :
             Where(stack', u, r) <=> Where(stack, u, r)
    BY <1>1, <1>2, <2>1, StackStep DEF StackGood, OneEach
  <2>4. ListenGood'
    <3>1. CASE listenq = <<>>
      BY <1>2, <3>1 DEF ListenGood
    <3>2. CASE listenq # <<>>
      <4>1. listenq = <<t>> /\ Listens(t)
        BY <1>7, <3>2, ListenTop
      <4> QED BY <1>2, <2>3, <4>1 DEF ListenGood, Listens
    <3> QED BY <3>1, <3>2
  <2>5. PeerGood'
    <3>1. /\ PeerGood /\ Holds \subseteq Places /\ Reads \subseteq Holds
          /\ "accept" \notin Reads
      BY DEF SessionGood, Holds, Reads, Places, Positions
    <3>2. ASSUME NEW u \in Tabs, NEW r \in Holds, Where(stack', u, r)
          PROVE  u = t /\ r = "accept"
      <4>1. CASE u # t
        <5>1. Where(stack, u, r)
          BY <2>3, <3>1, <3>2, <4>1
        <5> QED BY <1>10, <3>1, <5>1 DEF PeerGood
      <4>2. CASE u = t
        BY <2>3, <3>2, <4>2, OnePlace
      <4> QED BY <4>1, <4>2
    <3> QED BY <2>1, <3>1, <3>2 DEF PeerGood
  <2> HIDE DEF v, w
  <2> QED BY <1>1, <1>2, <1>3, <1>4, <1>5, <2>1, <2>2, <2>4, <2>5, HandlerStep
          DEF v, w
<1> QED BY <1>9, <1>10

(* The GUI accepts the simulator: AcceptSim.                               *)
LEMMA DoAcceptSim ==
  ASSUME SessionGood, NEW t \in Tabs, AcceptSim(t)
  PROVE  SessionGood'
<1> DEFINE v == View(t)
           w == View(t)'
<1>1. /\ "accept" \in Positions /\ "simulator" \in Positions
      /\ "accept" \in Places /\ "simulator" \in Places
  BY DEF Positions, Places
<1>2. /\ At(t, "accept") /\ listenq # <<>> /\ Goto("simulator")
      /\ peer' = Head(listenq) /\ listenq' = Tail(listenq)
      /\ UNCHANGED <<opened, deviceBox, dev, runnable, bound, up, down, backlog, thread,
                     sim, simOut, simAck, asked, printed, shown, accidents>>
  BY DEF AcceptSim, conns, server, sims, history
<1>3. /\ Talk(t, "accept", v, accidents)
      /\ asked[t] \in Devices => dev[t] \in Devices
  BY <1>1, <1>2, Handles
<1>4. OnlyThis(t) /\ Recorded'
  BY <1>2, Stand, Untouched DEF OnlyThis, Recorded
<1>5. w = v
  BY <1>2 DEF View
<1>6. stack # <<>> /\ stack[Len(stack)].tab = t /\ stack[Len(stack)].at = "accept"
  BY <1>2 DEF At, Top, Last
<1>7. listenq = <<t>> /\ Listens(t)
  BY <1>2, <1>6, ListenTop
<1>8. peer' = t /\ listenq' = <<>>
  BY <1>2, <1>7, ReceiveOne
<1>9. Steps(t, "accept", "simulator", v, w, accidents)
  <2>1. /\ v.phase \in {"simulate", "command"} /\ v.asked = "Or1ksim"
        /\ v.sim \in {"run", "ack", "gone"}
    BY <1>7, ViewIs DEF Listens
  <2> HIDE DEF v, w
  <2> QED BY <1>3, <1>5, <2>1, RowAccept
<1>10. ListenGood'
  BY <1>8 DEF ListenGood
<1>11. PeerGood'
  <2>1. /\ PeerGood /\ Holds \subseteq Places /\ Reads \subseteq Holds
        /\ "accept" \in Holds /\ Where(stack, t, "accept")
    BY <1>1, <1>2, Handles DEF SessionGood, Holds, Reads, Places, Positions
  <2>2. bound'
    BY <1>2, <2>1 DEF PeerGood
  <2>3. ASSUME NEW u \in Tabs, NEW r \in Holds, Where(stack', u, r) PROVE u = t
    <3>1. u # t => Where(stack, u, r)
      BY <1>1, <1>2, <2>1, <2>3, StackStep
    <3> QED BY <2>1, <3>1 DEF PeerGood
  <2> QED BY <1>8, <2>1, <2>2, <2>3 DEF PeerGood
<1> HIDE DEF v, w
<1> QED BY <1>1, <1>2, <1>3, <1>4, <1>9, <1>10, <1>11, HandlerStep DEF v, w

(* The GUI reads from the simulator: recvFromOr1ksim.                      *)
LEMMA DorecvFromOr1ksim ==
  ASSUME SessionGood, NEW t \in Tabs, NEW isVisible \in BOOLEAN,
         recvFromOr1ksim(t, isVisible)
  PROVE  SessionGood'
<1> DEFINE v == View(t)
           w == View(t)'
           p == "simulator"
           q == "simulator_shown"
<1>1. /\ p \in Positions \ {"bind", "accept", "board"} /\ p \in Places
      /\ q \in Positions /\ q \in Places /\ p \in Reads /\ q \in Reads
      /\ "run_done" \in Positions \ Holds /\ "run_done" \in Places
      /\ "run_done" \in Positions /\ p \in Positions
  BY DEF Positions, Holds, Reads, Places
<1>2. At(t, p)
  BY DEF recvFromOr1ksim
<1>3. /\ Talk(t, p, v, accidents) /\ (asked[t] \in Devices => dev[t] \in Devices)
      /\ Where(stack, t, p)
  BY <1>1, <1>2, Handles
<1>4. peer = t
  BY <1>3, PeerTop
<1>5. UNCHANGED <<opened, deviceBox, dev, runnable, peer, bound, listenq, up, down,
                  backlog, thread, sim, asked, printed>>
  BY DEF recvFromOr1ksim, conns, server
<1>6. Recorded /\ Printable(v) /\ SameBut(t)
  BY <1>5, Stand DEF SameBut
<1>7. SameThread(v, w) /\ SameWire(v, w)
  BY <1>5, <1>6, Views
<1>8. /\ v.asked = asked[t] /\ w.asked = asked'[t] /\ v.printed = printed[t]
      /\ w.printed = printed'[t] /\ v.sim = sim[t] /\ w.sim = sim'[t]
      /\ v.shown = shown[t] /\ w.shown = shown'[t] /\ v.out = simOut[t]
      /\ w.out = simOut'[t] /\ v.ack = simAck[t] /\ w.ack = simAck'[t]
  BY ViewIs, ViewNext, Zenon
<1>9. CASE /\ simOut[t] # <<>> /\ Head(simOut[t]) # NUL
           /\ shown' = [shown EXCEPT ![t] = shown[t] \o <<Head(simOut[t])>>]
           /\ simOut' = [simOut EXCEPT ![t] = <<>>]
           /\ simAck' = [simAck EXCEPT ![t] = simAck[t]]
           /\ Goto(q) /\ UNCHANGED accidents
  <2>1. PICK c \in Nat : simOut[t] = <<c>>
    <3>1. v.out # <<>>
      BY <1>8, <1>9
    <3>2. \E c \in Nat : v.out = <<c>>
      <4> HIDE DEF v
      <4> QED BY <1>3, <3>1, SimulatorOut
    <3> QED BY <1>8, <3>2
  <2>2. Head(simOut[t]) = c
    BY <2>1, ReceiveOne, Zenon
  <2>3. /\ OnlyAt(shown, shown', t) /\ shown'[t] = Append(shown[t], c)
        /\ OnlyAt(simOut, simOut', t) /\ simOut'[t] = <<>>
        /\ OnlyAt(simAck, simAck', t) /\ simAck'[t] = simAck[t]
    <3>1. /\ t \in DOMAIN shown /\ t \in DOMAIN simOut /\ t \in DOMAIN simAck
      BY Stand
    <3>2. shown' = [shown EXCEPT ![t] = Append(shown[t], c)]
      <4>1. shown[t] \in Seq(Nat)
        BY <1>6 DEF Recorded
      <4>2. shown' = [shown EXCEPT ![t] = shown[t] \o <<c>>]
        BY <1>9, <2>2, Zenon
      <4>3. shown[t] \o <<c>> = Append(shown[t], c)
        BY <2>1, <4>1
      <4> QED BY <4>2, <4>3, Zenon
    <3>3. OnlyAt(shown, shown', t) /\ shown'[t] = Append(shown[t], c)
      BY <3>1, <3>2, Updated
    <3>4. OnlyAt(simOut, simOut', t) /\ simOut'[t] = <<>>
      BY <1>9, <3>1, Updated
    <3>5. OnlyAt(simAck, simAck', t) /\ simAck'[t] = simAck[t]
      BY <1>9, <3>1, Updated
    <3> QED BY <3>3, <3>4, <3>5
  <2>4. OnlyThis(t)
    BY <1>5, <2>3, Untouched DEF OnlyThis
  <2>5. Recorded'
    <3>1. Append(shown[t], c) \in Seq(Nat) /\ shown \in [Tabs -> Seq(Nat)]
      <4>1. shown \in [Tabs -> Seq(Nat)]
        BY <1>6 DEF Recorded
      <4>2. shown[t] \in Seq(Nat)
        BY <4>1
      <4>3. Append(shown[t], c) \in Seq(Nat)
        BY <2>1, <4>2
      <4> QED BY <4>1, <4>3
    <3>2. shown' = [shown EXCEPT ![t] = Append(shown[t], c)]
      <4>1. shown[t] \in Seq(Nat)
        BY <1>6 DEF Recorded
      <4>2. shown' = [shown EXCEPT ![t] = shown[t] \o <<c>>]
        BY <1>9, <2>2, Zenon
      <4>3. shown[t] \o <<c>> = Append(shown[t], c)
        BY <2>1, <4>1
      <4> QED BY <4>2, <4>3, Zenon
    <3>3. shown' \in [Tabs -> Seq(Nat)]
      BY <3>1, <3>2
    <3> QED BY <1>5, <1>6, <3>3 DEF Recorded
  <2>6. Steps(t, p, q, v, w, accidents)
    <3>1. /\ w.asked = v.asked /\ w.printed = v.printed /\ w.sim = v.sim
          /\ w.shown = Append(v.shown, c) /\ w.ack = v.ack
      <4> HIDE DEF v, w
      <4> QED BY <1>5, <1>8, <2>3
    <3>2. w.out = <<>> /\ v.out = <<c>>
      <4> HIDE DEF v, w
      <4> QED BY <1>8, <2>1, <2>3
    <3> HIDE DEF v, w
    <3> QED BY <1>3, <1>6, <1>7, <3>1, <3>2, RowShow
  <2>7. ListenGood' /\ PeerGood'
    BY <1>1, <1>2, <1>5, <1>9, OtherHandlers
  <2> HIDE DEF v, w, p, q
  <2> QED BY <1>1, <1>2, <1>3, <1>5, <1>9, <2>4, <2>5, <2>6, <2>7, HandlerStep
          DEF v, w
<1>11. CASE /\ simOut[t] # <<>> /\ Head(simOut[t]) # NUL
            /\ simOut' = [simOut EXCEPT ![t] = <<>>]
            /\ simAck' = [simAck EXCEPT ![t] = simAck[t] + 1]
            /\ Accident("hidden", TRUE) /\ UNCHANGED <<stack, shown>>
  <2>1. accidents \subseteq accidents' /\ "hidden" \in accidents'
    BY <1>11 DEF Accident
  <2>2. /\ OnlyAt(simOut, simOut', t) /\ simOut'[t] = <<>>
        /\ OnlyAt(simAck, simAck', t) /\ simAck'[t] = simAck[t] + 1
    BY <1>11, Stand, Updated
  <2>3. OnlyThis(t) /\ Recorded'
    BY <1>5, <1>6, <1>11, <2>2, Untouched DEF OnlyThis, Recorded
  <2>4. Steps(t, p, p, v, w, accidents')
    <3>1. /\ w.asked = v.asked /\ w.sim = v.sim /\ w.ack = v.ack + 1
          /\ w.out = <<>> /\ v.out # <<>>
      <4> HIDE DEF v, w
      <4> QED BY <1>5, <1>8, <1>11, <2>2
    <3> HIDE DEF v, w
    <3>2. Talk(t, p, v, accidents')
      BY <1>3, <2>1, TalkGrows
    <3> QED BY <1>7, <2>1, <3>1, <3>2, RowHide
  <2>5. ListenGood' /\ PeerGood'
    BY <1>1, <1>2, <1>5, <1>11, OtherHandlers
  <2> HIDE DEF v, w, p, q
  <2> QED BY <1>1, <1>2, <1>3, <1>5, <1>11, <2>1, <2>3, <2>4, <2>5, HandlerStep
          DEF v, w
<1>10. CASE /\ IF simOut[t] # <<>> THEN Head(simOut[t]) = NUL ELSE sim[t] = "gone"
            /\ simOut' = [simOut EXCEPT ![t] = <<>>]
            /\ Goto("run_done") /\ UNCHANGED <<simAck, shown, accidents>>
  <2>1. v.out = <<NUL>> \/ (v.out = <<>> /\ v.sim = "gone")
    <3>1. CASE simOut[t] # <<>>
      <4>1. v.out # <<>>
        BY <1>8, <3>1
      <4>2. PICK c \in Nat : v.out = <<c>>
        <5> HIDE DEF v
        <5> QED BY <1>3, <4>1, SimulatorOut
      <4>3. Head(v.out) = c
        <5> HIDE DEF v
        <5> QED BY <4>2, ReceiveOne, Zenon
      <4>4. Head(v.out) = NUL
        <5> HIDE DEF v
        <5> QED BY <1>8, <1>10, <3>1
      <4> HIDE DEF v
      <4> QED BY <4>2, <4>3, <4>4
    <3>2. CASE simOut[t] = <<>>
      <4> HIDE DEF v
      <4> QED BY <1>8, <1>10, <3>2
    <3> QED BY <3>1, <3>2
  <2>2. OnlyAt(simOut, simOut', t) /\ simOut'[t] = <<>>
    BY <1>10, Stand, Updated
  <2>3. OnlyThis(t) /\ Recorded'
    BY <1>5, <1>6, <1>10, <2>2, Untouched DEF OnlyThis, Recorded
  <2>4. Steps(t, p, "run_done", v, w, accidents)
    <3>1. SameNotes(v, w)
      BY <1>5, <1>10, Views
    <3>2. w.sim = v.sim /\ w.ack = v.ack
      <4> HIDE DEF v, w
      <4> QED BY <1>5, <1>8, <1>10
    <3>3. w.out = <<>>
      <4> HIDE DEF v, w
      <4> QED BY <1>8, <2>2
    <3> HIDE DEF v, w
    <3> QED BY <1>3, <1>7, <2>1, <3>1, <3>2, <3>3, RowSimDone
  <2>5. ListenGood' /\ PeerGood'
    BY <1>1, <1>2, <1>5, <1>10, OtherHandlers
  <2> HIDE DEF v, w, p, q
  <2> QED BY <1>1, <1>2, <1>3, <1>5, <1>10, <2>3, <2>4, <2>5, HandlerStep
          DEF v, w
<1>12. /\ [simAck EXCEPT ![t] = IF TRUE THEN @ ELSE @ + 1]
            = [simAck EXCEPT ![t] = simAck[t]]
       /\ [simAck EXCEPT ![t] = IF FALSE THEN @ ELSE @ + 1]
            = [simAck EXCEPT ![t] = simAck[t] + 1]
  OBVIOUS
<1>13. CASE isVisible = TRUE
  BY <1>4, <1>9, <1>10, <1>12, <1>13 DEF recvFromOr1ksim, setData
<1>14. CASE isVisible = FALSE
  BY <1>4, <1>10, <1>11, <1>12, <1>14 DEF recvFromOr1ksim, setData
<1> QED BY <1>13, <1>14

(* setData has returned, and the character is acknowledged: AckSim.        *)
LEMMA DoAckSim ==
  ASSUME SessionGood, NEW t \in Tabs, AckSim(t)
  PROVE  SessionGood'
<1> DEFINE v == View(t)
           w == View(t)'
           p == "simulator_shown"
           q == "simulator"
<1>1. /\ p \in Positions \ {"bind", "accept", "board"} /\ p \in Positions
      /\ q \in Positions /\ q \in Places /\ p \in Reads /\ q \in Reads
  BY DEF Positions, Places, Reads
<1>2. At(t, p) /\ Goto(q)
  BY DEF AckSim
<1>3. /\ Talk(t, p, v, accidents) /\ (asked[t] \in Devices => dev[t] \in Devices)
      /\ Where(stack, t, p)
  BY <1>1, <1>2, Handles
<1>4. peer = t
  BY <1>1, <1>3 DEF SessionGood, PeerGood
<1>5. /\ simAck' = [simAck EXCEPT ![t] = simAck[t] + 1]
      /\ UNCHANGED <<opened, deviceBox, dev, runnable, peer, bound, listenq, up,
                     down, backlog, thread, sim, simOut, asked, printed, shown,
                     accidents>>
  BY <1>4 DEF AckSim, conns, server, history
<1>6. Recorded /\ SameBut(t)
  BY <1>5, Stand DEF SameBut
<1>7. OnlyAt(simAck, simAck', t) /\ simAck'[t] = simAck[t] + 1
  BY <1>5, Stand, Updated
<1>8. OnlyThis(t) /\ Recorded'
  BY <1>5, <1>6, <1>7, Untouched DEF OnlyThis, Recorded
<1>9. Steps(t, p, q, v, w, accidents)
  <2>1. SameThread(v, w) /\ SameWire(v, w) /\ SameNotes(v, w)
    BY <1>5, <1>6, Views
  <2>2. /\ v.sim = sim[t] /\ w.sim = sim'[t] /\ v.out = simOut[t]
        /\ w.out = simOut'[t] /\ v.ack = simAck[t] /\ w.ack = simAck'[t]
    BY ViewIs, ViewNext, Zenon
  <2> HIDE DEF v, w
  <2>3. w.sim = v.sim /\ w.out = v.out /\ w.ack = v.ack + 1
    BY <1>5, <1>7, <2>2
  <2> QED BY <1>3, <2>1, <2>3, RowAckSim
<1>10. ListenGood' /\ PeerGood'
  BY <1>1, <1>2, <1>5, OtherHandlers
<1> HIDE DEF v, w, p, q
<1> QED BY <1>1, <1>2, <1>3, <1>5, <1>8, <1>9, <1>10, HandlerStep DEF v, w

(* A handler that waits for a board has no simulator.                      *)
LEMMA BoardAlone ==
  ASSUME SessionGood, NEW t \in Tabs, At(t, "board"), asked[t] = "VEX_T2"
  PROVE  listenq = <<>>
<1> SUFFICES ASSUME listenq # <<>> PROVE FALSE
  OBVIOUS
<1>1. stack # <<>> /\ stack[Len(stack)].tab = t
  BY DEF At, Top, Last
<1>2. Listens(t)
  BY <1>1, ListenTop
<1> QED BY <1>2 DEF Listens

(* ... and may go to any place where the simulator is not read.            *)
LEMMA BoardMoves ==
  ASSUME SessionGood, NEW t \in Tabs, At(t, "board"), asked[t] = "VEX_T2",
         NEW q \in {"board", "board_shown", "run_done"},
         Goto(q) \/ (q = "board" /\ stack' = stack),
         UNCHANGED <<listenq, peer, bound>>
  PROVE  ListenGood' /\ PeerGood'
<1>1. ListenGood'
  BY BoardAlone DEF ListenGood
<1>2. /\ "board" \in Positions /\ "board" \in Places /\ q \in Positions
      /\ q \in Places /\ q \notin Holds /\ q \notin Reads
  BY DEF Positions, Places, Holds, Reads
<1>3. /\ Where(stack, t, "board") /\ Where(stack', t, q)
      /\ stack' \in Seq(Frames) /\ OneEach(stack')
      /\ \A x \in Tabs \ {t}, r \in Places :
           Where(stack', x, r) <=> Where(stack, x, r)
  BY <1>2, StackStep DEF StackGood, OneEach
<1> QED BY <1>1, <1>2, <1>3, PeerKept

(* The GUI reads a line of the board: RecvFromBoard.                       *)
LEMMA DoRecvFromBoard ==
  ASSUME SessionGood, NEW t \in Tabs, NEW isVisible \in BOOLEAN,
         RecvFromBoard(t, isVisible)
  PROVE  SessionGood'
<1> DEFINE v == View(t)
           w == View(t)'
           p == "board"
           q == "run_done"
           x == "board_shown"
<1>1. /\ p \in Positions /\ p \in Places /\ q \in Positions /\ q \in Places
      /\ x \in Positions /\ x \in Places
  BY DEF Positions, Places
<1>2. At(t, p)
  BY DEF RecvFromBoard
<1>3. PICK k \in 1 .. Len(down[t]) :
        LET reply == Received(down[t], k)[1] IN
        /\ down' = [down EXCEPT ![t] = Rest(down[t], k)]
        /\ CASE reply = END -> Goto(q) /\ UNCHANGED <<up, shown, accidents>>
             [] reply = ACK ->
                  /\ up' = [up EXCEPT ![t] = Append(@, ACK)]
                  /\ UNCHANGED <<stack, shown, accidents>>
             [] OTHER ->
                  IF CString(reply[2]) = <<>>
                  THEN Goto(q) /\ UNCHANGED <<up, shown, accidents>>
                  ELSE /\ setData(t, isVisible, CString(reply[2]), x)
                       /\ up' = IF isVisible THEN up
                                ELSE [up EXCEPT ![t] = Append(@, ACK)]
  BY DEF RecvFromBoard
<1>4. UNCHANGED <<opened, deviceBox, dev, runnable, peer, bound, listenq, backlog,
                  thread, sim, simOut, simAck, asked, printed>>
  BY DEF RecvFromBoard, server, sims
<1>5. /\ Talk(t, p, v, accidents) /\ (asked[t] \in Devices => dev[t] \in Devices)
      /\ Where(stack, t, p)
  BY <1>1, <1>2, Handles
<1>6. /\ v.down = down[t] /\ w.down = down'[t] /\ v.up = up[t] /\ w.up = up'[t]
      /\ v.shown = shown[t] /\ w.shown = shown'[t] /\ v.line = thread[t].line
      /\ v.asked = asked[t] /\ w.asked = asked'[t]
      /\ v.printed = printed[t] /\ w.printed = printed'[t]
  BY ViewIs, ViewNext, Zenon
<1>7. v.down # <<>>
  <2>1. down[t] # <<>>
    BY <1>3, Something
  <2> HIDE DEF v
  <2> QED BY <1>6, <2>1
<1>8. /\ OnBoard(t, v)
      /\ v.down = <<Line(v.line)>> \/ v.down = <<END>>
  <2> HIDE DEF v
  <2> QED BY <1>5, <1>7, BoardReplies
<1>9. Recorded /\ Printable(v) /\ SameBut(t)
  BY <1>4, Stand DEF SameBut
<1>10. SameThread(v, w) /\ SameSim(v, w)
  BY <1>4, <1>9, Views
<1>11. asked[t] = "VEX_T2"
  <2> HIDE DEF v
  <2> QED BY <1>6, <1>8 DEF OnBoard
<1>12. ASSUME Rest(down[t], k) = <<>>
       PROVE  OnlyAt(down, down', t) /\ down'[t] = <<>>
  BY <1>3, <1>12, Stand, Updated
<1>13. CASE v.down = <<END>>
  <2>1. down[t] = <<END>>
    <3> HIDE DEF v
    <3> QED BY <1>6, <1>13
  <2>2. Received(down[t], k)[1] = END /\ Rest(down[t], k) = <<>>
    BY <2>1, Taken
  <2>3. /\ Goto(q) /\ UNCHANGED <<up, shown, accidents>>
        /\ OnlyAt(down, down', t) /\ down'[t] = <<>>
    <3>1. OnlyAt(down, down', t) /\ down'[t] = <<>>
      BY <1>12, <2>2
    <3>2. Goto(q) /\ UNCHANGED <<up, shown, accidents>>
      <4>1. END # ACK
        BY DEF END, ACK
      <4>2. Received(down[t], k)[1] = END
        BY <2>2
      <4> QED BY <1>3, <4>1, <4>2
    <3> QED BY <3>1, <3>2
  <2>4. OnlyThis(t) /\ Recorded'
    BY <1>4, <1>9, <2>3, Untouched DEF OnlyThis, Recorded
  <2>5. Steps(t, p, q, v, w, accidents)
    <3>1. SameNotes(v, w)
      BY <1>4, <2>3, Views
    <3>2. w.up = v.up /\ w.down = <<>>
      <4> HIDE DEF v, w
      <4> QED BY <1>6, <2>3
    <3> HIDE DEF v, w
    <3> QED BY <1>5, <1>10, <1>13, <3>1, <3>2, RowBoardDone
  <2>6. ListenGood' /\ PeerGood'
    BY <1>2, <1>4, <1>11, <2>3, BoardMoves
  <2> HIDE DEF v, w, p, q, x
  <2> QED BY <1>1, <1>2, <1>4, <1>5, <2>3, <2>4, <2>5, <2>6, HandlerStep
          DEF v, w
<1>14. CASE v.down = <<Line(v.line)>>
  <2>1. PICK s : s = thread[t].line /\ down[t] = <<Line(s)>> /\ v.line = s
    <3> HIDE DEF v
    <3> QED BY <1>6, <1>14
  <2>2. Received(down[t], k)[1] = Line(s) /\ Rest(down[t], k) = <<>>
    BY <2>1, Taken
  <2>3. Line(s) # END /\ Line(s) # ACK /\ Line(s)[2] = s
    BY Segments
  <2>4. OnlyAt(down, down', t) /\ down'[t] = <<>>
    BY <1>12, <2>2
  <2>5. IF CString(s) = <<>>
        THEN Goto(q) /\ UNCHANGED <<up, shown, accidents>>
        ELSE /\ setData(t, isVisible, CString(s), x)
             /\ up' = IF isVisible THEN up
                      ELSE [up EXCEPT ![t] = Append(up[t], ACK)]
    BY <1>3, <2>2, <2>3
  <2>6. CASE CString(s) = <<>>
    <3>1. Goto(q) /\ UNCHANGED <<up, shown, accidents>>
      BY <2>5, <2>6
    <3>2. OnlyThis(t) /\ Recorded'
      BY <1>4, <1>9, <2>4, <3>1, Untouched DEF OnlyThis, Recorded
    <3>3. Steps(t, p, q, v, w, accidents)
      <4>1. SameNotes(v, w)
        BY <1>4, <3>1, Views
      <4>2. w.up = v.up /\ w.down = <<>>
        <5> HIDE DEF v, w
        <5> QED BY <1>6, <2>4, <3>1
      <4> HIDE DEF v, w
      <4> QED BY <1>5, <1>10, <1>14, <4>1, <4>2, RowBoardNul
    <3>4. ListenGood' /\ PeerGood'
      BY <1>2, <1>4, <1>11, <3>1, BoardMoves
    <3> HIDE DEF v, w, p, q, x
    <3> QED BY <1>1, <1>2, <1>4, <1>5, <3>1, <3>2, <3>3, <3>4, HandlerStep
            DEF v, w
  <2>7. CASE CString(s) # <<>> /\ isVisible = TRUE
    <3>1. /\ shown' = [shown EXCEPT ![t] = shown[t] \o CString(s)]
          /\ Goto(x) /\ UNCHANGED <<up, accidents>>
      BY <2>5, <2>7 DEF setData
    <3>2. OnlyAt(shown, shown', t) /\ shown'[t] = shown[t] \o CString(s)
      BY <3>1, Stand, Updated
    <3>3. OnlyThis(t)
      BY <1>4, <2>4, <3>1, <3>2, Untouched DEF OnlyThis
    <3>4. Recorded'
      <4>1. shown \in [Tabs -> Seq(Nat)] /\ s \in Seq(Nat)
        <5>1. Typed(t)
          BY Stand
        <5> QED BY <1>9, <2>1, <5>1 DEF Recorded, Typed
      <4>2. shown[t] \in Seq(Nat) /\ CString(s) \in Seq(Nat)
        BY <4>1, CStringIs
      <4>3. shown[t] \o CString(s) \in Seq(Nat)
        BY <4>2
      <4>4. shown' \in [Tabs -> Seq(Nat)]
        BY <3>1, <4>1, <4>3
      <4> QED BY <1>4, <1>9, <4>4 DEF Recorded
    <3>5. Steps(t, p, x, v, w, accidents)
      <4>1. /\ w.asked = v.asked /\ w.printed = v.printed
            /\ w.shown = v.shown \o CString(v.line) /\ w.up = v.up
        <5> HIDE DEF v, w
        <5> QED BY <1>4, <1>6, <2>1, <3>1, <3>2
      <4>2. w.down = <<>>
        <5> HIDE DEF v, w
        <5> QED BY <1>6, <2>4
      <4> HIDE DEF v, w
      <4> QED BY <1>5, <1>9, <1>10, <1>14, <4>1, <4>2, RowBoardShow
    <3>6. ListenGood' /\ PeerGood'
      BY <1>2, <1>4, <1>11, <3>1, BoardMoves
    <3> HIDE DEF v, w, p, q, x
    <3> QED BY <1>1, <1>2, <1>4, <1>5, <3>1, <3>3, <3>4, <3>5, <3>6, HandlerStep
            DEF v, w
  <2>8. CASE CString(s) # <<>> /\ isVisible = FALSE
    <3>1. /\ up' = [up EXCEPT ![t] = Append(up[t], ACK)]
          /\ Accident("hidden", TRUE) /\ UNCHANGED <<stack, shown>>
      BY <2>5, <2>8 DEF setData
    <3>2. accidents \subseteq accidents' /\ "hidden" \in accidents'
      BY <3>1 DEF Accident
    <3>3. OnlyAt(up, up', t) /\ up'[t] = Append(up[t], ACK)
      BY <3>1, Stand, Updated
    <3>4. OnlyThis(t) /\ Recorded'
      BY <1>4, <1>9, <2>4, <3>1, <3>3, Untouched DEF OnlyThis, Recorded
    <3>5. Steps(t, p, p, v, w, accidents')
      <4>1. w.asked = v.asked /\ w.up = Append(v.up, ACK) /\ w.down = <<>>
        <5> HIDE DEF v, w
        <5> QED BY <1>4, <1>6, <2>4, <3>3
      <4> HIDE DEF v, w
      <4>2. Talk(t, p, v, accidents')
        BY <1>5, <3>2, TalkGrows
      <4> QED BY <1>10, <1>14, <3>2, <4>1, <4>2, RowBoardHide
    <3>6. ListenGood' /\ PeerGood'
      BY <1>2, <1>4, <1>11, <3>1, BoardMoves
    <3> HIDE DEF v, w, p, q, x
    <3> QED BY <1>1, <1>2, <1>4, <1>5, <3>1, <3>2, <3>4, <3>5, <3>6, HandlerStep
            DEF v, w
  <2> QED BY <2>6, <2>7, <2>8
<1> QED BY <1>8, <1>13, <1>14

(* setData has returned, and the line is acknowledged: AckBoard.           *)
LEMMA DoAckBoard ==
  ASSUME SessionGood, NEW t \in Tabs, AckBoard(t)
  PROVE  SessionGood'
<1> DEFINE v == View(t)
           w == View(t)'
           p == "board_shown"
           q == "board"
<1>1. /\ p \in Positions \ {"bind", "accept", "board"} /\ p \in Positions
      /\ q \in Positions \ Holds /\ q \in Places /\ q \in Positions
  BY DEF Positions, Places, Holds, Reads
<1>2. At(t, p) /\ Goto(q)
  BY DEF AckBoard
<1>3. Talk(t, p, v, accidents) /\ (asked[t] \in Devices => dev[t] \in Devices)
  BY <1>1, <1>2, Handles
<1>4. /\ up' = [up EXCEPT ![t] = Append(up[t], ACK)]
      /\ UNCHANGED <<opened, deviceBox, dev, runnable, peer, bound, listenq, down,
                     backlog, thread, sim, simOut, simAck, asked, printed, shown,
                     accidents>>
  BY DEF AckBoard, server, sims, history
<1>5. Recorded /\ SameBut(t) /\ Printable(v)
  BY <1>4, Stand DEF SameBut
<1>6. OnlyAt(up, up', t) /\ up'[t] = Append(up[t], ACK)
  BY <1>4, Stand, Updated
<1>7. OnlyThis(t) /\ Recorded'
  BY <1>4, <1>5, <1>6, Untouched DEF OnlyThis, Recorded
<1>8. Steps(t, p, q, v, w, accidents)
  <2>1. SameThread(v, w) /\ SameSim(v, w) /\ SameNotes(v, w)
    BY <1>4, <1>5, Views
  <2>2. /\ v.up = up[t] /\ w.up = up'[t] /\ v.down = down[t] /\ w.down = down'[t]
    BY ViewIs, ViewNext, Zenon
  <2> HIDE DEF v, w
  <2>3. w.up = Append(v.up, ACK) /\ w.down = v.down
    BY <1>4, <1>6, <2>2
  <2> QED BY <1>3, <1>5, <2>1, <2>3, RowAckBoard
<1>9. ListenGood' /\ PeerGood'
  BY <1>1, <1>2, <1>4, OtherHandlers
<1> HIDE DEF v, w, p, q
<1> QED BY <1>1, <1>2, <1>3, <1>4, <1>7, <1>8, <1>9, HandlerStep DEF v, w

(* The run has ended and its memory is shown: ShowMemory.                  *)
LEMMA DoShowMemory ==
  ASSUME SessionGood, OnTrack', NEW t \in Tabs, ShowMemory(t)
  PROVE  SessionGood'
<1> DEFINE v == View(t)
           w == View(t)'
           p == "run_done"
           q == "free"
<1>1. /\ p \in Positions \ {"bind", "accept", "board"} /\ q \in Places
      /\ p \in Positions
  BY DEF Positions, Places
<1>2. At(t, p) /\ CaughtUp(t) /\ accidents' = accidents
  BY PatientDelay DEF ShowMemory
<1>3. /\ Return
      /\ UNCHANGED <<opened, deviceBox, dev, runnable, peer, bound, listenq, up, down,
                     backlog, thread, sim, simOut, simAck, asked, printed, shown>>
  BY DEF ShowMemory, conns, server, sims, history
<1>4. /\ Talk(t, p, v, accidents) /\ (asked[t] \in Devices => dev[t] \in Devices)
  BY <1>1, <1>2, Handles
<1>5. OnlyThis(t) /\ Recorded'
  BY <1>3, Stand, Untouched DEF OnlyThis, Recorded
<1>6. ListenGood' /\ PeerGood'
  BY <1>1, <1>2, <1>3, OtherHandlers
<1>7. w = v
  BY <1>3 DEF View
<1>8. Steps(t, p, q, v, w, accidents')
  <2>1. v.phase \in {"command", "GAC", "GHF"}
    BY <1>2, ViewIs DEF CaughtUp
  <2> HIDE DEF v, w
  <2> QED BY <1>2, <1>4, <1>7, <2>1, RowRunReturn
<1> HIDE DEF p
<1> QED BY <1>1, <1>2, <1>3, <1>4, <1>5, <1>6, <1>8, HandlerStep

-----------------------------------------------------------------------------
(* The tabs and the tool bar: no conversation is touched.                  *)
LEMMA Listed ==
  ASSUME NEW S, IsFiniteSet(S)
  PROVE  /\ SetToSeq(S) \in Seq(S)
         /\ \A i, j \in 1 .. Len(SetToSeq(S)) :
              SetToSeq(S)[i] = SetToSeq(S)[j] => i = j
<1> DEFINE n == Cardinality(S)
<1>1. n \in Nat /\ ExistsBijection(1 .. n, S)
  BY FS_CardinalityType
<1>2. \E f \in [1 .. n -> S] : IsInjective(f)
  BY <1>1 DEF ExistsBijection, Bijection, Injection
<1>3. PICK f : f = SetToSeq(S) /\ f \in [1 .. n -> S] /\ IsInjective(f)
  BY <1>2 DEF SetToSeq
<1> HIDE DEF n
<1>4. f \in Seq(S) /\ Len(f) = n
  BY <1>1, <1>3
<1>5. \A i, j \in 1 .. Len(f) : f[i] = f[j] => i = j
  BY <1>3, <1>4 DEF IsInjective
<1> QED BY <1>3, <1>4, <1>5

(* New tabs connect to the server: every thread still serves the connection*)
(* it was started for.                                                     *)
LEMMA DoConnect ==
  ASSUME SessionGood, NEW ts \in SUBSET Tabs, ts \cap opened = {},
         connectToHost(ts), opened' = opened \cup ts, UNCHANGED thread
  PROVE  ServerGood' /\ opened' \subseteq Tabs
<1>1. ServerGood /\ opened \subseteq Tabs
  BY DEF SessionGood, SessionTypes
<1>2. IsFiniteSet(ts)
  BY SessionAssumption, FS_Subset
<1>3. PICK s : /\ s \in Seq(ts) /\ backlog' = backlog \o s
               /\ \A i, j \in 1 .. Len(s) : s[i] = s[j] => i = j
  BY <1>2, Listed DEF connectToHost
<1>4. backlog \in Seq(Tabs) /\ s \in Seq(Tabs)
  BY <1>1, <1>3 DEF ServerGood
<1>5. /\ backlog' \in Seq(Tabs) /\ Len(backlog') = Len(backlog) + Len(s)
      /\ Len(backlog) \in Nat /\ Len(s) \in Nat
      /\ \A i \in 1 .. Len(backlog) : backlog'[i] = backlog[i]
      /\ \A i \in 1 .. Len(backlog') :
           i > Len(backlog) => backlog'[i] = s[i - Len(backlog)]
  BY <1>3, <1>4
<1>6. ASSUME NEW i \in 1 .. Len(backlog'), i > Len(backlog)
      PROVE  /\ backlog'[i] \in ts /\ backlog'[i] \notin opened
             /\ i - Len(backlog) \in 1 .. Len(s)
  <2>1. i - Len(backlog) \in 1 .. Len(s)
    BY <1>5, <1>6
  <2>2. s[i - Len(backlog)] \in ts
    BY <1>3, <2>1
  <2> QED BY <1>5, <1>6, <2>1, <2>2
<1>7. ASSUME NEW i \in 1 .. Len(backlog'), ~(i > Len(backlog))
      PROVE  /\ i \in 1 .. Len(backlog) /\ backlog'[i] = backlog[i]
             /\ backlog[i] \in Tabs /\ Waits(backlog[i]) /\ backlog[i] \in opened
  <2>1. i \in 1 .. Len(backlog)
    BY <1>5, <1>7
  <2>2. backlog[i] \in Tabs /\ Waits(backlog[i])
    BY <1>4, <2>1 DEF Waits
  <2> QED BY <1>1, <1>5, <2>1, <2>2 DEF ServerGood
<1>8. ASSUME NEW i \in 1 .. Len(backlog'), NEW j \in 1 .. Len(backlog'),
             backlog'[i] = backlog'[j]
      PROVE  i = j
  <2>1. CASE i > Len(backlog) /\ j > Len(backlog)
    <3>1. s[i - Len(backlog)] = s[j - Len(backlog)]
      BY <1>5, <1>8, <2>1
    <3>2. i - Len(backlog) = j - Len(backlog)
      BY <1>3, <1>6, <2>1, <3>1
    <3> QED BY <1>5, <3>2
  <2>2. CASE ~(i > Len(backlog)) /\ ~(j > Len(backlog))
    BY <1>1, <1>7, <1>8, <2>2 DEF ServerGood
  <2>3. CASE i > Len(backlog) /\ ~(j > Len(backlog))
    BY <1>6, <1>7, <1>8, <2>3
  <2>4. CASE ~(i > Len(backlog)) /\ j > Len(backlog)
    BY <1>6, <1>7, <1>8, <2>4
  <2> QED BY <2>1, <2>2, <2>3, <2>4
<1>9. ASSUME NEW t \in Tabs, Waits(t)'
      PROVE  t \in opened' /\ thread[t].phase = "none"
  <2>1. PICK i \in 1 .. Len(backlog') : backlog'[i] = t
    BY <1>9 DEF Waits
  <2>2. CASE i > Len(backlog)
    BY <1>1, <1>6, <2>1, <2>2 DEF ServerGood
  <2>3. CASE ~(i > Len(backlog))
    BY <1>1, <1>7, <2>1, <2>3 DEF ServerGood
  <2> QED BY <2>2, <2>3
<1>10. \A t \in Tabs :
         /\ thread[t].phase # "none" => t \in opened'
         /\ thread[t].phase \notin {"none", "start"} => thread[t].sock = t
  BY <1>1 DEF ServerGood
<1>11. ServerGood'
  BY <1>5, <1>8, <1>9, <1>10 DEF ServerGood
<1> QED BY <1>1, <1>11

(* A step that only opens tabs or chooses devices.                         *)
LEMMA ToolBar ==
  ASSUME SessionGood, ServerGood', opened' \subseteq Tabs, deviceBox' \in Devices,
         dev' \in [Tabs -> Devices \cup {""}],
         \A t \in Tabs : dev[t] \in Devices => dev'[t] \in Devices,
         UNCHANGED <<stack, runnable, peer, bound, listenq, up, down, thread, sim,
                     simOut, simAck, asked, printed, shown, accidents>>
  PROVE  SessionGood'
<1>1. SessionTypes'
  BY DEF SessionGood, SessionTypes
<1>2. StackGood' /\ PeerGood'
  BY DEF SessionGood, StackGood, PeerGood
<1>3. DevicesGood'
  BY DEF SessionGood, DevicesGood
<1>4. ListenGood'
  BY DEF SessionGood, ListenGood
<1>5. ASSUME NEW t PROVE View(t)' = View(t)
  BY DEF View
<1>6. TabsGood'
  <2> SUFFICES ASSUME NEW t \in Tabs, NEW p \in Places, Where(stack', t, p)
               PROVE  Talk(t, p, View(t)', accidents')
    BY DEF TabsGood
  <2>1. Talk(t, p, View(t), accidents)
    BY DEF SessionGood, TabsGood
  <2> QED BY <1>5, <2>1
<1>7. OutputGood'
  <2> SUFFICES ASSUME accidents' = {}, NEW t \in Tabs, NEW p \in Places,
                      Where(stack', t, p)
               PROVE  Output(p, View(t)')
    BY DEF OutputGood
  <2>1. Output(p, View(t))
    BY DEF SessionGood, OutputGood
  <2> QED BY <1>5, <2>1
<1> QED BY <1>1, <1>2, <1>3, <1>4, <1>6, <1>7 DEF SessionGood

(* The user opens a project: loadProject.                                  *)
LEMMA DoloadProject ==
  ASSUME SessionGood, loadProject
  PROVE  SessionGood'
<1>1. /\ opened = {} /\ opened' = Project /\ connectToHost(Project)
      /\ dev' = [t \in Tabs |-> IF t \in Project THEN deviceBox ELSE dev[t]]
      /\ UNCHANGED <<deviceBox, stack, runnable, peer, bound, listenq, up, down, thread,
                     sim, simOut, simAck, asked, printed, shown, accidents>>
  BY DEF loadProject, conns, sims, history
<1>2. deviceBox \in Devices /\ dev \in [Tabs -> Devices \cup {""}]
  BY DEF SessionGood, SessionTypes
<1>3. ServerGood' /\ opened' \subseteq Tabs
  BY <1>1, SessionAssumption, DoConnect
<1>4. /\ dev' \in [Tabs -> Devices \cup {""}]
      /\ \A t \in Tabs : dev[t] \in Devices => dev'[t] \in Devices
  BY <1>1, <1>2
<1> QED BY <1>1, <1>2, <1>3, <1>4, ToolBar

(* The user opens a tab: openNewTab.                                       *)
LEMMA DoopenNewTab ==
  ASSUME SessionGood, NEW t \in Tabs, openNewTab(t)
  PROVE  SessionGood'
<1>1. /\ t \notin opened /\ opened' = opened \cup {t} /\ connectToHost({t})
      /\ UNCHANGED <<deviceBox, dev, stack, runnable, peer, bound, listenq, up, down,
                     thread, sim, simOut, simAck, asked, printed, shown, accidents>>
  BY DEF openNewTab, conns, sims, history
<1>2. deviceBox \in Devices /\ dev \in [Tabs -> Devices \cup {""}]
  BY DEF SessionGood, SessionTypes
<1>3. ServerGood' /\ opened' \subseteq Tabs
  BY <1>1, DoConnect
<1> QED BY <1>1, <1>2, <1>3, ToolBar

(* The user chooses a device: changeDevice.                                *)
LEMMA DochangeDevice ==
  ASSUME SessionGood, NEW d \in Devices, changeDevice(d)
  PROVE  SessionGood'
<1>1. /\ deviceBox' = d
      /\ dev' = [t \in Tabs |-> IF t \in opened THEN d ELSE dev[t]]
      /\ UNCHANGED <<opened, stack, runnable, peer, bound, listenq, up, down, backlog,
                     thread, sim, simOut, simAck, asked, printed, shown, accidents>>
  BY DEF changeDevice, conns, server, sims, history
<1>2. opened \subseteq Tabs /\ dev \in [Tabs -> Devices \cup {""}]
  BY DEF SessionGood, SessionTypes
<1>3. ServerGood'
  BY <1>1, ServerSame
<1>4. /\ dev' \in [Tabs -> Devices \cup {""}]
      /\ \A t \in Tabs : dev[t] \in Devices => dev'[t] \in Devices
  BY <1>1, <1>2
<1> QED BY <1>1, <1>2, <1>3, <1>4, ToolBar

-----------------------------------------------------------------------------
(* The invariant holds at the start, and every step keeps it.              *)
LEMMA AtStart == Init => SessionGood
<1> SUFFICES ASSUME Init PROVE SessionGood
  OBVIOUS
<1>1. /\ stack = <<>> /\ backlog = <<>> /\ listenq = <<>> /\ runnable = {}
      /\ opened = {} /\ deviceBox \in Devices /\ accidents = {}
  BY DEF Init
<1>2. \A t \in Tabs : thread[t] = Idle
  BY DEF Init
<1>3. /\ Idle.phase = "none" /\ Idle.cnt = 0 /\ Idle.line = <<>>
      /\ <<>> \in Seq(Nat)
  BY DEF Idle
<1>4. SessionTypes
  <2>1. stack \in Seq([tab : Tabs, at : Positions])
    BY <1>1
  <2>2. /\ dev \in [Tabs -> Devices \cup {""}]
        /\ asked \in [Tabs -> Devices \cup {""}] /\ printed \in [Tabs -> Nat]
    BY DEF Init
  <2>3. shown \in [Tabs -> Seq(Nat)]
    BY <1>3 DEF Init
  <2>4. /\ DOMAIN thread = Tabs /\ DOMAIN up = Tabs /\ DOMAIN down = Tabs
        /\ DOMAIN sim = Tabs /\ DOMAIN simOut = Tabs /\ DOMAIN simAck = Tabs
    BY DEF Init
  <2>5. \A t \in Tabs : /\ DOMAIN thread[t] = DOMAIN Idle
                        /\ thread[t].line \in Seq(Nat)
    BY <1>2, <1>3
  <2> QED BY <1>1, <2>1, <2>2, <2>3, <2>4, <2>5 DEF SessionTypes
<1>5. Len(stack) = 0 /\ Len(backlog) = 0
  BY <1>1
<1>6. StackGood /\ ListenGood /\ PeerGood
  <2>1. StackGood /\ ListenGood
    BY <1>1, <1>5 DEF StackGood, ListenGood
  <2>2. \A t \in Tabs, p \in Holds : ~Where(stack, t, p)
    BY <1>5 DEF Where, Holds, Reads
  <2>3. Reads \subseteq Holds
    BY DEF Holds
  <2>4. PeerGood
    BY <2>2, <2>3 DEF PeerGood
  <2> QED BY <2>1, <2>4
<1>7. ServerGood
  <2>1. backlog \in Seq(Tabs)
    BY <1>1
  <2>2. \A t \in Tabs : ~Waits(t)
    BY <1>5 DEF Waits
  <2> QED BY <1>2, <1>3, <1>5, <2>1, <2>2 DEF ServerGood
<1>8. DevicesGood
  BY DEF Init, DevicesGood, Devices
<1>9. ASSUME NEW t \in Tabs, NEW p \in Places, Where(stack, t, p)
      PROVE  p = "free"
  BY <1>5, <1>9 DEF Where
<1>10. ASSUME NEW t \in Tabs
       PROVE  /\ View(t).phase = "none" /\ View(t).cnt = 0 /\ View(t).up = <<>>
              /\ View(t).down = <<>> /\ View(t).sim = "none" /\ View(t).out = <<>>
              /\ View(t).runs = FALSE /\ View(t).line = <<>>
              /\ View(t).shown = <<>> /\ View(t).printed = 0
  <2>1. /\ up[t] = <<>> /\ down[t] = <<>> /\ simOut[t] = <<>> /\ shown[t] = <<>>
    BY DEF Init
  <2>2. sim[t] = "none" /\ printed[t] = 0
    BY DEF Init
  <2>3. (t \in runnable) = FALSE
    BY <1>1
  <2>4. /\ thread[t].phase = "none" /\ thread[t].cnt = 0 /\ thread[t].line = <<>>
    BY <1>2, <1>3
  <2> QED BY <2>1, <2>2, <2>3, <2>4, ViewIs, Zenon
<1>11. ASSUME NEW t \in Tabs, NEW acc
       PROVE  Talk(t, "free", View(t), acc) /\ Output("free", View(t))
  <2> DEFINE v == View(t)
  <2>1. /\ v.phase = "none" /\ v.cnt = 0 /\ v.up = <<>> /\ v.down = <<>>
        /\ v.sim = "none" /\ v.out = <<>> /\ v.runs = FALSE /\ v.line = <<>>
        /\ v.shown = <<>> /\ v.printed = 0
    BY <1>10
  <2> HIDE DEF v
  <2>2. FreeRow(v)
    BY <2>1 DEF FreeRow, Quiet, SimOff
  <2>3. Talk(t, "free", v, acc)
    BY <2>2 DEF Talk
  <2>4. Unseen(v) = <<>> \o <<>>
    BY <2>1, Zenon DEF Unseen
  <2>5. <<>> \o (<<>> \o <<>>) = <<>>
    OBVIOUS
  <2>6. v.shown \o Unseen(v) = Upto(v.printed)
    BY <2>1, <2>4, <2>5, UptoZero, Zenon
  <2>7. Output("free", v)
    BY <2>1, <2>6 DEF Output
  <2> QED BY <2>3, <2>7 DEF v
<1>12. TabsGood /\ OutputGood
  BY <1>9, <1>11 DEF TabsGood, OutputGood
<1> QED BY <1>4, <1>6, <1>7, <1>8, <1>12 DEF SessionGood

(* What has gone wrong is not forgotten.                                   *)
LEMMA Remembered == ASSUME [Next]_vars PROVE accidents \subseteq accidents'
<1>1. ASSUME NEW a, NEW b, Accident(a, b) PROVE accidents \subseteq accidents'
  BY <1>1 DEF Accident
<1>2. CASE User
  BY <1>1, <1>2 DEF User, loadProject, changeDevice, openNewTab,
                    on_compile_clicked, on_run_clicked, Click
<1>3. CASE Handler
  <2>1. PICK t \in Tabs :
          \/ RecvCommandAck(t, "compile_command", "compile_path")
          \/ SendName(t, "compile_path", "compile_name")
          \/ SendDevice(t) \/ RecvCompiled(t) \/ ShowAssembly(t)
          \/ RecvCommandAck(t, "run_command", "run_path")
          \/ SendRunName(t) \/ Bind(t) \/ AcceptSim(t)
          \/ \E isVisible \in BOOLEAN :
               recvFromOr1ksim(t, isVisible) \/ RecvFromBoard(t, isVisible)
          \/ AckSim(t) \/ AckBoard(t) \/ ShowMemory(t)
    BY <1>3 DEF Handler
  <2>2. CASE RecvCommandAck(t, "compile_command", "compile_path")
             \/ RecvCommandAck(t, "run_command", "run_path") \/ RecvCompiled(t)
             \/ AcceptSim(t) \/ AckSim(t) \/ AckBoard(t)
    <3>1. accidents' = accidents
      BY <2>2 DEF RecvCommandAck, RecvCompiled, AcceptSim, AckSim, AckBoard
    <3> QED BY <3>1
  <2>5. CASE \E isVisible \in BOOLEAN :
               recvFromOr1ksim(t, isVisible) \/ RecvFromBoard(t, isVisible)
    <3>1. PICK isVisible \in BOOLEAN :
            recvFromOr1ksim(t, isVisible) \/ RecvFromBoard(t, isVisible)
      BY <2>5
    <3>2. ASSUME NEW text, NEW at, setData(t, isVisible, text, at)
          PROVE  accidents \subseteq accidents'
      BY <1>1, <3>2 DEF setData
    <3>3. CASE recvFromOr1ksim(t, isVisible)
      BY <3>2, <3>3 DEF recvFromOr1ksim
    <3>4. CASE RecvFromBoard(t, isVisible)
      BY <3>2, <3>4 DEF RecvFromBoard
    <3> QED BY <3>1, <3>3, <3>4
  <2>3. CASE SendName(t, "compile_path", "compile_name") \/ ShowAssembly(t)
             \/ ShowMemory(t) \/ Bind(t)
    BY <1>1, <2>3 DEF SendName, ShowAssembly, ShowMemory, Bind, DelayEnds
  <2>4. CASE SendDevice(t) \/ SendRunName(t)
    BY <2>4 DEF SendDevice, SendRunName
  <2> QED BY <2>1, <2>2, <2>3, <2>4, <2>5
<1>4. CASE Accept
  BY <1>4 DEF Accept
<1>5. CASE \E h \in Tabs : Thread(h)
  <2>1. PICK h \in Tabs : Thread(h)
    BY <1>5
  <2>2. CASE StartHandler(h)
    BY <1>1, <2>2 DEF StartHandler
  <2>3. CASE \E isNul, isCR \in BOOLEAN : BoardChar(h, isNul, isCR)
    BY <2>3 DEF BoardChar
  <2>4. CASE ~StartHandler(h) /\ ~\E isNul, isCR \in BOOLEAN : BoardChar(h, isNul, isCR)
    <3>1. accidents' = accidents
      BY <2>1, <2>4 DEF Thread, RecvCommand, RecvGacField, Generate, RecvGhfField,
                        SimulatorEnded, RecvLineAck, BoardEnd, SaveMemory, history
    <3> QED BY <3>1
  <2> QED BY <2>2, <2>3, <2>4
<1>6. CASE \E h \in Tabs : Simulator(h)
  BY <1>1, <1>6 DEF Simulator, SimConnect, SimRecvAck, SimExit, send_char
<1>7. CASE UNCHANGED vars
  BY <1>7 DEF vars
<1> QED BY <1>2, <1>3, <1>4, <1>5, <1>6, <1>7 DEF Next

(* Every step keeps the invariant.                                         *)
LEMMA SessionStep ==
  ASSUME SessionInv, [Next]_vars
  PROVE  SessionInv'
<1> SUFFICES ASSUME OnTrack' PROVE SessionGood'
  BY DEF SessionInv
<1>1. SessionGood
  <2>1. OnTrack
    BY Remembered DEF OnTrack
  <2> QED BY <2>1 DEF SessionInv
<1>2. CASE User
  <2>1. CASE loadProject
    BY <1>1, <2>1, DoloadProject
  <2>2. CASE \E d \in Devices : changeDevice(d)
    BY <1>1, <2>2, DochangeDevice
  <2>3. CASE \E t \in Tabs :
               openNewTab(t) \/ on_compile_clicked(t) \/ on_run_clicked(t)
    BY <1>1, <2>3, DoopenNewTab, Doon_compile_clicked, Doon_run_clicked
  <2> QED BY <1>2, <2>1, <2>2, <2>3 DEF User
<1>3. CASE Handler
  <2>1. PICK t \in Tabs :
          \/ RecvCommandAck(t, "compile_command", "compile_path")
          \/ SendName(t, "compile_path", "compile_name")
          \/ SendDevice(t) \/ RecvCompiled(t) \/ ShowAssembly(t)
          \/ RecvCommandAck(t, "run_command", "run_path")
          \/ SendRunName(t) \/ Bind(t) \/ AcceptSim(t)
          \/ \E isVisible \in BOOLEAN :
               recvFromOr1ksim(t, isVisible) \/ RecvFromBoard(t, isVisible)
          \/ AckSim(t) \/ AckBoard(t) \/ ShowMemory(t)
    BY <1>3 DEF Handler
  <2>2. CASE \/ RecvCommandAck(t, "compile_command", "compile_path")
             \/ RecvCommandAck(t, "run_command", "run_path")
    BY <1>1, <2>2, DoRecvCommandAck
  <2>3. CASE SendName(t, "compile_path", "compile_name")
    BY <1>1, <2>3, DoSendName
  <2>4. CASE SendDevice(t)
    BY <1>1, <2>4, DoSendDevice
  <2>5. CASE RecvCompiled(t)
    BY <1>1, <2>5, DoRecvCompiled
  <2>6. CASE ShowAssembly(t)
    BY <1>1, <2>6, DoShowAssembly
  <2>7. CASE SendRunName(t)
    BY <1>1, <2>7, DoSendRunName
  <2>8. CASE Bind(t)
    BY <1>1, <2>8, DoBind
  <2>9. CASE AcceptSim(t)
    BY <1>1, <2>9, DoAcceptSim
  <2>10. CASE \E isVisible \in BOOLEAN : recvFromOr1ksim(t, isVisible)
    BY <1>1, <2>10, DorecvFromOr1ksim
  <2>11. CASE \E isVisible \in BOOLEAN : RecvFromBoard(t, isVisible)
    BY <1>1, <2>11, DoRecvFromBoard
  <2>12. CASE ShowMemory(t)
    BY <1>1, <2>12, DoShowMemory
  <2>13. CASE AckSim(t)
    BY <1>1, <2>13, DoAckSim
  <2>14. CASE AckBoard(t)
    BY <1>1, <2>14, DoAckBoard
  <2> QED BY <2>1, <2>2, <2>3, <2>4, <2>5, <2>6, <2>7, <2>8, <2>9, <2>10,
             <2>11, <2>12, <2>13, <2>14
<1>4. CASE Accept
  BY <1>1, <1>4, DoAccept
<1>5. CASE \E h \in Tabs : Thread(h)
  <2>1. PICK h \in Tabs : Thread(h)
    BY <1>5
  <2>2. CASE StartHandler(h)
    BY <1>1, <2>2, DoStartHandler
  <2>3. CASE RecvCommand(h)
    BY <1>1, <2>3, DoRecvCommand
  <2>4. CASE RecvGacField(h)
    BY <1>1, <2>4, DoRecvGacField
  <2>5. CASE Generate(h)
    BY <1>1, <2>5, DoGenerate
  <2>6. CASE RecvGhfField(h)
    BY <1>1, <2>6, DoRecvGhfField
  <2>7. CASE SimulatorEnded(h)
    BY <1>1, <2>7, DoSimulatorEnded
  <2>8. CASE \E isNul, isCR \in BOOLEAN : BoardChar(h, isNul, isCR)
    BY <1>1, <2>8, DoBoardChar
  <2>9. CASE RecvLineAck(h)
    BY <1>1, <2>9, DoRecvLineAck
  <2>10. CASE BoardEnd(h)
    BY <1>1, <2>10, DoBoardEnd
  <2>11. CASE SaveMemory(h)
    BY <1>1, <2>11, DoSaveMemory
  <2> QED BY <2>1, <2>2, <2>3, <2>4, <2>5, <2>6, <2>7, <2>8, <2>9, <2>10, <2>11
          DEF Thread
<1>6. CASE \E h \in Tabs : Simulator(h)
  <2>1. PICK h \in Tabs : Simulator(h)
    BY <1>6
  <2>2. CASE SimConnect(h)
    BY <1>1, <2>2, DoSimConnect
  <2>3. CASE SimRecvAck(h)
    BY <1>1, <2>3, DoSimRecvAck
  <2>4. CASE SimExit(h)
    BY <1>1, <2>4, DoSimExit
  <2>5. CASE \E isNul \in BOOLEAN : send_char(h, isNul)
    BY <1>1, <2>5, Dosend_char
  <2> QED BY <2>1, <2>2, <2>3, <2>4, <2>5 DEF Simulator
<1>7. CASE UNCHANGED vars
  <2>1. UNCHANGED <<opened, deviceBox, dev, stack, runnable, peer, bound, listenq, up,
                    down, backlog, thread, sim, simOut, simAck, asked, printed,
                    shown, accidents>>
    BY <1>7 DEF vars, gui, conns, server, sims, history
  <2>2. ServerGood'
    BY <1>1, <2>1, ServerSame
  <2>3. /\ opened \subseteq Tabs /\ deviceBox \in Devices
        /\ dev \in [Tabs -> Devices \cup {""}]
    BY <1>1 DEF SessionGood, SessionTypes
  <2> QED BY <1>1, <2>1, <2>2, <2>3, ToolBar
<1> QED BY <1>2, <1>3, <1>4, <1>5, <1>6, <1>7 DEF Next

(* At every moment of every session that is on track, each conversation is *)
(* in a row of the table.                                                  *)
THEOREM SessionAlwaysGood == Spec => []SessionInv
<1>1. Init => SessionInv
  BY AtStart DEF SessionInv
<1>2. SessionInv /\ [Next]_vars => SessionInv'
  BY SessionStep
<1> QED BY <1>1, <1>2, PTL DEF Spec

(* A thread that generates, simulates or talks to a board has the fields   *)
(* of its own tab.                                                         *)
LEMMA RowsBusy ==
  ASSUME NEW t, NEW p \in Places, NEW v, NEW acc, Talk(t, p, v, acc),
         v.phase \in {"generate", "simulate", "board", "line", "save"}
  PROVE  Named(t, v) /\ Chosen(v)
<1>1. CASE v.phase = "generate"
  <2>1. p = "compile_answer"
    BY <1>1, RowsGenerate
  <2>2. CompileAnswerRow(t, v, acc)
    BY <2>1 DEF Talk
  <2> QED BY <1>1, <2>2 DEF CompileAnswerRow
<1>2. CASE v.phase # "generate"
  <2>1. \/ p \in {"bind", "accept", "board"} /\ (OnSim(t, v, acc) \/ OnBoard(t, v))
        \/ p = "simulator" /\ OnSim(t, v, acc)
        \/ p \in {"run_done", "simulator_shown", "board_shown"}
    <3>1. CASE v.phase = "simulate"
      BY <3>1, RowsSim
    <3>2. CASE v.phase \in {"board", "line", "save"}
      BY <3>2, RowsBoard
    <3> QED BY <1>2, <3>1, <3>2
  <2>2. CASE p \in {"bind", "accept", "board"} /\ (OnSim(t, v, acc) \/ OnBoard(t, v))
    <3>1. Named(t, v)
      BY <2>2 DEF OnSim, OnBoard
    <3>2. \E d \in {"Or1ksim", "VEX_T2"} : WaitingRow(t, v, d, acc)
      BY <2>2 DEF Talk
    <3> QED BY <3>1, <3>2 DEF WaitingRow
  <2>3. CASE p = "simulator" /\ OnSim(t, v, acc)
    <3>1. Named(t, v)
      BY <2>3 DEF OnSim
    <3>2. SimulatorRow(t, v, acc)
      BY <2>3 DEF Talk
    <3> QED BY <3>1, <3>2 DEF SimulatorRow
  <2>4. CASE p \in {"run_done", "simulator_shown", "board_shown"}
    <3>1. RunDoneRow(t, v) \/ SimulatorShownRow(t, v) \/ BoardShownRow(t, v)
      BY <2>4 DEF Talk
    <3> QED BY <3>1 DEF RunDoneRow, SimulatorShownRow, BoardShownRow
  <2> QED BY <2>1, <2>2, <2>3, <2>4
<1> QED BY <1>1, <1>2

(* When no handler runs, every tab is free and, without accidents, its     *)
(* output is as in the row of a free tab.                                  *)
LEMMA IdleRow ==
  ASSUME SessionGood, stack = <<>>, NEW t \in Tabs
  PROVE  FreeRow(View(t)) /\ (accidents = {} => Output("free", View(t)))
<1>1. Where(stack, t, "free") /\ "free" \in Places
  BY DEF Where, Places
<1>2. Talk(t, "free", View(t), accidents)
  BY <1>1 DEF SessionGood, TabsGood
<1>3. accidents = {} => Output("free", View(t))
  BY <1>1 DEF SessionGood, OutputGood
<1> QED BY <1>2, <1>3 DEF Talk

(* GUI and server agree on what has been said: what the server generates   *)
(* and runs is what the user asked for, and after the handlers of          *)
(* newtab.cpp have returned connection_handler waits for the next command  *)
(* with nothing left on the connection.                                    *)
THEOREM ConversationAlwaysSound == Spec => []ConversationSound
<1>1. SessionInv => FieldsIntact
  <2> SUFFICES ASSUME SessionGood, NEW h \in Tabs,
                      thread[h].phase \in
                        {"generate", "simulate", "board", "line", "save"}
               PROVE  /\ thread[h].path = <<Path(h)>>
                      /\ thread[h].filename = <<Name(h)>>
                      /\ thread[h].deviceType = <<Device(asked[h])>>
    BY DEF SessionInv, FieldsIntact
  <2> DEFINE v == View(h)
  <2>1. PICK p \in Places : Talk(h, p, v, accidents)
    BY Stand
  <2>2. /\ v.phase = thread[h].phase /\ v.path = thread[h].path
        /\ v.filename = thread[h].filename /\ v.device = thread[h].deviceType
        /\ v.asked = asked[h]
    BY ViewIs, Zenon
  <2> HIDE DEF v
  <2>3. Named(h, v) /\ Chosen(v)
    BY <2>1, <2>2, RowsBusy
  <2> QED BY <2>2, <2>3 DEF Named, Chosen
<1>2. SessionInv => Synchronised
  <2> SUFFICES ASSUME SessionInv, accidents = {}, stack = <<>>, NEW t \in opened
               PROVE  /\ up[t] = <<>> /\ down[t] = <<>> /\ thread[t].cnt = 0
                      /\ thread[t].phase \in {"none", "start", "command"}
    BY DEF Synchronised
  <2>1. SessionGood
    BY DEF SessionInv, OnTrack
  <2>2. t \in Tabs
    BY <2>1 DEF SessionGood, SessionTypes
  <2> DEFINE v == View(t)
  <2>3. FreeRow(v)
    BY <2>1, <2>2, IdleRow
  <2>4. /\ v.phase = thread[t].phase /\ v.cnt = thread[t].cnt
        /\ v.up = up[t] /\ v.down = down[t]
    BY ViewIs, Zenon
  <2> HIDE DEF v
  <2> QED BY <2>3, <2>4 DEF FreeRow, Quiet
<1>3. SessionInv => ConversationSound
  BY <1>1, <1>2 DEF ConversationSound
<1> QED BY <1>3, SessionAlwaysGood, PTL

(* After a run the tab shows everything the program printed, once and in   *)
(* order, whether send_char brought it to recvFromOr1ksim a character at a *)
(* time or process sent it line by line.                                   *)
THEOREM OutputAlwaysShown == Spec => []OutputShown
<1>1. SessionInv => OutputShown
  <2> SUFFICES ASSUME SessionInv, accidents = {}, stack = <<>>, NEW t \in Tabs
               PROVE  shown[t] \o thread[t].line = [i \in 1..printed[t] |-> i]
    BY DEF OutputShown
  <2>1. SessionGood
    BY DEF SessionInv, OnTrack
  <2> DEFINE v == View(t)
  <2>2. FreeRow(v) /\ Output("free", v) /\ Printable(v)
    BY <2>1, IdleRow, Stand
  <2>3. /\ v.shown = shown[t] /\ v.line = thread[t].line
        /\ v.printed = printed[t]
    BY ViewIs, Zenon
  <2> HIDE DEF v
  <2>4. v.phase # "GHF" /\ v.phase # "line"
    BY <2>2 DEF FreeRow
  <2>5. v.out = <<>>
    BY <2>2 DEF FreeRow, SimOff
  <2>6. Unseen(v) = v.line \o v.out
    BY <2>4 DEF Unseen
  <2>7. v.line \in Seq(Nat)
    BY <2>2 DEF Printable
  <2>8. v.line \o <<>> = v.line
    BY <2>7
  <2>9. Unseen(v) = v.line
    BY <2>5, <2>6, <2>8, Zenon
  <2>10. v.shown \o Unseen(v) = Upto(v.printed)
    BY <2>2, <2>4 DEF Output
  <2>11. shown[t] \o thread[t].line = Upto(printed[t])
    BY <2>3, <2>9, <2>10, Zenon
  <2> QED BY <2>11 DEF Upto
<1> QED BY <1>1, SessionAlwaysGood, PTL
=============================================================================
