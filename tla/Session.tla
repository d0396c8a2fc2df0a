------------------------------ MODULE Session ------------------------------
(***************************************************************************)
(* A session of the tool chain: the GUI (OPENRISC_GUI), the API server     *)
(* (OPENRISC_API) and the simulators it starts, talking over TCP.          *)
(*                                                                         *)
(* Each tab of the GUI has a connection to the server, served by a thread. *)
(* "Compile" (command GAC) and "Run" (command GHF) are conversations on    *)
(* it, in which the server takes each recv to be one field.  Nothing but   *)
(* the GUI's delay(3) keeps two fields apart, and delay runs the event     *)
(* loop, as does setData after a piece of output has been shown: other     *)
(* clicks are handled in the middle of a conversation.  A run              *)
(* on Or1ksim gets the program's output from the simulator, which connects *)
(* to port 7777 of the GUI; a run on a board gets it from the server.      *)
(*                                                                         *)
(* The code has no defence against several accidents.  "accidents" records *)
(* them when they happen; the properties say what is guaranteed when none  *)
(* has, and so that there are no others.  A session is over when the GUI   *)
(* exits.                                                                  *)
(***************************************************************************)
EXTENDS Integers, Sequences, FiniteSets, SequencesExt

CONSTANTS
  Tabs,      \* the cores of the project
  Project,   \* those loaded with the project file, the others are added later
  MAX_OUT,   \* how many characters a program prints
  BUF,       \* the bytes of the server's buffer for a line
  DEPTH      \* how many clicks are being handled at a time

ASSUME SessionAssumption ==
  /\ IsFiniteSet(Tabs) /\ Project \subseteq Tabs
  /\ MAX_OUT \in Nat /\ DEPTH \in Nat /\ BUF \in Nat

(* VEX_T2 stands for both boards, which the code treats alike.             *)
Devices == {"Or1ksim", "VEX_T2"}

VARIABLES
  opened,       \* tabs of the GUI
  deviceBox,    \* the device selected in the tool bar
  dev,          \* deviceType of each tab, "" if never set
  stack,        \* handlers that have not returned, [tab, at]; the last runs
  runnable,     \* tabs whose "Run" button is enabled
  bound,        \* the GUI listens on port 7777
  listenq,      \* simulators that have connected and were not accepted
  peer,         \* the simulator the GUI has accepted
  exited,       \* the GUI has called exit
  up, down,     \* per connection: segments to the server and from it
  backlog,      \* connections the server has not accepted
  client_sock,  \* main's variable, read by every new thread
  thread,       \* per accepted connection, its connection_handler
  sim,          \* per thread: its simulator
  simOut,       \* per simulator: characters sent and not read by the GUI
  simAck,       \* per simulator: acknowledgements not read by it
  asked,        \* history: the device of the tab's last compilation
  printed,      \* history: characters printed by the thread's last run
  shown,        \* history: characters shown in the tab's last run
  accidents     \* history: what has gone wrong

gui == <<opened, deviceBox, dev, stack, runnable, bound, peer, exited>>
conns == <<up, down>>
server == <<backlog, client_sock, thread>>
sims == <<sim, simOut, simAck>>
history == <<asked, printed, shown>>
vars == <<gui, listenq, conns, server, sims, history, accidents>>

(* Segments.                                                               *)
GAC == <<"GAC">>
GHF == <<"GHF">>
ACK == <<"ACK">>
END == <<"END">>
Path(t) == <<"path", t>>
Name(t) == <<"name", t>>
Device(d) == <<"device", d>>
Line(s) == <<"line", s>>
NUL == 0

Idle == [phase |-> "none", sock |-> "none", cnt |-> 0, path |-> <<>>,
         filename |-> <<>>, deviceType |-> <<>>, line |-> <<>>]

Init ==
  /\ opened = {} /\ deviceBox \in Devices /\ dev = [t \in Tabs |-> ""]
  /\ stack = <<>> /\ runnable = {} /\ exited = FALSE
  /\ bound = FALSE /\ listenq = <<>> /\ peer = "none"
  /\ up = [t \in Tabs |-> <<>>] /\ down = [t \in Tabs |-> <<>>]
  /\ backlog = <<>> /\ client_sock = "none"
  /\ thread = [t \in Tabs |-> Idle]
  /\ sim = [t \in Tabs |-> "none"] /\ simOut = [t \in Tabs |-> <<>>]
  /\ simAck = [t \in Tabs |-> 0]
  /\ asked = [t \in Tabs |-> ""] /\ printed = [t \in Tabs |-> 0]
  /\ shown = [t \in Tabs |-> <<>>]
  /\ accidents = {}

Accident(a, happens) == accidents' = accidents \cup (IF happens THEN {a} ELSE {})

-----------------------------------------------------------------------------
(* The GUI's event loop: entered when no handler runs, within delay and    *)
(* within setData.                                                         *)

Delays == {"compile_path", "compile_name", "compile_done", "compile_failed",
           "run_path", "run_done"}

Top == Last(stack)

EventPoints == Delays \cup {"simulator_shown", "board_shown"}

EventLoop == ~exited /\ (stack # <<>> => Top.at \in EventPoints)

(* NewTab's constructor connects to the server.                            *)
connectToHost(ts) == backlog' = backlog \o SetToSeq(ts)

loadProject ==
  /\ EventLoop /\ opened = {}
  /\ opened' = Project
  /\ dev' = [t \in Tabs |-> IF t \in Project THEN deviceBox ELSE dev[t]]
  /\ connectToHost(Project)
  /\ UNCHANGED <<deviceBox, stack, runnable, bound, peer, exited, listenq,
                 conns, client_sock, thread, sims, history, accidents>>

openNewTab(t) ==
  /\ EventLoop /\ Project \subseteq opened /\ t \notin opened
  /\ opened' = opened \cup {t}
  /\ connectToHost({t})
  /\ UNCHANGED <<deviceBox, dev, stack, runnable, bound, peer, exited, listenq,
                 conns, client_sock, thread, sims, history, accidents>>

changeDevice(d) ==
  /\ EventLoop /\ d # deviceBox
  /\ deviceBox' = d
  /\ dev' = [t \in Tabs |-> IF t \in opened THEN d ELSE dev[t]]
  /\ UNCHANGED <<opened, stack, runnable, bound, peer, exited, listenq,
                 conns, server, sims, history, accidents>>

(* A click sends the command and waits for the answer.                     *)
Click(t, cmd, at) ==
  /\ EventLoop /\ Len(stack) < DEPTH /\ t \in opened
  /\ stack' = Append(stack, [tab |-> t, at |-> at])
  /\ up' = [up EXCEPT ![t] = Append(@, cmd)]
  /\ Accident("reentered", \E i \in 1..Len(stack) : stack[i].tab = t)
  /\ UNCHANGED <<opened, deviceBox, dev, runnable, bound, peer, exited,
                 listenq, down, server, sims, asked, printed>>

on_compile_clicked(t) ==
  /\ Click(t, GAC, "compile_command")
  /\ UNCHANGED shown

on_run_clicked(t) ==
  /\ t \in runnable
  /\ Click(t, GHF, "run_command")
  /\ shown' = [shown EXCEPT ![t] = <<>>]

-----------------------------------------------------------------------------
(* The running handler.                                                    *)

At(t, at) == ~exited /\ stack # <<>> /\ Top = [tab |-> t, at |-> at]
Goto(at) == stack' = [stack EXCEPT ![Len(stack)].at = at]
Return == stack' = Front(stack)

(* recv takes one or more of the segments that have arrived.               *)
Received(queue, k) == SubSeq(queue, 1, k)
Rest(queue, k) == SubSeq(queue, k + 1, Len(queue))

(* The answer to the command: after ACK the path is sent.  strcmp sees     *)
(* only the first string of what has arrived.                              *)
RecvCommandAck(t, from, to) ==
  /\ At(t, from)
  /\ \E k \in 1..Len(down[t]) :
       /\ down' = [down EXCEPT ![t] = Rest(@, k)]
       /\ IF Received(down[t], k)[1] = ACK
          THEN Goto(to) /\ up' = [up EXCEPT ![t] = Append(@, Path(t))]
          ELSE Return /\ UNCHANGED up
  /\ UNCHANGED <<opened, deviceBox, dev, runnable, bound, peer, exited,
                 listenq, server, sims, history, accidents>>

(* delay(3) was long enough if the server waits for the next segment.      *)
CaughtUp(t) == up[t] = <<>> /\ thread[t].phase \in {"command", "GAC", "GHF"}

DelayEnds(t, at) == At(t, at) /\ Accident("slow", ~CaughtUp(t))

SendName(t, from, to) ==
  /\ DelayEnds(t, from) /\ Goto(to)
  /\ up' = [up EXCEPT ![t] = Append(@, Name(t))]
  /\ UNCHANGED <<opened, deviceBox, dev, runnable, bound, peer, exited,
                 listenq, down, server, sims, history>>

(* Sending the empty device type of a tab that was added sends nothing.    *)
SendDevice(t) ==
  /\ At(t, "compile_name") /\ Goto("compile_answer")
  /\ up' = [up EXCEPT ![t] =
              IF dev[t] = "" THEN @ ELSE Append(@, Device(dev[t]))]
  /\ asked' = [asked EXCEPT ![t] = dev[t]]
  /\ accidents' = accidents \cup (IF CaughtUp(t) THEN {} ELSE {"slow"})
                            \cup (IF dev[t] = "" THEN {"device"} ELSE {})
  /\ UNCHANGED <<opened, deviceBox, dev, runnable, bound, peer, exited,
                 listenq, down, server, sims, printed, shown>>

(* Without an ACK the delay is made all the same, but nothing is shown.    *)
RecvCompiled(t) ==
  /\ At(t, "compile_answer")
  /\ \E k \in 1..Len(down[t]) :
       /\ down' = [down EXCEPT ![t] = Rest(@, k)]
       /\ Goto(IF Received(down[t], k)[1] = ACK
               THEN "compile_done" ELSE "compile_failed")
  /\ UNCHANGED <<opened, deviceBox, dev, runnable, bound, peer, exited,
                 listenq, up, server, sims, history, accidents>>

ShowAssembly(t) ==
  /\ stack # <<>> /\ Top.at \in {"compile_done", "compile_failed"}
  /\ DelayEnds(t, Top.at) /\ Return
  /\ runnable' = IF Top.at = "compile_done" THEN runnable \cup {t} ELSE runnable
  /\ UNCHANGED <<opened, deviceBox, dev, bound, peer, exited,
                 listenq, conns, server, sims, history>>

-----------------------------------------------------------------------------
(* Waiting for the output of a run, according to the GUI's device.         *)

OutputFrom(t) ==
  CASE dev[t] = "VEX_T2" -> "board"
    [] dev[t] = "Or1ksim" -> "bind"
    [] OTHER -> "run_done"

SendRunName(t) ==
  /\ At(t, "run_path") /\ Goto(OutputFrom(t))
  /\ up' = [up EXCEPT ![t] = Append(@, Name(t))]
  /\ accidents' = accidents \cup (IF CaughtUp(t) THEN {} ELSE {"slow"})
                            \cup (IF dev[t] = asked[t] THEN {} ELSE {"device"})
  /\ UNCHANGED <<opened, deviceBox, dev, runnable, bound, peer, exited,
                 listenq, down, server, sims, history>>

(* setupInterConnect: the socket of an earlier run is never closed, so     *)
(* that the second bind fails.                                             *)
Bind(t) ==
  /\ At(t, "bind")
  /\ IF bound THEN exited' = TRUE /\ UNCHANGED <<stack, bound>>
              ELSE bound' = TRUE /\ Goto("accept") /\ UNCHANGED exited
  /\ Accident("second_run", bound)
  /\ UNCHANGED <<opened, deviceBox, dev, runnable, peer, listenq, conns,
                 server, sims, history>>

AcceptSim(t) ==
  /\ At(t, "accept") /\ listenq # <<>>
  /\ peer' = Head(listenq) /\ listenq' = Tail(listenq)
  /\ Goto("simulator")
  /\ UNCHANGED <<opened, deviceBox, dev, runnable, bound, exited, conns,
                 server, sims, history, accidents>>

(* A piece of output is shown if the UART window is visible, which is the  *)
(* user's choice; setData then handles the events that have come, before   *)
(* the ACK.  Otherwise it is acknowledged at once.                         *)
setData(t, isVisible, text, at) ==
  IF isVisible
  THEN /\ shown' = [shown EXCEPT ![t] = @ \o text]
       /\ Goto(at)
       /\ UNCHANGED accidents
  ELSE /\ Accident("hidden", TRUE)
       /\ UNCHANGED <<stack, shown>>

(* A NUL character, and the end of the connection, end the loop, without   *)
(* an acknowledgement.                                                     *)
recvFromOr1ksim(t, isVisible) ==
  LET s == peer IN
    /\ At(t, "simulator")
    /\ \/ /\ simOut[s] # <<>> /\ Head(simOut[s]) # NUL
          /\ setData(t, isVisible, <<Head(simOut[s])>>, "simulator_shown")
          /\ simOut' = [simOut EXCEPT ![s] = <<>>]
          /\ simAck' = [simAck EXCEPT ![s] = IF isVisible THEN @ ELSE @ + 1]
       \/ /\ IF simOut[s] # <<>> THEN Head(simOut[s]) = NUL ELSE sim[s] = "gone"
          /\ simOut' = [simOut EXCEPT ![s] = <<>>]
          /\ Goto("run_done")
          /\ UNCHANGED <<simAck, shown, accidents>>
    /\ UNCHANGED <<opened, deviceBox, dev, runnable, bound, peer,
                   exited, listenq, conns, server, sim, asked, printed>>

(* setData has returned.                                                   *)
AckSim(t) ==
  /\ At(t, "simulator_shown") /\ Goto("simulator")
  /\ simAck' = [simAck EXCEPT ![peer] = @ + 1]
  /\ UNCHANGED <<opened, deviceBox, dev, runnable, bound, peer, exited,
                 listenq, conns, server, sim, simOut, history, accidents>>

(* The string in a buffer ends at its first NUL.                           *)
CString(text) ==
  SubSeq(text, 1,
         Cardinality({i \in 1..Len(text) : \A j \in 1..i : text[j] # NUL}))

(* The loop that reads a board's output from the server.  An empty string  *)
(* ends it: the server's END, or a line that begins with a NUL.            *)
RecvFromBoard(t, isVisible) ==
  /\ At(t, "board")
  /\ \E k \in 1..Len(down[t]) :
       LET reply == Received(down[t], k)[1] IN
       /\ down' = [down EXCEPT ![t] = Rest(@, k)]
       /\ CASE reply = END ->
                 Goto("run_done") /\ UNCHANGED <<up, shown, accidents>>
            [] reply = ACK ->
                 /\ up' = [up EXCEPT ![t] = Append(@, ACK)]
                 /\ UNCHANGED <<stack, shown, accidents>>
            [] OTHER ->
                 IF CString(reply[2]) = <<>>
                 THEN Goto("run_done") /\ UNCHANGED <<up, shown, accidents>>
                 ELSE /\ setData(t, isVisible, CString(reply[2]), "board_shown")
                      /\ up' = IF isVisible THEN up
                               ELSE [up EXCEPT ![t] = Append(@, ACK)]
  /\ UNCHANGED <<opened, deviceBox, dev, runnable, bound, peer, exited,
                 listenq, server, sims, asked, printed>>

AckBoard(t) ==
  /\ At(t, "board_shown") /\ Goto("board")
  /\ up' = [up EXCEPT ![t] = Append(@, ACK)]
  /\ UNCHANGED <<opened, deviceBox, dev, runnable, bound, peer, exited,
                 listenq, down, server, sims, history, accidents>>

ShowMemory(t) ==
  /\ DelayEnds(t, "run_done") /\ Return
  /\ UNCHANGED <<opened, deviceBox, dev, runnable, bound, peer, exited,
                 listenq, conns, server, sims, history>>

-----------------------------------------------------------------------------
(* The server.  main hands the address of its one client_sock to each new  *)
(* thread, which reads it when it starts.                                  *)

Accept ==
  /\ ~exited /\ backlog # <<>>
  /\ client_sock' = Head(backlog) /\ backlog' = Tail(backlog)
  /\ thread' = [thread EXCEPT ![Head(backlog)].phase = "start"]
  /\ UNCHANGED <<gui, listenq, conns, sims, history, accidents>>

In(h, phase) == ~exited /\ thread[h].phase = phase

StartHandler(h) ==
  /\ In(h, "start")
  /\ thread' = [thread EXCEPT ![h].phase = "command", ![h].sock = client_sock]
  /\ Accident("stolen", client_sock # h)
  /\ UNCHANGED <<gui, listenq, conns, backlog, client_sock, sims, history>>

(* connection_handler: what arrives is a command only if it is exactly GAC *)
(* or GHF; anything else is ignored.                                       *)
RecvCommand(h) ==
  LET s == thread[h].sock IN
  /\ In(h, "command")
  /\ \E k \in 1..Len(up[s]) :
       LET cmd == Received(up[s], k) IN
       /\ up' = [up EXCEPT ![s] = Rest(@, k)]
       /\ IF cmd \in {<<GAC>>, <<GHF>>}
          THEN /\ thread' = [thread EXCEPT ![h].phase = cmd[1][1]]
               /\ down' = [down EXCEPT ![s] = Append(@, ACK)]
          ELSE UNCHANGED <<thread, down>>
  /\ UNCHANGED <<gui, listenq, backlog, client_sock, sims, history, accidents>>

(* Mutant: cnt is not reset after the last field.                          *)
StoreGacFieldKeepsCnt(th, field) ==
  CASE th.cnt = 0 -> [th EXCEPT !.path = field, !.cnt = 1]
    [] th.cnt = 1 -> [th EXCEPT !.filename = field, !.cnt = 2]
    [] OTHER -> [th EXCEPT !.deviceType = field, !.phase = "generate"]

(* The fields of GAC: path, name of the program and device type.           *)
StoreGacField(th, field) ==
  CASE th.cnt = 0 -> [th EXCEPT !.path = field, !.cnt = 1]
    [] th.cnt = 1 -> [th EXCEPT !.filename = field, !.cnt = 2]
    [] OTHER -> [th EXCEPT !.deviceType = field, !.cnt = 0, !.phase = "generate"]

RecvGacField(h) ==
  LET s == thread[h].sock IN
  /\ In(h, "GAC")
  /\ \E k \in 1..Len(up[s]) :
       /\ up' = [up EXCEPT ![s] = Rest(@, k)]
       /\ thread' = [thread EXCEPT ![h] = StoreGacField(@, Received(up[s], k))]
  /\ UNCHANGED <<gui, listenq, down, backlog, client_sock, sims, history,
                 accidents>>

(* Mutant: the second acknowledgement is forgotten.                        *)
GenerateSilent(h) ==
  /\ In(h, "generate")
  /\ thread' = [thread EXCEPT ![h].phase = "command"]
  /\ UNCHANGED <<gui, listenq, conns, backlog, client_sock, sims, history,
                 accidents>>

(* generateAssemblyCode and generateHexFile run the tool chain.            *)
Generate(h) ==
  /\ In(h, "generate")
  /\ thread' = [thread EXCEPT ![h].phase = "command"]
  /\ down' = [down EXCEPT ![thread[h].sock] = Append(@, ACK)]
  /\ UNCHANGED <<gui, listenq, up, backlog, client_sock, sims, history,
                 accidents>>

(* deviceType is an uninitialised array until this thread has had a GAC.   *)
SimulatorChosen(h) ==
  IF thread[h].deviceType = <<>> THEN BOOLEAN
  ELSE {thread[h].deviceType = <<Device("Or1ksim")>>}

(* The fields of GHF: path and name.  Then process starts the simulator or *)
(* the board.                                                              *)
RecvGhfField(h) ==
  LET s == thread[h].sock IN
  /\ In(h, "GHF")
  /\ \E k \in 1..Len(up[s]) :
       LET field == Received(up[s], k) IN
       /\ up' = [up EXCEPT ![s] = Rest(@, k)]
       /\ \/ /\ thread[h].cnt = 0
             /\ thread' = [thread EXCEPT ![h].path = field, ![h].cnt = 1]
             /\ UNCHANGED <<sims, printed>>
          \/ /\ thread[h].cnt = 1
             /\ \E simulate \in SimulatorChosen(h) :
                  /\ thread' = [thread EXCEPT ![h] =
                        [@ EXCEPT !.filename = field, !.cnt = 0, !.line = <<>>,
                           !.phase = IF simulate THEN "simulate" ELSE "board"]]
                  /\ sim' = [sim EXCEPT ![h] = IF simulate THEN "boot" ELSE @]
             /\ simOut' = [simOut EXCEPT ![h] = <<>>]
             /\ simAck' = [simAck EXCEPT ![h] = 0]
             /\ printed' = [printed EXCEPT ![h] = 0]
  /\ UNCHANGED <<gui, listenq, down, backlog, client_sock, asked, shown,
                 accidents>>

(* system() returns when the simulator has ended.                          *)
SimulatorEnded(h) ==
  /\ In(h, "simulate") /\ sim[h] = "gone"
  /\ thread' = [thread EXCEPT ![h].phase = "command"]
  /\ UNCHANGED <<gui, listenq, conns, backlog, client_sock, sims, history,
                 accidents>>

-----------------------------------------------------------------------------
(* process on a board: the words that come from it.                        *)

(* A character is kept; a carriage return sends the line, with a NUL added *)
(* that ends the string, to the GUI.  Nothing bounds the line by the size  *)
(* of its buffer.                                                          *)
BoardChar(h, isNul, isCR) ==
  LET c == IF isNul THEN NUL ELSE printed[h] + 1
      line == Append(thread[h].line, c)
      bytes == Len(line) + (IF isCR THEN 1 ELSE 0)
  IN
  /\ In(h, "board") /\ printed[h] < MAX_OUT /\ ~(isNul /\ isCR)
  /\ printed' = [printed EXCEPT ![h] = @ + 1]
  /\ thread' = [thread EXCEPT ![h].line = line,
                             ![h].phase = IF isCR THEN "line" ELSE @]
  /\ down' = IF isCR
             THEN [down EXCEPT ![thread[h].sock] = Append(@, Line(line))]
             ELSE down
  /\ accidents' = accidents \cup (IF isNul THEN {"nul"} ELSE {})
                            \cup (IF bytes > BUF THEN {"overflow"} ELSE {})
  /\ UNCHANGED <<gui, listenq, up, backlog, client_sock, sims, asked, shown>>

(* The line is sent again until the answer is ACK.                         *)
RecvLineAck(h) ==
  LET s == thread[h].sock IN
  /\ In(h, "line") /\ up[s] # <<>>
  /\ up' = [up EXCEPT ![s] = Tail(@)]
  /\ IF Head(up[s]) = ACK
     THEN /\ thread' = [thread EXCEPT ![h].phase = "board", ![h].line = <<>>]
          /\ UNCHANGED down
     ELSE /\ down' = [down EXCEPT ![s] = Append(@, Line(thread[h].line))]
          /\ UNCHANGED thread
  /\ UNCHANGED <<gui, listenq, backlog, client_sock, sims, history, accidents>>

(* The end of the program: what was printed behind the last carriage       *)
(* return is not sent.  Then the board's memory is saved.                  *)
BoardEnd(h) ==
  /\ In(h, "board")
  /\ thread' = [thread EXCEPT ![h].phase = "save"]
  /\ down' = [down EXCEPT ![thread[h].sock] = Append(@, END)]
  /\ UNCHANGED <<gui, listenq, up, backlog, client_sock, sims, history,
                 accidents>>

SaveMemory(h) ==
  /\ In(h, "save")
  /\ thread' = [thread EXCEPT ![h].phase = "command"]
  /\ UNCHANGED <<gui, listenq, conns, backlog, client_sock, sims, history,
                 accidents>>

-----------------------------------------------------------------------------
(* The simulator.                                                          *)

(* connectToHost, at the start of main: exits when nobody listens.         *)
SimConnect(h) ==
  /\ ~exited /\ sim[h] = "boot"
  /\ IF bound
     THEN /\ sim' = [sim EXCEPT ![h] = "run"]
          /\ listenq' = Append(listenq, h)
     ELSE /\ sim' = [sim EXCEPT ![h] = "gone"]
          /\ UNCHANGED listenq
  /\ Accident("refused", ~bound)
  /\ UNCHANGED <<gui, conns, server, simOut, simAck, history>>

(* Mutant: the next character is sent without waiting for ACK.             *)
send_charNoWait(h, isNul) ==
  /\ ~exited /\ sim[h] = "run" /\ printed[h] < MAX_OUT
  /\ printed' = [printed EXCEPT ![h] = @ + 1]
  /\ simOut' = [simOut EXCEPT ![h] =
                  Append(@, IF isNul THEN NUL ELSE printed[h] + 1)]
  /\ Accident("nul", isNul)
  /\ UNCHANGED <<gui, listenq, conns, server, sim, simAck, asked, shown>>

(* send_char: one character, then wait for ACK.                            *)
send_char(h, isNul) ==
  /\ ~exited /\ sim[h] = "run" /\ printed[h] < MAX_OUT
  /\ printed' = [printed EXCEPT ![h] = @ + 1]
  /\ simOut' = [simOut EXCEPT ![h] =
                  Append(@, IF isNul THEN NUL ELSE printed[h] + 1)]
  /\ sim' = [sim EXCEPT ![h] = "ack"]
  /\ Accident("nul", isNul)
  /\ UNCHANGED <<gui, listenq, conns, server, simAck, asked, shown>>

SimRecvAck(h) ==
  /\ ~exited /\ sim[h] = "ack" /\ simAck[h] > 0
  /\ simAck' = [simAck EXCEPT ![h] = @ - 1]
  /\ sim' = [sim EXCEPT ![h] = "run"]
  /\ UNCHANGED <<gui, listenq, conns, server, simOut, history, accidents>>

SimExit(h) ==
  /\ ~exited /\ sim[h] = "run"
  /\ sim' = [sim EXCEPT ![h] = "gone"]
  /\ UNCHANGED <<gui, listenq, conns, server, simOut, simAck, history, accidents>>

-----------------------------------------------------------------------------
User ==
  \/ loadProject
  \/ \E d \in Devices : changeDevice(d)
  \/ \E t \in Tabs :
       \/ openNewTab(t) \/ on_compile_clicked(t) \/ on_run_clicked(t)

Handler ==
  \E t \in Tabs :
    \/ RecvCommandAck(t, "compile_command", "compile_path")
    \/ SendName(t, "compile_path", "compile_name")
    \/ SendDevice(t) \/ RecvCompiled(t) \/ ShowAssembly(t)
    \/ RecvCommandAck(t, "run_command", "run_path")
    \/ SendRunName(t) \/ Bind(t) \/ AcceptSim(t)
    \/ \E isVisible \in BOOLEAN :
         recvFromOr1ksim(t, isVisible) \/ RecvFromBoard(t, isVisible)
    \/ AckSim(t) \/ AckBoard(t) \/ ShowMemory(t)

Thread(h) ==
  \/ StartHandler(h) \/ RecvCommand(h) \/ RecvGacField(h) \/ Generate(h)
  \/ RecvGhfField(h) \/ SimulatorEnded(h)
  \/ \E isNul, isCR \in BOOLEAN : BoardChar(h, isNul, isCR)
  \/ RecvLineAck(h) \/ BoardEnd(h) \/ SaveMemory(h)

Simulator(h) ==
  \/ SimConnect(h) \/ SimRecvAck(h) \/ SimExit(h)
  \/ \E isNul \in BOOLEAN : send_char(h, isNul)

Next == User \/ Handler \/ Accept \/ \E h \in Tabs : Thread(h) \/ Simulator(h)

Spec == Init /\ [][Next]_vars

(* Every process goes on when it can, and every program ends.  A delay     *)
(* whose time is over ends although the user goes on clicking: the loop of *)
(* delay looks at the time after each round of events.  So does setData,   *)
(* which handles the events that have come and returns.                    *)
FairSpec ==
  /\ Spec
  /\ WF_vars(Accept)
  /\ \A h \in Tabs : WF_vars(Thread(h)) /\ WF_vars(Simulator(h))
  /\ \A d \in 1..DEPTH : SF_vars(Len(stack) = d /\ Handler)

(* The bound of the model checker's search: once output has been hidden or *)
(* a NUL printed, the conversations under way are followed to their ends.  *)
NoNewClicks ==
  accidents' \cap {"hidden", "nul"} # {} => Len(stack') <= Len(stack)

-----------------------------------------------------------------------------
(* After these accidents the GUI and the server disagree about what the    *)
(* segments mean, or the server has written beyond a buffer, and nothing   *)
(* is claimed any more.                                                    *)
OnTrack == accidents \cap {"slow", "reentered", "stolen", "overflow"} = {}

(* Every file the server generates and every program it starts are those   *)
(* the user asked for: path, name and device arrive in their places, and   *)
(* GHF runs the program for the device it was compiled for.                *)
FieldsIntact ==
  OnTrack =>
    \A h \in Tabs :
      thread[h].phase \in {"generate", "simulate", "board", "line", "save"} =>
        /\ thread[h].path = <<Path(h)>> /\ thread[h].filename = <<Name(h)>>
        /\ thread[h].deviceType = <<Device(asked[h])>>

(* When no handler runs, no conversation is left half finished: nothing is *)
(* on its way, and the server waits for a command.                         *)
Synchronised ==
  accidents = {} /\ stack = <<>> =>
    \A t \in opened :
      /\ up[t] = <<>> /\ down[t] = <<>>
      /\ thread[t].phase \in {"none", "start", "command"} /\ thread[t].cnt = 0

(* GUI and server agree on what has been said (connection_handler and the  *)
(* handlers of newtab.cpp), in the middle of a conversation and after it.  *)
ConversationSound == FieldsIntact /\ Synchronised

(* After a run during which the UART window was open the user has seen all *)
(* that the program printed, once and in order, but for a board's text     *)
(* behind the last carriage return, whatever other clicks were handled     *)
(* between two pieces of it.                                               *)
OutputShown ==
  accidents = {} /\ stack = <<>> =>
    \A t \in Tabs :
      shown[t] \o thread[t].line = [i \in 1..printed[t] |-> i]

(* Every click is dealt with, unless an accident happens: there are no     *)
(* other ways for the GUI to wait for ever.                                *)
HandlersReturn == stack # <<>> ~> (stack = <<>> \/ accidents # {})
=============================================================================
