-------------------------------- MODULE Rsp ---------------------------------
(***************************************************************************)
(* The GDB remote server (debug/rsp-server.c), with the main loop that     *)
(* calls it while the processor is stalled (execute.c) and the part of the *)
(* debug unit that stalls and releases the processor.  GDB itself is the   *)
(* environment: it sends one request at a time, repeats it when it gets a  *)
(* negative acknowledgement or no answer in time, and may go away.         *)
(*                                                                         *)
(* A packet is a token whose checksum is right or wrong.  handle_rsp()     *)
(* blocks on the connection, so "at" records what it waits for: a request, *)
(* or the acknowledgement of a reply ("after" is what it does then).       *)
(* A packet that arrives instead is read by put_packet() a character at a  *)
(* time, and what is left of it is "junk" to whoever reads next.           *)
(* Registers other than the program counters are left out, and so are the  *)
(* acknowledgements that get_packet() sends.  "prog" is the program as GDB *)
(* wrote it, "over" the words that it wrote over a breakpoint of its own.  *)
(***************************************************************************)
EXTENDS Device

CONSTANTS
  RspAddrs,    \* word addresses of the program: 0 .. n
  RspWritten,  \* those of them that GDB writes to
  RspWords,    \* instructions that it writes
  RspQueue     \* bound on the tokens under way in one direction

ASSUME RspAssumption ==
  0 \in RspAddrs /\ RspAddrs \subseteq Nat /\ RspWritten \subseteq RspAddrs

(* "?" stands for every request that is only answered (g, G, m, p, H, q, T,*)
(* and what is refused with E01), "C" for those that are dropped without a *)
(* reply (C, S, k, b, F, r, t, unknown queries and commands), and "long"   *)
(* for one that does not fit into the buffer, as G with all the registers  *)
(* does not.  Packets with binary data, and queries such as qSupported,    *)
(* may hold a "+".                                                         *)
RspPlain == "?"
RspSilent == {"C", "R", "long"}
RspHoldsPlus == {"X", RspPlain}
RspRequests ==
  [op : {RspPlain, "vRun", "c", "s", "i", "D"} \cup RspSilent, a : {0}, v : {0}]
    \cup [op : {"Z", "z", "P"}, a : RspAddrs, v : {0}]
    \cup [op : {"X"}, a : RspWritten, v : RspWords]

Pkt(r) == [t |-> "pkt", r |-> r, ok |-> TRUE]
NoRequest == [op |-> RspPlain, a |-> 0, v |-> 0]
BadPkt == [t |-> "pkt", r |-> NoRequest, ok |-> FALSE]   \* whatever it asks for
Token(c) == [t |-> c, r |-> NoRequest, ok |-> TRUE]

rsp_init ==
  [kind |-> "rsp", at |-> "top", after |-> "none",
   open |-> FALSE, waiting |-> FALSE, sigval |-> 0, start |-> 0,
   bps |-> {}, instr |-> [a \in RspAddrs |-> 0],
   mem |-> [a \in RspAddrs |-> 0], prog |-> [a \in RspAddrs |-> 0],
   over |-> {},
   pc |-> 0, ppc |-> 0, st |-> FALSE, stalled |-> TRUE,
   gdb |-> "gone", req |-> NoRequest, resent |-> FALSE, fooled |-> FALSE,
   in |-> <<>>, out |-> <<>>]

RspTrap == 0 - 1     \* OR1K_TRAP_INSTR
SIG_TRAP == 5
-----------------------------------------------------------------------------
(* set_stall_state(), and the exception that the debugger has asked for or *)
(* has not (DSR): debug_ignore_exception() sets the stall state either way.*)
rsp_set_stall_state(s, b) == [s EXCEPT !.stalled = b]

rsp_debug_ignore(s, intercepted) ==
  IF intercepted THEN [rsp_set_stall_state(s, TRUE) EXCEPT !.sigval = SIG_TRAP]
  ELSE rsp_set_stall_state(s, FALSE)

set_npc(s, a) == [s EXCEPT !.pc = a]

(* The matchpoint table: one entry for an address.                         *)
HashAddTwice(s, a) == [s EXCEPT !.bps = @ \cup {a}, !.instr[a] = s.mem[a]]
mp_hash_add(s, a) ==
  IF a \in s.bps THEN s
  ELSE [s EXCEPT !.bps = @ \cup {a}, !.instr[a] = s.mem[a]]
mp_hash_delete(s, a) == [s EXCEPT !.bps = @ \ {a}, !.instr[a] = 0]

rsp_insert_matchpoint(s, a) ==
  LET w == mp_hash_add(s, a) IN [w EXCEPT !.mem[a] = RspTrap]

rsp_remove_matchpoint(s, a) ==
  LET w == mp_hash_delete(s, a)
  IN  IF a \in s.bps THEN [w EXCEPT !.mem[a] = s.instr[a]] ELSE w

(* rsp_continue_generic() and rsp_step_generic().                          *)
rsp_resume(s, step) ==
  [rsp_set_stall_state(s, FALSE) EXCEPT !.st = step, !.sigval = 0,
                                        !.waiting = TRUE]

(* put_packet() sends and waits for the acknowledgement; a closed          *)
(* connection fails it silently.                                           *)
put_packet(s, after) ==
  [s EXCEPT !.out = IF s.open THEN Append(@, "reply") ELSE @,
            !.at = IF s.open THEN "ack" ELSE "top",
            !.after = IF s.open THEN after ELSE "none"]

rsp_client_close(s) == [s EXCEPT !.open = FALSE]

(* The requests that change the program or its counter; the registers of   *)
(* G and the bytes of M are written the way P and X write theirs.  A write *)
(* does not look for a breakpoint: it replaces the trap, and the entry     *)
(* keeps the old instruction.                                              *)
rsp_write_reg(s, a) == put_packet(set_npc(s, a), "none")
rsp_write_mem(s, a, v) ==
  put_packet([s EXCEPT !.mem[a] = v, !.prog[a] = v,
                       !.over = IF a \in s.bps THEN @ \cup {a} ELSE @ \ {a}],
             "none")
rsp_vpkt(s) == put_packet(set_npc(s, s.start), "none")
rsp_restart(s) == [set_npc(s, s.start) EXCEPT !.at = "top"]

(* rsp_client_request(), for a packet with the right checksum.             *)
rsp_client_request(s, r) ==
  CASE r.op = "c" -> [rsp_resume(s, FALSE) EXCEPT !.at = "top"]
    [] r.op = "s" -> [rsp_resume(s, TRUE) EXCEPT !.at = "top"]
    [] r.op = "i" -> [s EXCEPT !.waiting = TRUE, !.at = "top"]
    [] r.op = "D" -> put_packet(s, "detach")
    [] r.op = "Z" -> put_packet(rsp_insert_matchpoint(s, r.a), "none")
    [] r.op = "z" -> put_packet(rsp_remove_matchpoint(s, r.a), "none")
    [] r.op = "P" -> rsp_write_reg(s, r.a)
    [] r.op = "X" -> rsp_write_mem(s, r.a, r.v)
    [] r.op = "vRun" -> rsp_vpkt(s)
    [] r.op = "R" -> rsp_restart(s)
    [] r.op = "C" -> [s EXCEPT !.at = "top"]
    [] OTHER -> put_packet(s, "none")

(* The unacknowledged exception, reported before the next request.         *)
rsp_report(s) ==
  LET hit == s.sigval = SIG_TRAP /\ s.ppc \in s.bps
  IN  put_packet(IF hit THEN set_npc(s, s.ppc) ELSE s, "report")

(* What follows a reply once it is acknowledged.                           *)
RspAfter(s) ==
  LET w == [s EXCEPT !.at = IF s.after = "report" THEN "req" ELSE "top",
                     !.after = "none"]
  IN  CASE s.after = "detach" ->
             [rsp_set_stall_state(rsp_client_close(w), FALSE) EXCEPT !.sigval = 0]
        [] s.after = "report" -> [w EXCEPT !.waiting = FALSE]
        [] OTHER -> w

(* A character that is not "+" makes put_packet() send the reply again.    *)
RspResend(s) == [s EXCEPT !.out = Append(@, "reply")]
-----------------------------------------------------------------------------
RspInit == dev = rsp_init

Serving == Is("rsp") /\ dev.stalled

(* rsp_get_client() accepts a connection.                                  *)
RspAccept ==
  /\ Serving /\ dev.at = "top" /\ ~dev.open
  /\ dev' = [dev EXCEPT !.open = TRUE, !.waiting = FALSE, !.in = <<>>,
                        !.out = <<>>, !.gdb = "idle", !.at = "req"]

RspHandle ==
  /\ Serving /\ dev.at = "top" /\ dev.open
  /\ dev' = IF dev.waiting THEN rsp_report(dev) ELSE [dev EXCEPT !.at = "req"]

(* get_packet(): what comes before a "$" is skipped, a wrong checksum is   *)
(* refused, and a packet that overruns the buffer is dropped: no "+", no   *)
(* "-".                                                                    *)
RspRequest ==
  /\ Serving /\ dev.at = "req" /\ dev.open
  /\ dev.in # <<>> /\ Len(dev.out) < RspQueue
  /\ LET k == Head(dev.in)
         s == [dev EXCEPT !.in = Tail(@)]
     IN  dev' = IF k.t # "pkt" THEN s
                ELSE IF ~k.ok THEN [s EXCEPT !.out = Append(@, "nak")]
                ELSE IF k.r.op = "long" THEN s
                ELSE rsp_client_request(s, k.r)

(* put_packet() reads the acknowledgement, one character: a "+", another   *)
(* one, or one of a packet, of which "more" is still to be read.  A "+" in *)
(* the packet is an acknowledgement like any other ("fooled").             *)
RspAck ==
  /\ Is("rsp") /\ dev.at = "ack" /\ dev.open
  /\ dev.in # <<>> /\ Len(dev.out) < RspQueue
  /\ LET k == Head(dev.in)
         last == [dev EXCEPT !.in = Tail(@)]
         more == [dev EXCEPT !.in[1].t = "junk"]
     IN  \/ k.t = "+" /\ dev' = RspAfter(last)
         \/ k.t # "+" /\ dev' = RspResend(last)
         \/ k.t \in {"pkt", "junk"} /\ dev' = RspResend(more)
         \/ /\ k.t \in {"pkt", "junk"} /\ k.r.op \in RspHoldsPlus
            /\ dev' = [RspAfter(more) EXCEPT !.fooled = TRUE]

(* End of file on the connection.                                          *)
RspEof ==
  /\ Is("rsp") /\ dev.at \in {"req", "ack"} /\ dev.open
  /\ dev.gdb = "gone" /\ dev.in = <<>>
  /\ LET s == [rsp_client_close(dev) EXCEPT !.out = <<>>]
     IN  dev' = IF dev.at = "ack" THEN RspAfter(s) ELSE [s EXCEPT !.at = "top"]

(* A read on the connection that rsp_report() has just closed.             *)
RspClosed ==
  /\ Is("rsp") /\ dev.at = "req" /\ ~dev.open
  /\ dev' = [dev EXCEPT !.at = "top"]

(* One round of exec_main(): an instruction, the check for single step,    *)
(* and perhaps a tick exception, which nobody asked the debug unit for.    *)
RspExecute ==
  /\ Is("rsp") /\ ~dev.stalled
  /\ \E tick \in BOOLEAN :
       LET next == IF dev.pc + 1 \in RspAddrs THEN dev.pc + 1 ELSE 0
           s1 == [dev EXCEPT !.ppc = dev.pc, !.pc = next]
           s2 == IF dev.mem[dev.pc] = RspTrap THEN rsp_debug_ignore(s1, TRUE) ELSE s1
           s3 == IF dev.st
                 THEN [rsp_set_stall_state(s2, TRUE) EXCEPT !.sigval = SIG_TRAP]
                 ELSE s2
       IN  dev' = IF tick THEN [rsp_debug_ignore(s3, FALSE) EXCEPT !.pc = 0] ELSE s3
-----------------------------------------------------------------------------
(* GDB (external), which may also detach with its breakpoints in place.    *)
GdbSend ==
  /\ Is("rsp") /\ dev.gdb = "idle" /\ Len(dev.in) < RspQueue
  /\ \E r \in RspRequests, ok \in BOOLEAN :
       dev' = [dev EXCEPT !.gdb = "sent", !.req = r, !.fooled = FALSE,
                    !.in = Append(@, IF ok THEN Pkt(r) ELSE BadPkt)]

(* No answer in time; GDB does not repeat what resumes the program.        *)
GdbRepeat ==
  /\ Is("rsp") /\ dev.gdb = "sent" /\ ~dev.resent /\ Len(dev.in) < RspQueue
  /\ dev.req.op \in {"Z", "z", "P", "?"}
  /\ dev' = [dev EXCEPT !.resent = TRUE, !.in = Append(@, Pkt(dev.req))]

GdbReceive ==
  /\ Is("rsp") /\ dev.gdb \in {"idle", "sent"} /\ dev.out # <<>>
  /\ Len(dev.in) < RspQueue
  /\ \E good \in BOOLEAN :
       LET s == [dev EXCEPT !.out = Tail(@)] IN
       dev' = IF Head(dev.out) = "nak"
              THEN IF dev.gdb = "sent" THEN [s EXCEPT !.in = Append(@, Pkt(dev.req))]
                   ELSE s
              ELSE IF good
              THEN [s EXCEPT !.gdb = "idle", !.req = NoRequest, !.resent = FALSE,
                             !.in = Append(@, Token("+"))]
              ELSE [s EXCEPT !.in = Append(@, Token("-"))]

GdbLeave ==
  /\ Is("rsp") /\ dev.gdb \in {"idle", "sent"}
  /\ dev' = [dev EXCEPT !.gdb = "gone", !.req = NoRequest, !.resent = FALSE]

RspNext == \/ RspAccept \/ RspHandle \/ RspRequest \/ RspAck \/ RspEof
           \/ RspClosed \/ RspExecute
           \/ GdbSend \/ GdbRepeat \/ GdbReceive \/ GdbLeave

RspSpec == RspInit /\ [][RspNext]_dev
-----------------------------------------------------------------------------
(* "The implementation must cope with the possibility of duplicate         *)
(* packets": whatever GDB repeats, a word with a breakpoint holds the trap *)
(* and its entry the program's instruction, and every other word holds the *)
(* program's instruction: only what GDB wrote over a breakpoint is         *)
(* different, until it writes the word again without one.                  *)
RspBreakpoints ==
  Is("rsp") => \A a \in RspAddrs \ dev.over :
    IF a \in dev.bps THEN dev.mem[a] = RspTrap /\ dev.instr[a] = dev.prog[a]
    ELSE dev.mem[a] = dev.prog[a]

(* GDB is never left waiting while the server waits for GDB: an open       *)
(* request is on the wire, being served, or a stop that is still to come,  *)
(* unless it is one of those the server ignores or has no room for, or the *)
(* server has taken a "+" inside the repeated request for the              *)
(* acknowledgement of its reply, and so will not send the reply again:     *)
(* then it is GDB's next timeout that ends the wait.                       *)
RspNobodyForgotten ==
  Is("rsp") /\ dev.gdb = "sent" /\ dev.open
    /\ dev.req.op \notin RspSilent /\ ~dev.fooled =>
    \/ dev.in # <<>> \/ dev.out # <<>>
    \/ dev.waiting \/ dev.at = "top"

(* The server for GDB under repeated, damaged and refused packets          *)
(* (get_packet, put_packet, rsp_insert_matchpoint): breakpoints are        *)
(* what GDB asked for, and nobody waits for ever.                          *)
RspSound == RspBreakpoints /\ RspNobodyForgotten
=============================================================================
