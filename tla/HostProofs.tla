----------------------------- MODULE HostProofs -----------------------------
(***************************************************************************)
(* What connects the simulator to its host, for every value of the         *)
(* constants: the server for GDB, the memory areas, the channels, the      *)
(* debug unit, the JTAG interface and the VAPI server.                     *)
(***************************************************************************)
EXTENDS Rsp, Areas, Channels, Jtag, Vapi, DataLemmas, FiniteSetTheorems, TLAPS

-----------------------------------------------------------------------------
(* The server for GDB.                                                     *)

(* What may be on its way to the server.                                   *)
RspPackets == [t : {"pkt", "junk", "+", "-"}, r : RspRequests, ok : BOOLEAN]

(* What a word of the program, and an entry of the table, may hold.        *)
RspValues == RspWords \cup {0, RspTrap}

(* The states of the server, its processor and GDB.                        *)
RspStates ==
  [kind : {"rsp"}, at : {"top", "req", "ack"},
   after : {"none", "detach", "report"}, open : BOOLEAN, waiting : BOOLEAN,
   sigval : Int, start : RspAddrs, bps : SUBSET RspAddrs,
   instr : [RspAddrs -> RspValues], mem : [RspAddrs -> RspValues],
   prog : [RspAddrs -> RspValues], over : SUBSET RspAddrs, pc : RspAddrs,
   ppc : RspAddrs, st : BOOLEAN, stalled : BOOLEAN,
   gdb : {"gone", "idle", "sent"}, req : RspRequests, resent : BOOLEAN,
   fooled : BOOLEAN,
   in : Seq(RspPackets), out : Seq({"reply", "nak"})]

(* An open request is on the wire (perhaps damaged), with no               *)
(* acknowledgement behind it; or the server has seen it, no                *)
(* acknowledgement is on its way, and there is an answer to come: a reply  *)
(* that is being exchanged, the report of a stop, or a refusal that makes  *)
(* GDB send it again.  Not so when a "+" in a packet fooled the server.    *)
OnTheWire(s, p) ==
  /\ s.in[p].t = "pkt" /\ (s.in[p].ok = TRUE => s.in[p].r = s.req)
  /\ \A i \in 1 .. Len(s.in) : i > p => s.in[i].t # "+"
AnswerDue(s) ==
  /\ \A i \in 1 .. Len(s.in) : s.in[i].t # "+"
  /\ \/ s.at = "ack" /\ (s.in # <<>> \/ s.out # <<>>)
     \/ s.waiting = TRUE
     \/ \E i \in 1 .. Len(s.out) : s.out[i] = "nak"
Remembered(s) ==
  s.gdb = "sent" /\ s.req.op \notin RspSilent /\ s.open = TRUE
    /\ s.fooled = FALSE =>
    (\E p \in 1 .. Len(s.in) : OnTheWire(s, p)) \/ AnswerDue(s)

(* A word and its entry, but for those that GDB wrote over a breakpoint.   *)
WordsKept(s) ==
  \A a \in RspAddrs \ s.over :
    IF a \in s.bps THEN s.mem[a] = RspTrap /\ s.instr[a] = s.prog[a]
    ELSE s.mem[a] = s.prog[a]

(* The inductive invariant.                                                *)
RspInv == dev \in RspStates /\ WordsKept(dev) /\ Remembered(dev)

(* What an operation of the server must leave as it is for the connection  *)
(* to be what GDB left.                                                    *)
SameLink(t, s) ==
  t.in = s.in /\ t.gdb = s.gdb /\ t.req = s.req /\ t.open = s.open
  /\ t.fooled = s.fooled

(* A sequence that something has been added to is not empty.               *)
LEMMA AppendFilled ==
  ASSUME NEW S, NEW q \in Seq(S), NEW x \in S
  PROVE  Append(q, x) \in Seq(S) /\ Append(q, x) # <<>>
<1>1. Append(q, x) \in Seq(S) /\ Len(Append(q, x)) = Len(q) + 1 /\ Len(q) \in Nat
  OBVIOUS
<1> QED BY <1>1

(* put_packet() on an open connection sends one reply and waits.           *)
LEMMA PutSends ==
  ASSUME NEW s \in RspStates, s.open = TRUE, WordsKept(s),
         NEW w \in {"none", "detach", "report"}, NEW t, t = put_packet(s, w)
  PROVE  /\ t \in RspStates /\ WordsKept(t) /\ SameLink(t, s)
         /\ t.out = Append(s.out, "reply") /\ t.at = "ack"
         /\ t.waiting = s.waiting /\ t.pc = s.pc
<1>1. t = [s EXCEPT !.out = Append(s.out, "reply"), !.at = "ack", !.after = w]
  BY DEF put_packet
<1>2. Append(s.out, "reply") \in Seq({"reply", "nak"})
  BY DEF RspStates
<1>3. t \in RspStates
  BY <1>1, <1>2, ZenonT(60) DEF RspStates
<1> QED BY <1>1, <1>3 DEF RspStates, SameLink, WordsKept

(* What the server does with a request that arrived undamaged: the words   *)
(* and their entries stay right, and a request that is not ignored is      *)
(* answered now or with the next stop.                                     *)
Served(t, s, r) ==
  /\ t \in RspStates /\ WordsKept(t) /\ SameLink(t, s)
  /\ (t.out = s.out \/ t.out = Append(s.out, "reply"))
  /\ (s.waiting = TRUE => t.waiting = TRUE)
  /\ (r.op \notin RspSilent =>
        t.waiting = TRUE \/ (t.at = "ack" /\ t.out = Append(s.out, "reply")))

(* Every request is served so.                                             *)
LEMMA RequestServed ==
  ASSUME NEW s \in RspStates, s.open = TRUE, WordsKept(s),
         NEW r \in RspRequests, r.op # "long",
         NEW t, t = rsp_client_request(s, r)
  PROVE  Served(t, s, r)
<1>1. ASSUME NEW u \in RspStates, WordsKept(u), SameLink(u, s),
             u.out = s.out, u.waiting = s.waiting,
             NEW w \in {"none", "detach", "report"}, t = put_packet(u, w)
      PROVE  Served(t, s, r)
  <2>1. u.open = TRUE
    BY <1>1 DEF SameLink
  <2>2. /\ t \in RspStates /\ WordsKept(t) /\ SameLink(t, u)
        /\ t.out = Append(u.out, "reply") /\ t.at = "ack"
        /\ t.waiting = u.waiting
    BY <1>1, <2>1, PutSends, ZenonT(90)
  <2> QED BY <1>1, <2>2 DEF SameLink, Served
<1>2. CASE r.op \in {"c", "s"}
  <2>1. PICK b \in BOOLEAN : t = [s EXCEPT !.stalled = FALSE, !.st = b,
           !.sigval = 0, !.waiting = TRUE, !.at = "top"]
    BY <1>2 DEF rsp_client_request, rsp_resume, rsp_set_stall_state, RspStates
  <2> DEFINE u == [s EXCEPT !.stalled = FALSE, !.st = b]
             v == [u EXCEPT !.sigval = 0, !.waiting = TRUE]
  <2>2. t \in RspStates
    <3>1. u \in RspStates
      BY DEF RspStates
    <3>2. t = [v EXCEPT !.at = "top"]
      BY <2>1 DEF RspStates
    <3> HIDE DEF u
    <3>3. v \in RspStates
      <4>1. ASSUME NEW n \in Int PROVE [u EXCEPT !.sigval = n] \in RspStates
        BY <3>1 DEF RspStates
      <4> DEFINE x == [u EXCEPT !.sigval = 0]
      <4>2. x \in RspStates
        BY <4>1
      <4>3. v = [x EXCEPT !.waiting = TRUE]
        BY <3>1 DEF RspStates
      <4> HIDE DEF x, v
      <4> QED BY <4>2, <4>3 DEF RspStates
    <3> HIDE DEF v
    <3> QED BY <3>2, <3>3, ZenonT(60) DEF RspStates
  <2> QED BY <2>1, <2>2 DEF RspStates, WordsKept, SameLink, Served
<1>3. CASE r.op = "i"
  <2>1. t = [s EXCEPT !.waiting = TRUE, !.at = "top"]
    BY <1>3 DEF rsp_client_request
  <2>2. t \in RspStates
    BY <2>1, ZenonT(60) DEF RspStates
  <2> QED BY <2>1, <2>2 DEF RspStates, WordsKept, SameLink, Served
<1>4. CASE r.op = "D"
  <2>1. t = put_packet(s, "detach")
    BY <1>4 DEF rsp_client_request
  <2> QED BY <1>1, <2>1 DEF SameLink
<1>5. CASE r.op = "Z"
  <2>1. r.a \in RspAddrs
    BY <1>5, RspAssumption DEF RspRequests
  <2> DEFINE u == rsp_insert_matchpoint(s, r.a)
  <2>2. t = put_packet(u, "none")
    BY <1>5 DEF rsp_client_request
  <2>3. u = [s EXCEPT !.bps = s.bps \cup {r.a},
               !.instr = [s.instr EXCEPT ![r.a] = IF r.a \in s.bps THEN s.instr[r.a]
                                                  ELSE s.mem[r.a]],
               !.mem = [s.mem EXCEPT ![r.a] = RspTrap]]
    <3>1. CASE r.a \in s.bps
      <4>1. s.bps \cup {r.a} = s.bps
        BY <3>1
      <4>2. [s.instr EXCEPT ![r.a] = s.instr[r.a]] = s.instr
        BY <2>1 DEF RspStates
      <4>3. u = [s EXCEPT !.mem = [s.mem EXCEPT ![r.a] = RspTrap]]
        BY <3>1 DEF rsp_insert_matchpoint, mp_hash_add
      <4> HIDE DEF u
      <4> QED BY <3>1, <4>1, <4>2, <4>3 DEF RspStates
    <3>2. CASE r.a \notin s.bps
      BY <3>2, <2>1 DEF rsp_insert_matchpoint, mp_hash_add, RspStates
    <3> QED BY <3>1, <3>2
  <2> HIDE DEF u
  <2>4. /\ s.bps \cup {r.a} \in SUBSET RspAddrs
        /\ [s.instr EXCEPT ![r.a] = IF r.a \in s.bps THEN s.instr[r.a]
                                    ELSE s.mem[r.a]] \in [RspAddrs -> RspValues]
        /\ [s.mem EXCEPT ![r.a] = RspTrap] \in [RspAddrs -> RspValues]
    BY <2>1 DEF RspStates, RspValues
  <2>5. u \in RspStates
    BY <2>3, <2>4 DEF RspStates
  <2>6. WordsKept(u) /\ SameLink(u, s) /\ u.out = s.out /\ u.waiting = s.waiting
    BY <2>1, <2>3 DEF RspStates, WordsKept, SameLink
  <2> QED BY <1>1, <2>2, <2>5, <2>6
<1>6. CASE r.op = "z"
  <2>1. r.a \in RspAddrs
    BY <1>6, RspAssumption DEF RspRequests
  <2> DEFINE u == rsp_remove_matchpoint(s, r.a)
  <2>2. t = put_packet(u, "none")
    BY <1>6 DEF rsp_client_request
  <2>3. u = [s EXCEPT !.bps = s.bps \ {r.a}, !.instr = [s.instr EXCEPT ![r.a] = 0],
               !.mem = [s.mem EXCEPT ![r.a] = IF r.a \in s.bps THEN s.instr[r.a]
                                              ELSE s.mem[r.a]]]
    BY <2>1 DEF rsp_remove_matchpoint, mp_hash_delete, RspStates
  <2> HIDE DEF u
  <2>4. /\ s.bps \ {r.a} \in SUBSET RspAddrs
        /\ [s.instr EXCEPT ![r.a] = 0] \in [RspAddrs -> RspValues]
        /\ [s.mem EXCEPT ![r.a] = IF r.a \in s.bps THEN s.instr[r.a]
                                  ELSE s.mem[r.a]] \in [RspAddrs -> RspValues]
    BY <2>1 DEF RspStates, RspValues
  <2>5. u \in RspStates
    BY <2>3, <2>4 DEF RspStates
  <2>6. WordsKept(u) /\ SameLink(u, s) /\ u.out = s.out /\ u.waiting = s.waiting
    BY <2>1, <2>3 DEF RspStates, WordsKept, SameLink
  <2> QED BY <1>1, <2>2, <2>5, <2>6
<1>7. CASE r.op \in {"P", "vRun"}
  <2>1. PICK a \in RspAddrs : t = put_packet([s EXCEPT !.pc = a], "none")
    <3>1. r.a \in RspAddrs /\ s.start \in RspAddrs
      BY <1>7, RspAssumption DEF RspRequests, RspStates
    <3> QED BY <1>7, <3>1
              DEF rsp_client_request, rsp_write_reg, rsp_vpkt, set_npc
  <2> DEFINE u == [s EXCEPT !.pc = a]
  <2>2. /\ u \in RspStates /\ WordsKept(u) /\ SameLink(u, s)
        /\ u.out = s.out /\ u.waiting = s.waiting
    BY DEF RspStates, WordsKept, SameLink
  <2> QED BY <1>1, <2>1, <2>2
<1>8. CASE r.op = "X"
  <2>1. r.a \in RspAddrs /\ r.v \in RspValues
    BY <1>8, RspAssumption DEF RspRequests, RspValues, RspSilent, RspPlain
  <2> DEFINE u == [s EXCEPT !.mem = [s.mem EXCEPT ![r.a] = r.v],
               !.prog = [s.prog EXCEPT ![r.a] = r.v],
               !.over = IF r.a \in s.bps THEN s.over \cup {r.a} ELSE s.over \ {r.a}]
  <2>2. t = put_packet(u, "none")
    BY <1>8 DEF rsp_client_request, rsp_write_mem
  <2>3. /\ [s.mem EXCEPT ![r.a] = r.v] \in [RspAddrs -> RspValues]
        /\ [s.prog EXCEPT ![r.a] = r.v] \in [RspAddrs -> RspValues]
        /\ s.over \cup {r.a} \in SUBSET RspAddrs /\ s.over \ {r.a} \in SUBSET RspAddrs
    BY <2>1 DEF RspStates
  <2>4. u \in RspStates
    BY <2>3 DEF RspStates
  <2>5. WordsKept(u) /\ SameLink(u, s) /\ u.out = s.out /\ u.waiting = s.waiting
    BY <2>1 DEF RspStates, WordsKept, SameLink
  <2> QED BY <1>1, <2>2, <2>4, <2>5
<1>9. CASE r.op \in RspSilent
  <2>1. t = [s EXCEPT !.at = "top"] \/ t = [s EXCEPT !.pc = s.start, !.at = "top"]
    BY <1>9 DEF RspSilent, rsp_client_request, rsp_restart, set_npc
  <2>2. PICK a \in RspAddrs : t = [s EXCEPT !.pc = a, !.at = "top"]
    <3>1. s.pc \in RspAddrs /\ s.start \in RspAddrs
      BY DEF RspStates
    <3>2. [s EXCEPT !.at = "top"] = [s EXCEPT !.pc = s.pc, !.at = "top"]
      BY DEF RspStates
    <3> QED BY <2>1, <3>1, <3>2
  <2>3. t \in RspStates
    BY <2>2, ZenonT(60) DEF RspStates
  <2>4. t.waiting = s.waiting /\ t.out = s.out /\ WordsKept(t) /\ SameLink(t, s)
    BY <2>2, <2>3 DEF RspStates, WordsKept, SameLink
  <2> QED BY <1>9, <2>3, <2>4 DEF Served
<1>10. CASE r.op = RspPlain
  <2>1. t = put_packet(s, "none")
    BY <1>10 DEF rsp_client_request, RspPlain
  <2> QED BY <1>1, <2>1 DEF SameLink
<1>11. r.op \in {"c", "s", "i", "D", "Z", "z", "P", "vRun", "X", RspPlain} \cup RspSilent
  BY DEF RspRequests
<1> QED BY <1>2, <1>3, <1>4, <1>5, <1>6, <1>7, <1>8, <1>9, <1>10, <1>11

(* Whatever the step, GDB's open request is remembered when the packets on *)
(* their way, the answers and the waiting only change as the step allows.  *)
(* A token arrives behind the others.                                      *)
LEMMA TokenArrives ==
  ASSUME NEW s \in RspStates, NEW t \in RspStates, NEW k \in RspPackets,
         Remembered(s), t.in = Append(s.in, k), k.t # "+",
         t.gdb = s.gdb, t.req = s.req, t.open = s.open,
         t.fooled = s.fooled, t.at = s.at,
         t.waiting = s.waiting,
         \/ t.out = s.out
         \/ s.out # <<>> /\ t.out = Tail(s.out) /\ Head(s.out) = "reply"
  PROVE  Remembered(t)
<1> SUFFICES ASSUME t.gdb = "sent", t.req.op \notin RspSilent, t.open = TRUE,
                    t.fooled = FALSE
             PROVE  (\E p \in 1 .. Len(t.in) : OnTheWire(t, p)) \/ AnswerDue(t)
  BY DEF Remembered
<1>1. /\ Len(t.in) = Len(s.in) + 1 /\ Len(s.in) \in Nat
      /\ \A i \in 1 .. Len(s.in) : t.in[i] = s.in[i]
      /\ t.in[Len(s.in) + 1] = k
  BY DEF RspStates
<1>2. CASE \E p \in 1 .. Len(s.in) : OnTheWire(s, p)
  <2>1. PICK p \in 1 .. Len(s.in) : OnTheWire(s, p)
    BY <1>2
  <2>2. p \in 1 .. Len(t.in) /\ OnTheWire(t, p)
    BY <1>1, <2>1 DEF OnTheWire
  <2> QED BY <2>2
<1>3. CASE AnswerDue(s)
  <2>1. \A i \in 1 .. Len(t.in) : t.in[i].t # "+"
    BY <1>1, <1>3 DEF AnswerDue
  <2>2. t.in # <<>>
    BY AppendFilled DEF RspStates
  <2>3. ASSUME NEW i \in 1 .. Len(s.out), s.out[i] = "nak"
        PROVE  \E j \in 1 .. Len(t.out) : t.out[j] = "nak"
    <3>1. CASE t.out = s.out
      BY <2>3, <3>1
    <3>2. CASE s.out # <<>> /\ t.out = Tail(s.out) /\ Head(s.out) = "reply"
      <4>1. s.out[1] = "reply" /\ i # 1 /\ Len(s.out) \in Nat
        BY <2>3, <3>2 DEF RspStates
      <4>2. Len(t.out) = Len(s.out) - 1 /\ i - 1 \in 1 .. Len(t.out)
        BY <3>2, <4>1 DEF RspStates
      <4>3. t.out[i - 1] = s.out[i]
        BY <3>2, <4>2 DEF RspStates
      <4> QED BY <2>3, <4>2, <4>3
    <3> QED BY <3>1, <3>2
  <2> QED BY <1>3, <2>1, <2>2, <2>3 DEF AnswerDue
<1> QED BY <1>2, <1>3 DEF Remembered

(* The server takes the first token.                                       *)
LEMMA TokenTaken ==
  ASSUME NEW s \in RspStates, NEW t \in RspStates, s.in # <<>>,
         Remembered(s), t.in = Tail(s.in),
         t.gdb = s.gdb, t.req = s.req, t.open = s.open, t.fooled = s.fooled,
         t.out = s.out \/ (\E x \in {"reply", "nak"} : t.out = Append(s.out, x)),
         AnswerDue(s) /\ s.waiting = TRUE /\ t.waiting # TRUE =>
            t.at = "ack" /\ t.out # <<>>,
         AnswerDue(s) /\ s.at = "ack" => t.at = "ack" /\ t.out # <<>>,
         OnTheWire(s, 1) /\ s.req.op \notin RspSilent =>
            \/ t.at = "ack" /\ t.out # <<>>
            \/ t.waiting = TRUE
            \/ t.out = Append(s.out, "nak")
  PROVE  Remembered(t)
<1> SUFFICES ASSUME t.gdb = "sent", t.req.op \notin RspSilent, t.open = TRUE,
                    t.fooled = FALSE
             PROVE  (\E p \in 1 .. Len(t.in) : OnTheWire(t, p)) \/ AnswerDue(t)
  BY DEF Remembered
<1>1. /\ Len(t.in) = Len(s.in) - 1 /\ Len(s.in) \in Nat \ {0}
      /\ \A i \in 1 .. Len(t.in) : t.in[i] = s.in[i + 1]
  BY DEF RspStates
<1>2. Len(s.out) \in Nat /\ \A i \in 1 .. Len(s.out) :
        i \in 1 .. Len(t.out) /\ t.out[i] = s.out[i]
  <2>1. s.out \in Seq({"reply", "nak"})
    BY DEF RspStates
  <2>2. CASE t.out = s.out
    BY <2>1, <2>2
  <2>3. ASSUME NEW x \in {"reply", "nak"}, t.out = Append(s.out, x)
        PROVE  \A i \in 1 .. Len(s.out) :
                 i \in 1 .. Len(t.out) /\ t.out[i] = s.out[i]
    BY <2>1, <2>3
  <2> QED BY <2>1, <2>2, <2>3
<1>3. CASE \E p \in 1 .. Len(s.in) : OnTheWire(s, p)
  <2>1. PICK p \in 1 .. Len(s.in) : OnTheWire(s, p)
    BY <1>3
  <2>2. CASE p = 1
    <3>1. \A i \in 1 .. Len(t.in) : t.in[i].t # "+"
      BY <1>1, <2>1, <2>2 DEF OnTheWire
    <3>2. ASSUME t.out = Append(s.out, "nak")
          PROVE  \E i \in 1 .. Len(t.out) : t.out[i] = "nak"
      <4>1. Len(t.out) = Len(s.out) + 1 /\ t.out[Len(s.out) + 1] = "nak"
        BY <3>2 DEF RspStates
      <4> QED BY <1>2, <4>1
    <3> QED BY <2>1, <2>2, <3>1, <3>2 DEF AnswerDue
  <2>3. CASE p # 1
    <3>1. p - 1 \in 1 .. Len(t.in) /\ t.in[p - 1] = s.in[p]
      BY <1>1, <2>3
    <3>2. OnTheWire(t, p - 1)
      BY <1>1, <2>1, <3>1 DEF OnTheWire
    <3> QED BY <3>1, <3>2
  <2> QED BY <2>2, <2>3
<1>4. CASE AnswerDue(s)
  <2>1. \A i \in 1 .. Len(t.in) : t.in[i].t # "+"
    BY <1>1, <1>4 DEF AnswerDue
  <2>2. CASE s.at = "ack"
    BY <1>4, <2>1, <2>2 DEF AnswerDue
  <2>3. CASE s.waiting = TRUE
    BY <1>4, <2>1, <2>3 DEF AnswerDue
  <2>4. CASE \E i \in 1 .. Len(s.out) : s.out[i] = "nak"
    BY <1>2, <2>1, <2>4 DEF AnswerDue
  <2> QED BY <1>4, <2>2, <2>3, <2>4 DEF AnswerDue
<1> QED BY <1>3, <1>4 DEF Remembered

(* The server starts with nothing on the wire and no breakpoint.           *)
LEMMA RspStarts == RspInit => RspInv
<1> SUFFICES ASSUME RspInit PROVE RspInv
  OBVIOUS
<1>1. dev = rsp_init
  BY DEF RspInit
<1>2. NoRequest \in RspRequests
  BY DEF NoRequest, RspRequests, RspPlain
<1>3. [a \in RspAddrs |-> 0] \in [RspAddrs -> RspValues]
  BY DEF RspValues
<1>4. <<>> \in Seq(RspPackets) /\ <<>> \in Seq({"reply", "nak"})
  OBVIOUS
<1>5. dev \in RspStates
  BY <1>1, <1>2, <1>3, <1>4, RspAssumption DEF rsp_init, RspStates
<1>6. WordsKept(dev) /\ Remembered(dev)
  BY <1>1 DEF rsp_init, WordsKept, Remembered
<1> QED BY <1>5, <1>6 DEF RspInv

(* What follows an acknowledged reply.                                     *)
LEMMA AfterReply ==
  ASSUME NEW s \in RspStates, WordsKept(s), NEW t, t = RspAfter(s)
  PROVE  /\ t \in RspStates /\ WordsKept(t)
         /\ t.in = s.in /\ t.gdb = s.gdb /\ t.req = s.req /\ t.out = s.out
         /\ (t.open = s.open \/ t.open = FALSE) /\ t.fooled = s.fooled
<1> DEFINE at == IF s.after = "report" THEN "req" ELSE "top"
           w == [s EXCEPT !.at = at, !.after = "none"]
<1>1. at \in {"top", "req", "ack"}
  OBVIOUS
<1> HIDE DEF at
<1>2. w \in RspStates
  BY <1>1 DEF RspStates
<1>3. /\ WordsKept(w) /\ w.in = s.in /\ w.gdb = s.gdb /\ w.req = s.req
      /\ w.out = s.out /\ w.open = s.open /\ w.fooled = s.fooled
  BY DEF RspStates, WordsKept
<1>4. CASE s.after = "detach"
  <2>1. t = [w EXCEPT !.open = FALSE, !.stalled = FALSE, !.sigval = 0]
    BY <1>4 DEF RspAfter, rsp_set_stall_state, rsp_client_close, at
  <2> HIDE DEF w
  <2>2. ASSUME NEW n \in Int
        PROVE  [w EXCEPT !.open = FALSE, !.stalled = FALSE, !.sigval = n]
                 \in RspStates
    BY <1>2 DEF RspStates
  <2>3. t \in RspStates
    <3>1. 0 \in Int
      OBVIOUS
    <3> QED BY <2>1, <2>2, <3>1, Zenon
  <2> QED BY <1>2, <1>3, <2>1, <2>3 DEF RspStates, WordsKept
<1>5. CASE s.after = "report"
  <2>1. t = [w EXCEPT !.waiting = FALSE]
    BY <1>5 DEF RspAfter, at
  <2> HIDE DEF w
  <2>2. t \in RspStates
    BY <1>2, <2>1 DEF RspStates
  <2>3. /\ t.in = w.in /\ t.gdb = w.gdb /\ t.req = w.req /\ t.out = w.out
        /\ t.open = w.open /\ t.fooled = w.fooled
    BY <1>2, <2>1 DEF RspStates
  <2>4. WordsKept(t)
    BY <1>2, <1>3, <2>1 DEF RspStates, WordsKept
  <2> QED BY <1>3, <2>2, <2>3, <2>4
<1>6. CASE s.after \notin {"detach", "report"}
  <2>1. t = w
    BY <1>6 DEF RspAfter, at
  <2> HIDE DEF w
  <2> QED BY <1>2, <1>3, <2>1
<1> QED BY <1>4, <1>5, <1>6

(* The report of a stop is a reply; only the program counter may change    *)
(* before it, and it does when the stop was at a breakpoint.               *)
LEMMA ReportSent ==
  ASSUME NEW s \in RspStates, s.open = TRUE, WordsKept(s),
         NEW t, t = rsp_report(s)
  PROVE  /\ t \in RspStates /\ WordsKept(t) /\ SameLink(t, s)
         /\ t.out = Append(s.out, "reply") /\ t.at = "ack"
         /\ t.waiting = s.waiting
         /\ (s.sigval = SIG_TRAP /\ s.ppc \in s.bps => t.pc = s.ppc)
<1> DEFINE u == [s EXCEPT !.pc = s.ppc]
<1>1. /\ u \in RspStates /\ WordsKept(u) /\ SameLink(u, s) /\ u.out = s.out
      /\ u.waiting = s.waiting /\ u.pc = s.ppc /\ u.open = TRUE
  BY DEF RspStates, WordsKept, SameLink
<1>2. CASE s.sigval = SIG_TRAP /\ s.ppc \in s.bps
  <2>1. t = put_packet(u, "report")
    BY <1>2 DEF rsp_report, set_npc
  <2> HIDE DEF u
  <2>2. /\ t \in RspStates /\ WordsKept(t) /\ SameLink(t, u)
        /\ t.out = Append(u.out, "reply") /\ t.at = "ack"
        /\ t.waiting = u.waiting /\ t.pc = u.pc
    BY <1>1, <2>1, PutSends, ZenonT(30)
  <2> QED BY <1>1, <2>2 DEF SameLink
<1>3. CASE ~(s.sigval = SIG_TRAP /\ s.ppc \in s.bps)
  <2>1. t = put_packet(s, "report")
    BY <1>3 DEF rsp_report
  <2>2. /\ t \in RspStates /\ WordsKept(t) /\ SameLink(t, s)
        /\ t.out = Append(s.out, "reply") /\ t.at = "ack"
        /\ t.waiting = s.waiting
    BY <2>1, PutSends, ZenonT(30)
  <2> QED BY <1>3, <2>2
<1> QED BY <1>2, <1>3

(* Instructions and ticks leave the program's words, their entries and the *)
(* connection alone.                                                       *)
LEMMA ExecuteKeeps ==
  ASSUME dev \in RspStates, RspExecute
  PROVE  /\ dev' \in RspStates /\ dev'.at = dev.at
         /\ dev'.bps = dev.bps /\ dev'.instr = dev.instr /\ dev'.mem = dev.mem
         /\ dev'.prog = dev.prog /\ dev'.over = dev.over
         /\ SameLink(dev', dev) /\ dev'.out = dev.out
         /\ dev'.waiting = dev.waiting
<1> DEFINE Kept(t, s) ==
      /\ t \in RspStates /\ t.at = s.at /\ t.bps = s.bps /\ t.instr = s.instr
      /\ t.mem = s.mem /\ t.prog = s.prog /\ t.over = s.over
      /\ SameLink(t, s) /\ t.out = s.out /\ t.waiting = s.waiting
<1>1. ASSUME NEW s \in RspStates, NEW b \in BOOLEAN
      PROVE  Kept(rsp_set_stall_state(s, b), s)
  BY DEF rsp_set_stall_state, RspStates, SameLink
<1>2. ASSUME NEW s \in RspStates, NEW n \in Int
      PROVE  Kept([s EXCEPT !.sigval = n], s)
  BY DEF RspStates, SameLink
<1>3. ASSUME NEW s \in RspStates, NEW a \in RspAddrs
      PROVE  Kept([s EXCEPT !.pc = a], s) /\ Kept([s EXCEPT !.ppc = a], s)
  BY DEF RspStates, SameLink
<1>4. ASSUME NEW s, NEW t, NEW u, Kept(t, s), Kept(u, t) PROVE Kept(u, s)
  BY <1>4 DEF SameLink
<1>5. \A s \in RspStates : Kept(s, s)
  BY DEF SameLink
<1>6. SIG_TRAP \in Int
  BY DEF SIG_TRAP
<1> DEFINE next == IF dev.pc + 1 \in RspAddrs THEN dev.pc + 1 ELSE 0
           s0 == [dev EXCEPT !.ppc = dev.pc]
           s1 == [dev EXCEPT !.ppc = dev.pc, !.pc = next]
           s2 == IF dev.mem[dev.pc] = RspTrap THEN rsp_debug_ignore(s1, TRUE) ELSE s1
           s3 == IF dev.st
                 THEN [rsp_set_stall_state(s2, TRUE) EXCEPT !.sigval = SIG_TRAP]
                 ELSE s2
           s4 == [rsp_debug_ignore(s3, FALSE) EXCEPT !.pc = 0]
<1>7. dev' = s3 \/ dev' = s4
  BY DEF RspExecute
<1>8. next \in RspAddrs /\ 0 \in RspAddrs /\ dev.pc \in RspAddrs
  BY RspAssumption DEF RspStates
<1>9. s1 = [s0 EXCEPT !.pc = next]
  BY DEF RspStates
<1>10. Kept(s0, dev) /\ s0 \in RspStates
  BY <1>3, <1>8
<1> HIDE DEF next, s0, s1
<1>11. Kept(s1, s0) /\ s1 \in RspStates
  BY <1>3, <1>8, <1>9, <1>10
<1>12. Kept(s2, s1) /\ s2 \in RspStates
  <2>1. CASE s2 = s1
    BY <1>5, <1>11, <2>1
  <2>2. CASE s2 = rsp_debug_ignore(s1, TRUE)
    <3> DEFINE w == rsp_set_stall_state(s1, TRUE)
    <3>1. Kept(w, s1) /\ w \in RspStates
      BY <1>1, <1>11
    <3>2. s2 = [w EXCEPT !.sigval = SIG_TRAP]
      BY <2>2 DEF rsp_debug_ignore
    <3> HIDE DEF w, s2
    <3>3. Kept(s2, w)
      BY <1>2, <1>6, <3>1, <3>2
    <3>4. Kept(s2, s1)
      BY <1>4, <3>1, <3>3
    <3> QED BY <3>4
  <2> QED BY <2>1, <2>2
<1> HIDE DEF s2
<1>13. Kept(s3, s2) /\ s3 \in RspStates
  <2>1. CASE s3 = s2
    BY <1>5, <1>12, <2>1
  <2>2. CASE s3 = [rsp_set_stall_state(s2, TRUE) EXCEPT !.sigval = SIG_TRAP]
    <3> DEFINE w == rsp_set_stall_state(s2, TRUE)
    <3>1. Kept(w, s2) /\ w \in RspStates
      BY <1>1, <1>12
    <3>2. s3 = [w EXCEPT !.sigval = SIG_TRAP]
      BY <2>2
    <3> HIDE DEF w, s3
    <3>3. Kept(s3, w)
      BY <1>2, <1>6, <3>1, <3>2
    <3>4. Kept(s3, s2)
      BY <1>4, <3>1, <3>3
    <3> QED BY <3>4
  <2> QED BY <2>1, <2>2
<1> HIDE DEF s3
<1>14. Kept(s4, s3)
  <2> DEFINE w == rsp_set_stall_state(s3, FALSE)
  <2>1. Kept(w, s3) /\ w \in RspStates
    BY <1>1, <1>13
  <2>2. s4 = [w EXCEPT !.pc = 0]
    BY DEF rsp_debug_ignore
  <2> HIDE DEF w, s4
  <2>3. Kept(s4, w)
    BY <1>3, <1>8, <2>1, <2>2
  <2> QED BY <1>4, <2>1, <2>3
<1> HIDE DEF s4
<1>15. Kept(s3, dev)
  BY <1>10, <1>11, <1>12, <1>13 DEF SameLink
<1>16. Kept(s4, dev)
  BY <1>4, <1>14, <1>15
<1> QED BY <1>7, <1>15, <1>16

(* Every step of the server, the processor and GDB keeps the invariant.    *)
LEMMA RspStep == RspInv /\ [RspNext]_dev => RspInv'
<1> SUFFICES ASSUME RspInv, [RspNext]_dev PROVE RspInv'
  OBVIOUS
<1>1. dev \in RspStates /\ WordsKept(dev) /\ Remembered(dev) /\ Is("rsp")
  BY DEF RspInv, Is, RspStates
<1> SUFFICES dev' \in RspStates /\ WordsKept(dev') /\ Remembered(dev')
  BY DEF RspInv
<1>2. NoRequest \in RspRequests
  BY DEF NoRequest, RspRequests, RspPlain
<1>3. ASSUME NEW r \in RspRequests
      PROVE  /\ Pkt(r) \in RspPackets /\ BadPkt \in RspPackets
             /\ Token("-") \in RspPackets /\ Token("+") \in RspPackets
  BY <1>2 DEF Pkt, BadPkt, Token, RspPackets
<1>4. CASE RspAccept
  <2>1. dev' = [dev EXCEPT !.open = TRUE, !.waiting = FALSE, !.in = <<>>,
                           !.out = <<>>, !.gdb = "idle", !.at = "req"]
    BY <1>4 DEF RspAccept
  <2> DEFINE u == [dev EXCEPT !.open = TRUE, !.waiting = FALSE, !.in = <<>>]
  <2>2. u \in RspStates
    <3>1. ASSUME NEW q \in Seq(RspPackets)
          PROVE  [dev EXCEPT !.open = TRUE, !.waiting = FALSE, !.in = q] \in RspStates
      BY <1>1 DEF RspStates
    <3>2. <<>> \in Seq(RspPackets)
      OBVIOUS
    <3> QED BY <3>1, <3>2, Zenon
  <2>3. dev' = [u EXCEPT !.out = <<>>, !.gdb = "idle", !.at = "req"]
    BY <1>1, <2>1 DEF RspStates
  <2> HIDE DEF u
  <2>4. dev' \in RspStates
    <3>1. ASSUME NEW q \in Seq({"reply", "nak"})
          PROVE  [u EXCEPT !.out = q, !.gdb = "idle", !.at = "req"] \in RspStates
      BY <2>2 DEF RspStates
    <3>2. <<>> \in Seq({"reply", "nak"})
      OBVIOUS
    <3> QED BY <2>3, <3>1, <3>2, Zenon
  <2> QED BY <1>1, <2>1, <2>4 DEF RspStates, WordsKept, Remembered
<1>5. CASE RspHandle
  <2>1. dev.open = TRUE /\ dev.at = "top"
    BY <1>1, <1>5 DEF RspHandle, RspStates
  <2>2. CASE dev.waiting
    <3>1. dev' = rsp_report(dev)
      BY <1>5, <2>2 DEF RspHandle
    <3>2. /\ dev' \in RspStates /\ WordsKept(dev') /\ SameLink(dev', dev)
          /\ dev'.out = Append(dev.out, "reply") /\ dev'.at = "ack"
          /\ dev'.waiting = dev.waiting
      BY <1>1, <2>1, <3>1, ReportSent, ZenonT(30)
    <3>3. dev'.out # <<>>
      BY <1>1, <3>2 DEF RspStates
    <3> QED BY <1>1, <3>2, <3>3
              DEF Remembered, AnswerDue, OnTheWire, SameLink
  <2>3. CASE ~dev.waiting
    <3>1. dev' = [dev EXCEPT !.at = "req"]
      BY <1>5, <2>3 DEF RspHandle
    <3>2. dev' \in RspStates
      BY <1>1, <3>1 DEF RspStates
    <3>3. /\ dev'.in = dev.in /\ dev'.out = dev.out /\ dev'.req = dev.req
          /\ dev'.gdb = dev.gdb /\ dev'.open = dev.open
          /\ dev'.fooled = dev.fooled /\ WordsKept(dev')
          /\ dev'.waiting = dev.waiting
      BY <1>1, <3>1 DEF RspStates, WordsKept
    <3> QED BY <1>1, <2>1, <3>2, <3>3 DEF Remembered, AnswerDue, OnTheWire
  <2> QED BY <2>2, <2>3
<1>6. CASE RspRequest
  <2> DEFINE k == Head(dev.in)
             s == [dev EXCEPT !.in = Tail(dev.in)]
  <2>1. /\ dev.at = "req" /\ dev.open = TRUE /\ dev.in # <<>>
        /\ dev' = IF k.t # "pkt" THEN s
                  ELSE IF ~k.ok THEN [s EXCEPT !.out = Append(s.out, "nak")]
                  ELSE IF k.r.op = "long" THEN s
                  ELSE rsp_client_request(s, k.r)
    BY <1>1, <1>6 DEF RspRequest, RspStates
  <2>2. /\ k \in RspPackets /\ k = dev.in[1] /\ Tail(dev.in) \in Seq(RspPackets)
    BY <1>1, <2>1 DEF RspStates
  <2>3. s \in RspStates
    BY <1>1, <2>2 DEF RspStates
  <2>4. /\ s.in = Tail(dev.in) /\ s.out = dev.out /\ s.req = dev.req
        /\ s.gdb = dev.gdb /\ s.open = TRUE /\ dev.open = TRUE
        /\ s.at = dev.at /\ s.fooled = dev.fooled
        /\ s.waiting = dev.waiting /\ WordsKept(s)
    BY <1>1, <2>1 DEF RspStates, WordsKept
  <2> HIDE DEF s, k
  <2>5. CASE k.t # "pkt"
    <3>1. dev' = s
      BY <2>1, <2>5
    <3>2. ~ OnTheWire(dev, 1)
      BY <2>2, <2>5 DEF OnTheWire
    <3>3. Remembered(s)
      BY <1>1, <2>1, <2>3, <2>4, <3>2, TokenTaken
    <3> QED BY <2>3, <2>4, <3>1, <3>3
  <2>6. CASE k.t = "pkt" /\ ~k.ok
    <3>1. dev' = [s EXCEPT !.out = Append(s.out, "nak")]
      BY <2>1, <2>6
    <3>2. Append(s.out, "nak") \in Seq({"reply", "nak"})
      BY <2>3 DEF RspStates
    <3>3. dev' \in RspStates
      BY <2>3, <3>1, <3>2 DEF RspStates
    <3>4. /\ dev'.in = s.in /\ dev'.out = Append(s.out, "nak") /\ dev'.req = s.req
          /\ dev'.gdb = s.gdb /\ dev'.open = s.open
          /\ dev'.fooled = s.fooled /\ WordsKept(dev')
          /\ dev'.waiting = s.waiting
      BY <2>3, <2>4, <3>1 DEF RspStates, WordsKept
    <3>5. Remembered(dev')
      <4>1. /\ dev'.in = Tail(dev.in) /\ dev'.gdb = dev.gdb /\ dev'.req = dev.req
            /\ dev'.open = dev.open
            /\ dev'.fooled = dev.fooled /\ dev'.out = Append(dev.out, "nak")
            /\ dev'.waiting = dev.waiting /\ dev.at # "ack"
        BY <2>1, <2>4, <3>4
      <4> QED BY <1>1, <2>1, <3>3, <4>1, TokenTaken
    <3> QED BY <3>3, <3>4, <3>5
  <2>8. CASE k.t = "pkt" /\ k.ok /\ k.r.op = "long"
    <3>1. dev' = s
      BY <2>1, <2>8
    <3>2. OnTheWire(dev, 1) => dev.req.op \in RspSilent
      BY <2>2, <2>8 DEF OnTheWire, RspPackets, RspSilent
    <3>3. Remembered(s)
      BY <1>1, <2>1, <2>3, <2>4, <3>2, TokenTaken
    <3> QED BY <2>3, <2>4, <3>1, <3>3
  <2>7. CASE k.t = "pkt" /\ k.ok /\ k.r.op # "long"
    <3>1. dev' = rsp_client_request(s, k.r) /\ k.r \in RspRequests
      BY <2>1, <2>2, <2>7 DEF RspPackets
    <3>2. Served(dev', s, k.r)
      BY <2>3, <2>4, <2>7, <3>1, RequestServed, Zenon
    <3>3. Append(s.out, "reply") # <<>>
      BY <2>3, AppendFilled DEF RspStates
    <3>4. OnTheWire(dev, 1) => k.r = dev.req
      BY <2>2, <2>7 DEF OnTheWire, RspPackets
    <3>5. Remembered(dev')
      <4>1. /\ dev'.in = Tail(dev.in) /\ dev'.gdb = dev.gdb /\ dev'.req = dev.req
            /\ dev'.open = dev.open /\ dev'.fooled = dev.fooled
            /\ dev'.out = dev.out \/ (\E x \in {"reply", "nak"} :
                                        dev'.out = Append(dev.out, x))
            /\ ~ (dev.waiting = TRUE /\ dev'.waiting # TRUE)
        BY <2>4, <3>2 DEF SameLink, Served
      <4>2. OnTheWire(dev, 1) /\ dev.req.op \notin RspSilent =>
              (dev'.at = "ack" /\ dev'.out # <<>>) \/ dev'.waiting = TRUE
        BY <2>4, <3>2, <3>3, <3>4 DEF Served
      <4>3. dev.at # "ack"
        BY <2>1
      <4>4. dev' \in RspStates
        BY <3>2 DEF Served
      <4> QED BY <1>1, <2>1, <4>1, <4>2, <4>3, <4>4, TokenTaken
    <3> QED BY <3>2, <3>5 DEF Served
  <2> QED BY <2>5, <2>6, <2>7, <2>8
<1>7. CASE RspAck
  <2> DEFINE s == [dev EXCEPT !.in = Tail(dev.in)]
             m == [dev EXCEPT !.in[1].t = "junk"]
  <2>1. /\ dev.at = "ack" /\ dev.open = TRUE /\ dev.in # <<>>
        /\ \/ dev' = IF Head(dev.in).t = "+" THEN RspAfter(s) ELSE RspResend(s)
           \/ Head(dev.in).t \in {"pkt", "junk"} /\ dev' = RspResend(m)
           \/ dev' = [RspAfter(m) EXCEPT !.fooled = TRUE]
    BY <1>1, <1>7 DEF RspAck, RspStates
  <2>2. Head(dev.in) = dev.in[1] /\ Tail(dev.in) \in Seq(RspPackets)
    BY <1>1, <2>1 DEF RspStates
  <2>3. s \in RspStates
    BY <1>1, <2>2 DEF RspStates
  <2>4. /\ s.in = Tail(dev.in) /\ s.out = dev.out /\ s.req = dev.req
        /\ s.gdb = dev.gdb /\ s.open = dev.open
        /\ s.fooled = dev.fooled /\ s.at = dev.at
        /\ s.waiting = dev.waiting /\ WordsKept(s)
    BY <1>1 DEF RspStates, WordsKept
  <2> DEFINE q == [dev.in EXCEPT ![1].t = "junk"]
  <2>7. /\ q \in Seq(RspPackets) /\ Len(q) = Len(dev.in) /\ Len(dev.in) \in Nat \ {0}
        /\ q[1].t = "junk" /\ \A i \in 2 .. Len(dev.in) : q[i] = dev.in[i]
    <3>1. /\ dev.in \in Seq(RspPackets) /\ 1 \in 1 .. Len(dev.in)
          /\ Len(dev.in) \in Nat \ {0}
      BY <1>1, <2>1 DEF RspStates
    <3>2. dev.in[1] \in RspPackets
      BY <3>1
    <3>3. [dev.in[1] EXCEPT !.t = "junk"] \in RspPackets
      BY <3>2 DEF RspPackets
    <3>4. q = [dev.in EXCEPT ![1] = [dev.in[1] EXCEPT !.t = "junk"]]
      OBVIOUS
    <3>5. [dev.in[1] EXCEPT !.t = "junk"].t = "junk"
      BY <3>2 DEF RspPackets
    <3> HIDE DEF q
    <3>6. q \in Seq(RspPackets) /\ Len(q) = Len(dev.in)
      BY <3>1, <3>3, <3>4
    <3>7. q[1].t = "junk" /\ \A i \in 2 .. Len(dev.in) : q[i] = dev.in[i]
      BY <3>1, <3>4, <3>5
    <3> QED BY <3>1, <3>6, <3>7
  <2>8. m = [dev EXCEPT !.in = q]
    OBVIOUS
  <2> HIDE DEF q, m
  <2>9. /\ m \in RspStates /\ m.in = q /\ m.out = dev.out /\ m.req = dev.req
        /\ m.gdb = dev.gdb /\ m.open = dev.open /\ m.at = dev.at
        /\ m.fooled = dev.fooled /\ m.waiting = dev.waiting /\ WordsKept(m)
    <3>1. m \in RspStates
      BY <1>1, <2>7, <2>8 DEF RspStates
    <3> QED BY <1>1, <2>8, <3>1 DEF RspStates, WordsKept
  <2>10. CASE Head(dev.in).t \in {"pkt", "junk"} /\ dev' = RspResend(m)
    <3>1. dev' = [m EXCEPT !.out = Append(m.out, "reply")]
      BY <2>10 DEF RspResend
    <3>2. /\ Append(m.out, "reply") \in Seq({"reply", "nak"})
          /\ Append(m.out, "reply") # <<>>
      BY <2>9, AppendFilled DEF RspStates
    <3>3. dev' \in RspStates
      BY <2>9, <3>1, <3>2 DEF RspStates
    <3>4. /\ dev'.in = q /\ dev'.out # <<>> /\ dev'.req = dev.req
          /\ dev'.gdb = dev.gdb /\ dev'.open = dev.open
          /\ dev'.fooled = dev.fooled /\ WordsKept(dev') /\ dev'.at = "ack"
      BY <2>1, <2>9, <3>1, <3>2 DEF RspStates, WordsKept
    <3>5. ASSUME \A i \in 1 .. Len(dev.in) : i > 1 => dev.in[i].t # "+"
          PROVE  AnswerDue(dev')
      BY <2>7, <3>4, <3>5 DEF AnswerDue
    <3>6. ASSUME NEW x \in 1 .. Len(dev.in), x # 1, OnTheWire(dev, x)
          PROVE  x \in 1 .. Len(dev'.in) /\ OnTheWire(dev', x)
      BY <2>7, <3>4, <3>6 DEF OnTheWire
    <3>7. ASSUME \E x \in 1 .. Len(dev.in) : OnTheWire(dev, x)
          PROVE  Remembered(dev')
      <4>1. PICK x \in 1 .. Len(dev.in) : OnTheWire(dev, x)
        BY <3>7
      <4>2. CASE x = 1
        BY <3>5, <4>1, <4>2 DEF OnTheWire, Remembered
      <4>3. CASE x # 1
        BY <3>6, <4>1, <4>3 DEF Remembered
      <4> QED BY <4>2, <4>3
    <3>8. ASSUME AnswerDue(dev) PROVE Remembered(dev')
      BY <3>5, <3>8 DEF AnswerDue, Remembered
    <3>9. Remembered(dev')
      BY <1>1, <3>4, <3>7, <3>8 DEF Remembered
    <3> QED BY <3>3, <3>4, <3>9
  <2>11. CASE dev' = [RspAfter(m) EXCEPT !.fooled = TRUE]
    <3> DEFINE w == RspAfter(m)
    <3>1. w \in RspStates /\ WordsKept(w)
      BY <2>9, AfterReply, ZenonT(90)
    <3>2. dev' = [w EXCEPT !.fooled = TRUE]
      BY <2>11
    <3> HIDE DEF w
    <3>3. dev' \in RspStates
      BY <3>1, <3>2 DEF RspStates
    <3>4. dev'.fooled = TRUE /\ WordsKept(dev')
      BY <3>1, <3>2 DEF RspStates, WordsKept
    <3> QED BY <3>3, <3>4 DEF Remembered
  <2> HIDE DEF s
  <2>5. CASE Head(dev.in).t = "+" /\ dev' = RspAfter(s)
    <3>1. /\ dev' \in RspStates /\ WordsKept(dev')
          /\ dev'.in = s.in /\ dev'.gdb = s.gdb /\ dev'.req = s.req
          /\ dev'.out = s.out /\ (dev'.open = s.open \/ dev'.open = FALSE)
          /\ dev'.fooled = s.fooled
      BY <2>1, <2>3, <2>4, <2>5, AfterReply, ZenonT(90)
    <3>2. ~ OnTheWire(dev, 1) /\ ~ AnswerDue(dev)
      BY <1>1, <2>1, <2>2, <2>5 DEF OnTheWire, AnswerDue, RspStates
    <3>3. CASE dev'.open = FALSE
      BY <3>1, <3>3 DEF Remembered
    <3>4. CASE dev'.open = s.open
      BY <1>1, <2>1, <2>4, <3>1, <3>2, <3>4, TokenTaken
    <3> QED BY <3>1, <3>3, <3>4
  <2>6. CASE Head(dev.in).t # "+" /\ dev' = RspResend(s)
    <3>1. dev' = [s EXCEPT !.out = Append(s.out, "reply")]
      BY <2>6 DEF RspResend
    <3>2. Append(s.out, "reply") \in Seq({"reply", "nak"}) /\ Append(s.out, "reply") # <<>>
      BY <2>3, AppendFilled DEF RspStates
    <3>3. dev' \in RspStates
      BY <2>3, <3>1, <3>2 DEF RspStates
    <3>4. /\ dev'.in = s.in /\ dev'.out = Append(s.out, "reply") /\ dev'.req = s.req
          /\ dev'.gdb = s.gdb /\ dev'.open = s.open
          /\ dev'.fooled = s.fooled /\ WordsKept(dev')
          /\ dev'.at = s.at
      BY <2>3, <2>4, <3>1 DEF RspStates, WordsKept
    <3>5. Remembered(dev')
      BY <1>1, <2>1, <2>4, <3>2, <3>3, <3>4, TokenTaken
    <3> QED BY <3>3, <3>4, <3>5
  <2> QED BY <2>1, <2>5, <2>6, <2>10, <2>11
<1>8. CASE RspEof
  <2> DEFINE s == [dev EXCEPT !.open = FALSE, !.out = <<>>]
  <2>1. dev' = IF dev.at = "ack" THEN RspAfter(s) ELSE [s EXCEPT !.at = "top"]
    BY <1>8 DEF RspEof, rsp_client_close
  <2>2. s \in RspStates
    <3>1. ASSUME NEW q \in Seq({"reply", "nak"})
          PROVE  [dev EXCEPT !.open = FALSE, !.out = q] \in RspStates
      BY <1>1 DEF RspStates
    <3>2. <<>> \in Seq({"reply", "nak"})
      OBVIOUS
    <3> QED BY <3>1, <3>2, Zenon
  <2>3. WordsKept(s) /\ s.open = FALSE
    BY <1>1 DEF RspStates, WordsKept
  <2> HIDE DEF s
  <2>4. CASE dev.at = "ack"
    <3>1. /\ dev' \in RspStates /\ WordsKept(dev')
          /\ (dev'.open = s.open \/ dev'.open = FALSE)
      BY <2>1, <2>2, <2>3, <2>4, AfterReply
    <3> QED BY <2>3, <3>1 DEF Remembered
  <2>5. CASE dev.at # "ack"
    <3>1. dev' = [s EXCEPT !.at = "top"]
      BY <2>1, <2>5
    <3>2. dev' \in RspStates
      BY <2>2, <3>1 DEF RspStates
    <3> QED BY <2>2, <2>3, <3>1, <3>2 DEF RspStates, WordsKept, Remembered
  <2> QED BY <2>4, <2>5
<1>9. CASE RspClosed
  <2>1. dev' = [dev EXCEPT !.at = "top"] /\ dev.open # TRUE
    BY <1>9 DEF RspClosed
  <2>2. dev' \in RspStates
    BY <1>1, <2>1 DEF RspStates
  <2> QED BY <1>1, <2>1, <2>2 DEF RspStates, WordsKept, Remembered
<1>10. CASE RspExecute
  <2>1. /\ dev' \in RspStates /\ dev'.at = dev.at
        /\ dev'.bps = dev.bps /\ dev'.instr = dev.instr /\ dev'.mem = dev.mem
        /\ dev'.prog = dev.prog /\ dev'.over = dev.over
        /\ SameLink(dev', dev) /\ dev'.out = dev.out /\ dev'.waiting = dev.waiting
    BY <1>1, <1>10, ExecuteKeeps
  <2>2. WordsKept(dev')
    BY <1>1, <2>1 DEF WordsKept
  <2>3. Remembered(dev')
    BY <1>1, <2>1 DEF Remembered, AnswerDue, OnTheWire, SameLink
  <2> QED BY <2>1, <2>2, <2>3
<1>11. CASE GdbSend
  <2>1. PICK r \in RspRequests, ok \in BOOLEAN :
          dev' = [dev EXCEPT !.gdb = "sent", !.req = r, !.fooled = FALSE,
                    !.in = Append(dev.in, IF ok THEN Pkt(r) ELSE BadPkt)]
    BY <1>11 DEF GdbSend
  <2> DEFINE k == IF ok THEN Pkt(r) ELSE BadPkt
  <2>2. k \in RspPackets /\ k.t = "pkt" /\ (k.ok = TRUE => k.r = r)
    BY <1>3 DEF Pkt, BadPkt
  <2>3. dev' = [dev EXCEPT !.gdb = "sent", !.req = r, !.fooled = FALSE,
                           !.in = Append(dev.in, k)]
    BY <2>1
  <2> HIDE DEF k
  <2>4. /\ Append(dev.in, k) \in Seq(RspPackets) /\ Len(dev.in) \in Nat
        /\ Len(Append(dev.in, k)) = Len(dev.in) + 1
        /\ Append(dev.in, k)[Len(dev.in) + 1] = k
    BY <1>1, <2>2 DEF RspStates
  <2>5. dev' \in RspStates
    BY <1>1, <2>3, <2>4 DEF RspStates
  <2>6. dev'.in = Append(dev.in, k) /\ dev'.req = r /\ WordsKept(dev')
    BY <1>1, <2>3, <2>5 DEF RspStates, WordsKept
  <2>7. /\ Len(dev.in) + 1 \in 1 .. Len(dev'.in)
        /\ OnTheWire(dev', Len(dev.in) + 1)
    BY <2>2, <2>4, <2>6 DEF OnTheWire
  <2> QED BY <2>5, <2>6, <2>7 DEF Remembered
<1>12. CASE GdbRepeat
  <2> DEFINE k == Pkt(dev.req)
  <2>1. dev' = [dev EXCEPT !.resent = TRUE, !.in = Append(dev.in, k)]
    BY <1>12 DEF GdbRepeat
  <2>2. k \in RspPackets /\ k.t = "pkt" /\ k.r = dev.req
    BY <1>1, <1>3 DEF Pkt, RspStates
  <2> HIDE DEF k
  <2>4. /\ Append(dev.in, k) \in Seq(RspPackets) /\ Len(dev.in) \in Nat
        /\ Len(Append(dev.in, k)) = Len(dev.in) + 1
        /\ Append(dev.in, k)[Len(dev.in) + 1] = k
    BY <1>1, <2>2 DEF RspStates
  <2>5. dev' \in RspStates
    BY <1>1, <2>1, <2>4 DEF RspStates
  <2>6. dev'.in = Append(dev.in, k) /\ dev'.req = dev.req /\ WordsKept(dev')
    BY <1>1, <2>1, <2>5 DEF RspStates, WordsKept
  <2>7. /\ Len(dev.in) + 1 \in 1 .. Len(dev'.in)
        /\ OnTheWire(dev', Len(dev.in) + 1)
    BY <2>2, <2>4, <2>6 DEF OnTheWire
  <2> QED BY <2>5, <2>6, <2>7 DEF Remembered
<1>13. CASE GdbReceive
  <2> DEFINE s == [dev EXCEPT !.out = Tail(dev.out)]
  <2>1. PICK good \in BOOLEAN :
          dev' = IF Head(dev.out) = "nak"
                 THEN IF dev.gdb = "sent"
                      THEN [s EXCEPT !.in = Append(s.in, Pkt(dev.req))] ELSE s
                 ELSE IF good
                 THEN [s EXCEPT !.gdb = "idle", !.req = NoRequest, !.resent = FALSE,
                                !.in = Append(s.in, Token("+"))]
                 ELSE [s EXCEPT !.in = Append(s.in, Token("-"))]
    BY <1>13 DEF GdbReceive
  <2>2. dev.out # <<>>
    BY <1>13 DEF GdbReceive
  <2>3. Tail(dev.out) \in Seq({"reply", "nak"}) /\ Head(dev.out) \in {"reply", "nak"}
    BY <1>1, <2>2 DEF RspStates
  <2>4. s \in RspStates
    BY <1>1, <2>3 DEF RspStates
  <2>5. /\ s.in = dev.in /\ s.out = Tail(dev.out) /\ s.req = dev.req
        /\ s.gdb = dev.gdb /\ s.open = dev.open
        /\ s.fooled = dev.fooled /\ s.at = dev.at
        /\ s.waiting = dev.waiting /\ WordsKept(s)
    BY <1>1 DEF RspStates, WordsKept
  <2> HIDE DEF s
  <2>6. ASSUME NEW k \in RspPackets, dev' = [s EXCEPT !.in = Append(s.in, k)]
        PROVE  /\ dev' \in RspStates /\ dev'.in = Append(dev.in, k)
               /\ dev'.out = Tail(dev.out) /\ dev'.req = dev.req
               /\ dev'.gdb = dev.gdb /\ dev'.open = dev.open
               /\ dev'.fooled = dev.fooled /\ dev'.at = dev.at
               /\ dev'.waiting = dev.waiting /\ WordsKept(dev')
    <3>1. Append(s.in, k) \in Seq(RspPackets)
      BY <2>4 DEF RspStates
    <3>2. dev' \in RspStates
      BY <2>4, <2>6, <3>1 DEF RspStates
    <3>3. /\ dev'.in = Append(s.in, k) /\ dev'.out = s.out /\ dev'.req = s.req
          /\ dev'.gdb = s.gdb /\ dev'.open = s.open
          /\ dev'.fooled = s.fooled /\ dev'.at = s.at
          /\ dev'.waiting = s.waiting
      BY <2>4, <2>6 DEF RspStates
    <3>4. WordsKept(dev')
      BY <2>4, <2>5, <2>6 DEF RspStates, WordsKept
    <3> QED BY <2>5, <3>2, <3>3, <3>4
  <2>7. CASE Head(dev.out) = "nak" /\ dev.gdb = "sent"
    <3> DEFINE k == Pkt(dev.req)
    <3>1. k \in RspPackets /\ k.t = "pkt" /\ k.r = dev.req
      BY <1>1, <1>3 DEF Pkt, RspStates
    <3>2. dev' = [s EXCEPT !.in = Append(s.in, k)]
      BY <2>1, <2>7
    <3> HIDE DEF k
    <3>3. /\ dev' \in RspStates /\ dev'.in = Append(dev.in, k)
          /\ dev'.req = dev.req /\ WordsKept(dev')
      BY <2>6, <3>1, <3>2
    <3>4. /\ Len(dev.in) \in Nat /\ Len(dev'.in) = Len(dev.in) + 1
          /\ dev'.in[Len(dev.in) + 1] = k
      BY <1>1, <3>1, <3>3 DEF RspStates
    <3>5. /\ Len(dev.in) + 1 \in 1 .. Len(dev'.in)
          /\ OnTheWire(dev', Len(dev.in) + 1)
      BY <3>1, <3>3, <3>4 DEF OnTheWire
    <3> QED BY <3>3, <3>5 DEF Remembered
  <2>8. CASE Head(dev.out) = "nak" /\ dev.gdb # "sent"
    <3>1. dev' = s
      BY <2>1, <2>8
    <3> QED BY <2>4, <2>5, <2>8, <3>1 DEF Remembered
  <2>9. CASE Head(dev.out) # "nak" /\ good
    <3> DEFINE q == Append(s.in, Token("+"))
    <3>1. dev' = [s EXCEPT !.gdb = "idle", !.req = NoRequest, !.resent = FALSE,
                           !.in = q]
      BY <2>1, <2>9
    <3>2. q \in Seq(RspPackets)
      BY <1>2, <1>3, <2>4 DEF RspStates
    <3> HIDE DEF q
    <3>3. dev' \in RspStates
      BY <1>2, <2>4, <3>1, <3>2 DEF RspStates
    <3>4. WordsKept(dev') /\ dev'.gdb # "sent"
      BY <2>4, <2>5, <3>1 DEF RspStates, WordsKept
    <3> QED BY <3>3, <3>4 DEF Remembered
  <2>10. CASE Head(dev.out) # "nak" /\ ~good
    <3> DEFINE k == Token("-")
    <3>1. k \in RspPackets /\ k.t # "+"
      BY <1>2, <1>3 DEF Token
    <3>2. dev' = [s EXCEPT !.in = Append(s.in, k)] /\ Head(dev.out) = "reply"
      BY <2>1, <2>3, <2>10
    <3> HIDE DEF k
    <3>3. /\ dev' \in RspStates /\ dev'.in = Append(dev.in, k)
          /\ dev'.out = Tail(dev.out) /\ dev'.req = dev.req
          /\ dev'.gdb = dev.gdb /\ dev'.open = dev.open
          /\ dev'.fooled = dev.fooled /\ dev'.at = dev.at
          /\ dev'.waiting = dev.waiting /\ WordsKept(dev')
      BY <2>6, <3>1, <3>2
    <3>4. Remembered(dev')
      <4>1. dev.out # <<>> /\ dev'.out = Tail(dev.out) /\ Head(dev.out) = "reply"
        BY <2>2, <3>2, <3>3
      <4> QED BY <1>1, <3>1, <3>3, <4>1, TokenArrives, ZenonT(60)
    <3> QED BY <3>3, <3>4
  <2> QED BY <2>7, <2>8, <2>9, <2>10
<1>14. CASE GdbLeave
  <2>1. dev' = [dev EXCEPT !.gdb = "gone", !.req = NoRequest, !.resent = FALSE]
    BY <1>14 DEF GdbLeave
  <2>2. dev' \in RspStates
    BY <1>1, <1>2, <2>1 DEF RspStates
  <2> QED BY <1>1, <2>1, <2>2 DEF RspStates, WordsKept, Remembered
<1>15. CASE UNCHANGED dev
  BY <1>1, <1>15
<1> QED BY <1>4, <1>5, <1>6, <1>7, <1>8, <1>9, <1>10, <1>11, <1>12, <1>13,
           <1>14, <1>15 DEF RspNext

(* However packets are damaged, repeated and refused, the breakpoints are  *)
(* what GDB asked for, and GDB and the server never wait for each other.   *)
THEOREM RspAlwaysSound == RspSpec => []RspSound
<1>1. RspInv => RspSound
  <2> SUFFICES ASSUME RspInv PROVE RspSound
    OBVIOUS
  <2>1. RspBreakpoints
    BY DEF RspInv, WordsKept, RspBreakpoints
  <2>2. RspNobodyForgotten
    <3> SUFFICES ASSUME dev.gdb = "sent", dev.req.op \notin RspSilent, dev.open,
                        ~dev.fooled
                 PROVE  dev.in # <<>> \/ dev.out # <<>> \/ dev.waiting
      BY DEF RspNobodyForgotten
    <3>1. dev \in RspStates /\ dev.open = TRUE /\ dev.fooled = FALSE
      BY DEF RspInv, RspStates
    <3>2. (\E p \in 1 .. Len(dev.in) : OnTheWire(dev, p)) \/ AnswerDue(dev)
      BY <3>1 DEF RspInv, Remembered
    <3>3. ASSUME NEW p \in 1 .. Len(dev.in) PROVE dev.in # <<>>
      BY <3>1, <3>3 DEF RspStates
    <3>4. ASSUME NEW p \in 1 .. Len(dev.out) PROVE dev.out # <<>>
      BY <3>1, <3>4 DEF RspStates
    <3> QED BY <3>2, <3>3, <3>4 DEF AnswerDue
  <2> QED BY <2>1, <2>2 DEF RspSound
<1> QED BY <1>1, RspStarts, RspStep, PTL DEF RspSpec

-----------------------------------------------------------------------------
(* Memory areas.                                                           *)

(* The areas that may be registered: aligned to their sizes.               *)
AreaSet ==
  {a \in [lo : Nat, size : Nat \ {0}, valid : BOOLEAN,
          reads : SUBSET {1, 2, 4}, writes : SUBSET {1, 2, 4}] :
     a.lo % a.size = 0}

(* The address space is not empty.                                         *)
LEMMA TopPositive == AreaTop \in Nat \ {0}
BY AreaAssumption, Zenon

(* The states of the list of areas.                                        *)
AreaStates ==
  [kind : {"area"}, areas : Seq(AreaSet), cur : Nat, mc : Nat,
   exited : BOOLEAN, vadd : Nat, eear : Int, asked : Int, kept : Nat]

(* No two areas of the list have a byte in common, but for one at the top. *)
NoOverlap(areas) ==
  \A i, j \in 1 .. Len(areas) :
    \/ i = j
    \/ areas[i].lo + areas[i].size <= areas[j].lo
    \/ areas[j].lo + areas[j].size <= areas[i].lo
    \/ AreaAtTop(areas[i]) \/ AreaAtTop(areas[j])

(* The cached area and the one of the memory controller are in the list.   *)
(* The controller's is valid, and so is the cached one unless it was       *)
(* switched off since it was cached.                                       *)
Cached(s) ==
  /\ s.cur <= Len(s.areas) /\ s.mc <= Len(s.areas)
  /\ s.mc # 0 => s.areas[s.mc].valid
  /\ s.cur # 0 => s.areas[s.cur].valid \/ s.cur = s.kept
AreaInv ==
  /\ dev \in AreaStates /\ NoOverlap(dev.areas) /\ AreaRight /\ Cached(dev)

(* bit_mask() of a size that a device may ask for is one less than a       *)
(* positive number.                                                        *)
LEMMA MaskPositive ==
  ASSUME NEW n \in 1 .. 2^30 PROVE bit_mask(n) + 1 \in Nat \ {0}
<1> DEFINE wide == {k \in 0 .. 30 : 2^k >= n}
<1>1. 2^30 \in Nat \ {0}
  BY PowerOfTwo
<1>2. 30 \in wide
  BY <1>1
<1>3. wide \in SUBSET Nat /\ wide # {}
  <2>1. wide \subseteq Nat
    OBVIOUS
  <2> QED BY <1>2, <2>1, Zenon
<1> HIDE DEF wide
<1>4. \E m \in wide : \A l \in wide : m <= l
  BY <1>3, LeastNat
<1> DEFINE k == CHOOSE m \in wide : \A l \in wide : m <= l
<1>5. k \in wide
  BY <1>4
<1>6. bit_mask(n) = 2^k - 1
  BY DEF bit_mask, wide
<1> HIDE DEF k
<1>7. 2^k \in Nat \ {0}
  BY <1>3, <1>5, PowerOfTwo
<1> QED BY <1>6, <1>7

(* Rounding an address down to the size of an aligned area gives its       *)
(* start exactly for the area's own addresses.                             *)
LEMMA RoundsToArea ==
  ASSUME NEW n \in Nat, NEW lo \in Nat, NEW size \in Nat \ {0}, lo % size = 0
  PROVE  n - (n % size) = lo <=> n \in lo .. lo + size - 1
<1> DEFINE q == n \div size
           r == n % size
           p == lo \div size
<1>1. n = size * q + r /\ r \in 0 .. size - 1 /\ q \in Nat
  BY NatDivMod
<1>2. lo = size * p + (lo % size) /\ p \in Nat
  BY NatDivMod
<1> HIDE DEF p, q
<1>3. lo = size * p
  BY <1>2
<1>4. ASSUME n - r = lo PROVE n \in lo .. lo + size - 1
  BY <1>1, <1>4
<1>5. ASSUME n \in lo .. lo + size - 1 PROVE n - r = lo
  <2> DEFINE x == n - lo
  <2>1. x \in 0 .. size - 1 /\ n = lo + x
    BY <1>5
  <2> HIDE DEF x, r
  <2>2. q * size + r = p * size + x
    BY <1>1, <1>2, <1>3, <2>1
  <2>3. q = p /\ r = x
    BY <1>1, <1>2, <2>1, <2>2, Unique
  <2> QED BY <2>1, <2>3
<1> QED BY <1>4, <1>5

(* The list holds an area of an address exactly when the search finds one. *)
LEMMA SearchRight ==
  ASSUME NEW s \in AreaStates, NEW n \in Nat
  PROVE  LET i == ListFirst(s, n) IN
         \/ i \in 1 .. Len(s.areas) /\ AreaIn(s, i, n) /\ s.areas[i].valid
         \/ /\ i = 0
            /\ \A j \in 1 .. Len(s.areas) : s.areas[j].valid => ~AreaIn(s, j, n)
<1> DEFINE Found(i) == AreaIn(s, i, n) /\ s.areas[i].valid
           S == {i \in 1 .. Len(s.areas) : Found(i)}
<1>1. Len(s.areas) \in Nat
  BY DEF AreaStates
<1>2. CASE S = {}
  BY <1>2 DEF ListFirst
<1>3. CASE S # {}
  <2>1. S \in SUBSET Nat
    BY <1>1
  <2>2. PICK m \in S : \A k \in S : m <= k
    <3> HIDE DEF S
    <3> QED BY <1>3, <2>1, LeastNat
  <2>3. \A j \in 1 .. m - 1 : ~AreaIn(s, j, n) \/ ~s.areas[j].valid
    BY <1>1, <2>2
  <2>4. \E i \in 1 .. Len(s.areas) :
          /\ AreaIn(s, i, n) /\ s.areas[i].valid
          /\ \A j \in 1 .. i - 1 : ~AreaIn(s, j, n) \/ ~s.areas[j].valid
    BY <2>2, <2>3
  <2>5. ListFirst(s, n) =
          CHOOSE i \in 1 .. Len(s.areas) :
            /\ AreaIn(s, i, n) /\ s.areas[i].valid
            /\ \A j \in 1 .. i - 1 : ~AreaIn(s, j, n) \/ ~s.areas[j].valid
    BY <2>4 DEF ListFirst
  <2> QED BY <2>4, <2>5
<1> QED BY <1>2, <1>3

(* An access finds the area of its address, whatever area was used before. *)
LEMMA VerifyRight ==
  ASSUME NEW s \in AreaStates, NEW n \in Nat, Cached(s),
         NEW t, t = verify_memoryarea(s, n)
  PROVE  /\ t \in AreaStates /\ t.areas = s.areas /\ t.mc = s.mc
         /\ t.kept = s.kept /\ Cached(t)
         /\ IF t.cur # 0 THEN n \in AreaBytes(t.areas[t.cur])
            ELSE \A i \in 1 .. Len(t.areas) :
                   t.areas[i].valid => n \notin AreaBytes(t.areas[i])
<1>1. Len(s.areas) \in Nat /\ s.cur \in Nat /\ s.mc \in Nat
  BY DEF AreaStates
<1>2. ASSUME NEW i \in 1 .. Len(s.areas)
      PROVE  AreaIn(s, i, n) <=> n \in AreaBytes(s.areas[i])
  <2>1. s.areas[i] \in AreaSet
    BY <1>2 DEF AreaStates
  <2>2. /\ s.areas[i].lo \in Nat /\ s.areas[i].size \in Nat \ {0}
        /\ s.areas[i].lo % s.areas[i].size = 0
    BY <2>1 DEF AreaSet
  <2> QED BY <2>2, RoundsToArea DEF AreaIn, AreaBytes
<1>3. PICK c : /\ t = [s EXCEPT !.cur = c]
               /\ \/ s.mc # 0 /\ AreaIn(s, s.mc, n) /\ c = s.mc
                  \/ s.cur # 0 /\ AreaIn(s, s.cur, n) /\ c = s.cur
                  \/ c = ListFirst(s, n)
  BY DEF verify_memoryarea
<1>4. \/ /\ c \in 1 .. Len(s.areas) /\ AreaIn(s, c, n)
         /\ s.areas[c].valid \/ c = s.kept
      \/ /\ c = 0
         /\ \A j \in 1 .. Len(s.areas) : s.areas[j].valid => ~AreaIn(s, j, n)
  BY <1>1, <1>3, SearchRight DEF Cached
<1>5. c \in Nat /\ c <= Len(s.areas)
  BY <1>1, <1>4
<1>6. t \in AreaStates /\ t.areas = s.areas /\ t.mc = s.mc /\ t.cur = c
        /\ t.kept = s.kept
  BY <1>3, <1>5 DEF AreaStates
<1>7. Cached(t)
  BY <1>1, <1>4, <1>5, <1>6 DEF Cached
<1> QED BY <1>1, <1>2, <1>4, <1>5, <1>6, <1>7

(* The list is empty at the start.                                         *)
LEMMA AreaStarts == AreaInit => AreaInv
<1> SUFFICES ASSUME AreaInit PROVE AreaInv
  OBVIOUS
<1>1. /\ <<>> \in Seq(AreaSet) /\ Len(<<>>) = 0 /\ 0 \in Nat
      /\ -1 \in Int /\ 0 <= 0
  OBVIOUS
<1>2. dev \in AreaStates /\ dev.areas = <<>> /\ dev.cur = 0 /\ dev.mc = 0
        /\ dev.asked = -1
  BY <1>1 DEF AreaInit, AreaStates
<1> QED BY <1>1, <1>2 DEF AreaInv, NoOverlap, AreaRight, Cached

(* Registering an area, an access and switching a chip select keep the     *)
(* invariant.                                                              *)
LEMMA AreaStep == AreaInv /\ [AreaNext]_dev => AreaInv'
<1> SUFFICES ASSUME AreaInv, [AreaNext]_dev PROVE AreaInv'
  OBVIOUS
<1>1. /\ dev \in AreaStates /\ NoOverlap(dev.areas) /\ Is("area") /\ AreaRight
      /\ Cached(dev) /\ dev.cur <= Len(dev.areas) /\ dev.mc <= Len(dev.areas)
      /\ dev.areas \in Seq(AreaSet) /\ Len(dev.areas) \in Nat
      /\ dev.cur \in Nat /\ dev.mc \in Nat /\ dev.kept \in Nat /\ 0 \in Nat
  BY DEF AreaInv, Is, AreaStates, Cached
<1>2. CASE AreaRegister
  <2> DEFINE n == Len(dev.areas)
  <2>1. PICK r \in AreaRequests :
          dev' = Displaced(reg_mem_area(dev, r))
    BY <1>2 DEF AreaRegister
  <2>2. /\ r.addr \in Nat /\ r.size \in 1 .. 2^30 /\ r.mc \in BOOLEAN
        /\ r.reads \in SUBSET {1, 2, 4} /\ r.writes \in SUBSET {1, 2, 4}
    <3>1. r \in [addr : 0 .. AreaTop - 1, size : 1 .. 2^30, mc : BOOLEAN,
                 reads : SUBSET {1, 2, 4}, writes : SUBSET {1, 2, 4}]
      BY AreaAssumption, Zenon
    <3>2. /\ r.addr \in 0 .. AreaTop - 1 /\ r.size \in 1 .. 2^30 /\ r.mc \in BOOLEAN
          /\ r.reads \in SUBSET {1, 2, 4} /\ r.writes \in SUBSET {1, 2, 4}
      BY <3>1, Zenon
    <3>3. r.addr \in Nat
      BY <3>2, TopPositive
    <3> QED BY <3>2, <3>3, Zenon
  <2> DEFINE size == bit_mask(r.size) + 1
             lo == r.addr - (r.addr % size)
             a == [lo |-> lo, size |-> size, valid |-> TRUE,
                   reads |-> r.reads, writes |-> r.writes]
  <2>3. size \in Nat \ {0}
    BY <2>2, MaskPositive
  <2>4. dev' = IF \E i \in 1 .. n : Overlaps(a, dev.areas[i])
               THEN Displaced([dev EXCEPT !.exited = TRUE])
               ELSE Displaced([dev EXCEPT !.areas = Append(dev.areas, a),
                                          !.cur = n + 1,
                                          !.mc = IF r.mc THEN n + 1 ELSE dev.mc])
    BY <2>1 DEF reg_mem_area
  <2> HIDE DEF size
  <2>5. lo \in Nat /\ lo % size = 0
    <3> DEFINE q == r.addr \div size
               m == r.addr % size
    <3>1. r.addr = size * q + m /\ m \in 0 .. size - 1 /\ q \in Nat
      BY <2>2, <2>3, NatDivMod
    <3> HIDE DEF q, m
    <3>2. lo = r.addr - m
      BY DEF m
    <3>0. r.addr \in Nat
      BY <2>2, Zenon
    <3>3. lo = size * q /\ lo \in Nat
      BY <2>3, <3>0, <3>1, <3>2
    <3> DEFINE x == lo
    <3>4. x = size * q /\ x \in Nat
      BY <3>3
    <3> HIDE DEF x
    <3>5. x = size * (x \div size) + (x % size) /\ x % size \in 0 .. size - 1
            /\ x \div size \in Nat
      BY <2>3, <3>4, NatDivMod
    <3> DEFINE u == x \div size
               v == x % size
    <3> HIDE DEF u, v
    <3>6. u * size + v = q * size + 0 /\ v \in 0 .. size - 1 /\ u \in Nat
            /\ 0 \in 0 .. size - 1
      BY <2>3, <3>1, <3>4, <3>5 DEF u, v
    <3>7. v = 0
      BY <2>3, <3>1, <3>6, Unique
    <3> QED BY <3>3, <3>7 DEF v, x
  <2> HIDE DEF lo
  <2>6. a \in AreaSet /\ a.lo = lo /\ a.size = size
    BY <2>2, <2>3, <2>5 DEF AreaSet
  <2> HIDE DEF a
  <2>7. CASE \E i \in 1 .. n : Overlaps(a, dev.areas[i])
    <3> DEFINE k == IF dev.cur = dev.kept THEN dev.kept ELSE 0
    <3>5. dev' = [dev EXCEPT !.exited = TRUE, !.kept = k]
      BY <1>1, <2>4, <2>7 DEF Displaced, AreaStates
    <3>6. k \in Nat /\ (dev.cur = dev.kept => k = dev.kept)
      BY <1>1
    <3> HIDE DEF k
    <3>1. dev' = [dev EXCEPT !.exited = TRUE, !.kept = k] /\ k \in Nat
      BY <3>5, <3>6
    <3>2. dev' \in AreaStates
      BY <1>1, <3>1 DEF AreaStates
    <3>3. /\ dev'.areas = dev.areas /\ dev'.cur = dev.cur /\ dev'.mc = dev.mc
          /\ dev'.asked = dev.asked /\ dev'.kind = dev.kind /\ dev'.kept = k
      BY <1>1, <3>1 DEF AreaStates
    <3>4. dev'.asked = -1 /\ Cached(dev')
      BY <1>1, <1>2, <3>3, <3>6 DEF AreaRegister, Cached
    <3> QED BY <1>1, <3>2, <3>3, <3>4 DEF AreaInv, AreaRight
  <2>8. CASE ~ \E i \in 1 .. n : Overlaps(a, dev.areas[i])
    <3> DEFINE mc == IF r.mc THEN n + 1 ELSE dev.mc
    <3> DEFINE k == IF n + 1 = dev.kept THEN dev.kept ELSE 0
    <3>10. k \in Nat
      BY <1>1
    <3>1. dev' = [dev EXCEPT !.areas = Append(dev.areas, a), !.cur = n + 1,
                             !.mc = mc, !.kept = k]
      BY <1>1, <2>4, <2>8 DEF Displaced, AreaStates
    <3> HIDE DEF k
    <3>2. mc \in Nat /\ mc <= n + 1
      BY <1>1
    <3> HIDE DEF mc
    <3>3. /\ Append(dev.areas, a) \in Seq(AreaSet)
          /\ Len(Append(dev.areas, a)) = n + 1 /\ n + 1 \in Nat
          /\ \A i \in 1 .. n : Append(dev.areas, a)[i] = dev.areas[i]
          /\ Append(dev.areas, a)[n + 1] = a
      BY <1>1, <2>6
    <3>4. dev' \in AreaStates
      BY <1>1, <3>1, <3>2, <3>3, <3>10 DEF AreaStates
    <3>5. /\ dev'.areas = Append(dev.areas, a) /\ dev'.cur = n + 1
          /\ dev'.mc = mc /\ dev'.asked = dev.asked
      BY <1>1, <3>1 DEF AreaStates
    <3>6. dev'.asked = -1
      BY <1>2, <3>5 DEF AreaRegister
    <3>7. ASSUME NEW i \in 1 .. n
          PROVE  \/ a.lo + a.size <= dev.areas[i].lo
                 \/ dev.areas[i].lo + dev.areas[i].size <= a.lo
                 \/ AreaAtTop(a) \/ AreaAtTop(dev.areas[i])
      <4>1. dev.areas[i].lo \in Nat /\ dev.areas[i].size \in Nat \ {0}
        BY <1>1, <3>7 DEF AreaSet
      <4>2. ~ Overlaps(a, dev.areas[i])
        BY <2>8
      <4> SUFFICES ASSUME ~ AreaAtTop(a), ~ AreaAtTop(dev.areas[i])
                   PROVE  \/ a.lo + a.size <= dev.areas[i].lo
                          \/ dev.areas[i].lo + dev.areas[i].size <= a.lo
        OBVIOUS
      <4>3. ASSUME NEW x \in Nat, x < AreaTop PROVE x % AreaTop = x
        BY <4>3, TopPositive, SMT
      <4>4. /\ AreaEnd(a) = a.lo + a.size
            /\ AreaEnd(dev.areas[i]) = dev.areas[i].lo + dev.areas[i].size
        <5>1. /\ a.lo + a.size \in Nat /\ a.lo + a.size < AreaTop
              /\ dev.areas[i].lo + dev.areas[i].size \in Nat
              /\ dev.areas[i].lo + dev.areas[i].size < AreaTop
          BY <2>3, <2>5, <2>6, <4>1, TopPositive DEF AreaAtTop
        <5> QED BY <4>3, <5>1 DEF AreaEnd
      <4> QED BY <2>3, <2>5, <2>6, <4>1, <4>2, <4>4 DEF Overlaps
    <3>8. NoOverlap(dev'.areas)
      <4> SUFFICES ASSUME NEW i \in 1 .. n + 1, NEW j \in 1 .. n + 1, i # j
                   PROVE  \/ dev'.areas[i].lo + dev'.areas[i].size <= dev'.areas[j].lo
                          \/ dev'.areas[j].lo + dev'.areas[j].size <= dev'.areas[i].lo
                          \/ AreaAtTop(dev'.areas[i]) \/ AreaAtTop(dev'.areas[j])
        BY <3>3, <3>5 DEF NoOverlap
      <4>1. CASE i = n + 1
        <5>1. j \in 1 .. n
          BY <1>1, <4>1
        <5> QED BY <3>3, <3>5, <3>7, <4>1, <5>1
      <4>2. CASE j = n + 1
        <5>1. i \in 1 .. n
          BY <1>1, <4>2
        <5> QED BY <3>3, <3>5, <3>7, <4>2, <5>1
      <4>3. CASE i # n + 1 /\ j # n + 1
        <5>1. i \in 1 .. n /\ j \in 1 .. n
          BY <1>1, <4>3
        <5> QED BY <1>1, <3>3, <3>5, <5>1 DEF NoOverlap
      <4> QED BY <4>1, <4>2, <4>3
    <3>9. Cached(dev')
      <4>1. a.valid
        BY DEF a
      <4> QED BY <1>1, <3>2, <3>3, <3>5, <4>1 DEF Cached, mc
    <3> QED BY <1>1, <3>2, <3>3, <3>4, <3>5, <3>6, <3>8, <3>9 DEF AreaInv, AreaRight
  <2> QED BY <2>7, <2>8
<1>3. CASE AreaAccess
  <2>1. PICK n \in AreaProbes, w \in {1, 2, 4} :
          \/ dev' = Accessed(evalsim_mem(dev, n, w), n)
          \/ dev' = Accessed(setsim_mem(dev, n, w), n)
          \/ dev' = Accessed(direct_mem(dev, n), n)
    BY <1>3 DEF AreaAccess
  <2> DEFINE t == verify_memoryarea(dev, n)
  <2>2. n \in Nat
    <3>1. n \in 0 .. AreaTop - 1
      BY AreaAssumption, Zenon
    <3> QED BY <3>1, TopPositive
  <2>3. /\ t \in AreaStates /\ t.areas = dev.areas /\ t.mc = dev.mc
        /\ t.kept = dev.kept /\ Cached(t)
        /\ IF t.cur # 0 THEN n \in AreaBytes(t.areas[t.cur])
           ELSE \A i \in 1 .. Len(t.areas) :
                  t.areas[i].valid => n \notin AreaBytes(t.areas[i])
    BY <1>1, <2>2, VerifyRight
  <2> DEFINE k == IF t.cur = t.kept THEN t.kept ELSE 0
  <2>4. PICK v \in Nat, e \in Int :
          dev' = [t EXCEPT !.vadd = v, !.eear = e, !.asked = n, !.kept = k]
    <3>1. t.vadd \in Nat /\ n \in Int /\ t.vadd \in Int /\ -1 \in Int
      BY <2>2, <2>3 DEF AreaStates
    <3>2. ASSUME NEW x PROVE [t EXCEPT !.eear = x, !.asked = n, !.kept = k]
                              = [t EXCEPT !.vadd = t.vadd, !.eear = x, !.asked = n, !.kept = k]
      BY <2>3 DEF AreaStates
    <3>6. ASSUME NEW x
          PROVE  /\ Accessed([t EXCEPT !.eear = x], n)
                      = [t EXCEPT !.eear = x, !.asked = n, !.kept = k]
                 /\ Accessed([t EXCEPT !.vadd = n, !.eear = x], n)
                      = [t EXCEPT !.vadd = n, !.eear = x, !.asked = n, !.kept = k]
      <4> HIDE DEF t
      <4> QED BY <2>3 DEF Accessed, Displaced, AreaStates
    <3>3. CASE dev' = Accessed(evalsim_mem(dev, n, w), n)
      <4>1. PICK x \in {n, -1, t.vadd} : dev' = [t EXCEPT !.eear = x, !.asked = n, !.kept = k]
        <5>1. \E x \in {n, -1, t.vadd} : evalsim_mem(dev, n, w) = [t EXCEPT !.eear = x]
          BY DEF evalsim_mem
        <5> QED BY <3>3, <3>6, <5>1
      <4>2. x \in Int
        BY <3>1
      <4> HIDE DEF t, k
      <4> QED BY <3>1, <3>2, <4>1, <4>2, Zenon
    <3>4. CASE dev' = Accessed(setsim_mem(dev, n, w), n)
      <4>1. \/ dev' = [t EXCEPT !.eear = n, !.asked = n, !.kept = k]
            \/ \E x \in {n, -1} : dev' = [t EXCEPT !.vadd = n, !.eear = x, !.asked = n, !.kept = k]
        <5>1. \/ setsim_mem(dev, n, w) = [t EXCEPT !.eear = n]
              \/ \E x \in {n, -1} :
                   setsim_mem(dev, n, w) = [t EXCEPT !.vadd = n, !.eear = x]
          BY DEF setsim_mem
        <5> QED BY <3>4, <3>6, <5>1
      <4> HIDE DEF t, k
      <4>2. CASE dev' = [t EXCEPT !.eear = n, !.asked = n, !.kept = k]
        BY <3>1, <3>2, <4>2, Zenon
      <4>3. CASE \E x \in {n, -1} :
                   dev' = [t EXCEPT !.vadd = n, !.eear = x, !.asked = n, !.kept = k]
        BY <2>2, <3>1, <4>3
      <4> QED BY <4>1, <4>2, <4>3
    <3>5. CASE dev' = Accessed(direct_mem(dev, n), n)
      <4>1. dev' = [t EXCEPT !.eear = -1, !.asked = n, !.kept = k]
        BY <3>5, <3>6 DEF direct_mem
      <4> QED BY <3>1, <3>2, <4>1
    <3> QED BY <2>1, <3>3, <3>4, <3>5
  <2> HIDE DEF t
  <2>7. k \in Nat /\ (t.cur = t.kept => k = t.kept)
    BY <1>1, <2>3
  <2> HIDE DEF k
  <2>5. dev' \in AreaStates
    <3>1. [t EXCEPT !.vadd = v] \in AreaStates
      BY <2>3 DEF AreaStates
    <3>2. ASSUME NEW u \in AreaStates, NEW x \in Int
          PROVE  [u EXCEPT !.eear = e, !.asked = x, !.kept = k] \in AreaStates
      BY <2>7 DEF AreaStates
    <3>3. dev' = [[t EXCEPT !.vadd = v] EXCEPT !.eear = e, !.asked = n, !.kept = k]
      BY <2>3, <2>4 DEF AreaStates
    <3>4. n \in Int
      BY <2>2
    <3> QED BY <3>1, <3>2, <3>3, <3>4, Zenon
  <2>6. /\ dev'.areas = t.areas /\ dev'.cur = t.cur /\ dev'.mc = t.mc
        /\ dev'.asked = n /\ dev'.kept = k
    BY <2>3, <2>4 DEF AreaStates
  <2>8. Cached(dev')
    BY <1>1, <2>3, <2>6, <2>7 DEF Cached
  <2> QED BY <1>1, <2>3, <2>5, <2>6, <2>8 DEF AreaInv, AreaRight, Cached
<1>4. CASE AreaSwitch
  <2>1. PICK i \in 1 .. Len(dev.areas), b \in BOOLEAN :
          /\ i # dev.mc
          /\ dev' = [set_mem_valid(dev, i, b) EXCEPT
                       !.asked = -1,
                       !.kept = IF i # dev.cur THEN @ ELSE IF b THEN 0 ELSE i]
    BY <1>4 DEF AreaSwitch
  <2> DEFINE a == [dev.areas[i] EXCEPT !.valid = b]
             q == [dev.areas EXCEPT ![i] = a]
             k == IF i # dev.cur THEN dev.kept ELSE IF b THEN 0 ELSE i
  <2>2. dev' = [dev EXCEPT !.areas = q, !.asked = -1, !.kept = k]
    BY <1>1, <2>1 DEF set_mem_valid, AreaStates
  <2>9. /\ k \in Nat /\ (i # dev.cur => k = dev.kept)
        /\ i = dev.cur => b \/ k = i
    BY <1>1
  <2> HIDE DEF k
  <2>3. /\ a \in AreaSet /\ a.lo = dev.areas[i].lo /\ a.size = dev.areas[i].size
        /\ a.valid = b
    <3> DEFINE x == dev.areas[i]
    <3>1. x \in AreaSet
      BY <1>1
    <3> HIDE DEF x
    <3>2. [x EXCEPT !.valid = b] \in AreaSet
      BY <3>1 DEF AreaSet
    <3>3. /\ [x EXCEPT !.valid = b].lo = x.lo /\ [x EXCEPT !.valid = b].size = x.size
          /\ [x EXCEPT !.valid = b].valid = b
      BY <3>1 DEF AreaSet
    <3> QED BY <3>2, <3>3 DEF x
  <2> HIDE DEF a
  <2>4. /\ q \in Seq(AreaSet) /\ Len(q) = Len(dev.areas)
        /\ \A j \in 1 .. Len(q) : q[j] = IF j = i THEN a ELSE dev.areas[j]
    BY <1>1, <2>3
  <2> HIDE DEF q
  <2>5. -1 \in Int
    OBVIOUS
  <2>6. dev' \in AreaStates
    BY <1>1, <2>2, <2>4, <2>5, <2>9 DEF AreaStates
  <2>7. /\ dev'.areas = q /\ dev'.asked = -1 /\ dev'.cur = dev.cur
        /\ dev'.mc = dev.mc /\ dev'.kept = k
    BY <1>1, <2>2 DEF AreaStates
  <2>8. NoOverlap(q)
    BY <1>1, <2>3, <2>4 DEF NoOverlap, AreaAtTop
  <2>10. Cached(dev')
    BY <1>1, <2>1, <2>3, <2>4, <2>7, <2>9 DEF Cached
  <2> QED BY <1>1, <2>4, <2>6, <2>7, <2>8, <2>10 DEF AreaInv, AreaRight
<1>5. CASE UNCHANGED dev
  BY <1>1, <1>5 DEF AreaInv, AreaRight, Is
<1> QED BY <1>2, <1>3, <1>4, <1>5 DEF AreaNext

(* No address belongs to two areas, and an access finds the area of its    *)
(* address although it looks at the area of the last access first.         *)
THEOREM AreasAlwaysSound == AreaSpec => []AreasSound
<1>1. AreaInv => AreasSound
  BY DEF AreaInv, NoOverlap, AreasSound, AreasDisjoint
<1> QED BY <1>1, AreaStarts, AreaStep, PTL DEF AreaSpec

-----------------------------------------------------------------------------
(* Channels.                                                               *)

(* The numbers that a channel keeps: -1 for none, 0 for a descriptor that  *)
(* the process was started with, and those it opens.                       *)
ChannelFds == -1 .. CHANNEL_MAX_FD

(* The states of a channel.                                                *)
ChannelStates ==
  [kind : {"channel"}, type : ChannelTypes, made : BOOLEAN,
   state : {"up", "exited", "hung"}, fdin : ChannelFds, fdout : ChannelFds,
   sock : ChannelFds, argv : BOOLEAN, pid : {-1, 1},
   os : SUBSET (1 .. CHANNEL_MAX_FD), terminals : Nat, SigpipeIgnored : BOOLEAN,
   peer : {"none", "backlog", "accepted", "closed", "reset"}, since : Nat,
   inq : Seq(Nat), sent : Nat, written : Nat, reached : Seq(Nat), got : Seq(Nat)]

(* What the process has open is what the structure holds and, of a         *)
(* terminal, one more for every window; only a TCP channel listens, and    *)
(* while it does it has no connection.                                     *)
Accounted(s) ==
  /\ Held(s) \subseteq s.os
  /\ s.type # "xterm" => s.os = Held(s)
  /\ s.type = "xterm" => /\ Cardinality(s.os \ Held(s)) = s.terminals
                         /\ s.fdin = s.fdout
  /\ s.type # "tcp" => s.sock = -1
  /\ s.type = "tcp" /\ s.sock # -1 => s.sock > 0 /\ s.fdin = -1 /\ s.fdout = -1
  /\ s.made = FALSE => s.fdin = -1 /\ s.fdout = -1 /\ s.sock = -1
  /\ s.made = TRUE => CHANNEL_MAX_FD >= 2

(* The stream so far: what reached the peer begins where it connected and, *)
(* while it listens, ends with the latest character; what the peer sent    *)
(* was received or is in the queue, unless a reset emptied that.           *)
Streams(s) ==
  s.type = "tcp" =>
    /\ \A i \in 1 .. Len(s.reached) : s.reached[i] = s.since + i
    /\ s.peer \in {"backlog", "accepted"} => s.written = s.since + Len(s.reached)
    /\ \A i \in 1 .. Len(s.got) : s.got[i] = i
    /\ s.peer # "reset" \/ s.inq # <<>> => s.got \o s.inq = [i \in 1 .. s.sent |-> i]
    /\ s.peer = "none" => s.reached = <<>> /\ s.fdout = -1
    /\ s.peer = "backlog" => s.sock # -1
    /\ s.peer = "accepted" => s.fdout # -1

ChannelInv == dev \in ChannelStates /\ Accounted(dev) /\ Streams(dev)

(* A channel that is only described satisfies it.                          *)
LEMMA ChannelStarts == ChannelInit => ChannelInv
<1> SUFFICES ASSUME ChannelInit PROVE ChannelInv
  OBVIOUS
<1>1. PICK t \in ChannelKinds, ignored \in BOOLEAN :
        dev = [kind |-> "channel", type |-> t, made |-> FALSE, state |-> "up",
               fdin |-> -1, fdout |-> -1, sock |-> -1, argv |-> FALSE, pid |-> -1,
               os |-> {}, terminals |-> 0, SigpipeIgnored |-> ignored,
               peer |-> "none", since |-> 0, inq |-> << >>, sent |-> 0,
               written |-> 0, reached |-> << >>, got |-> << >>]
  BY DEF ChannelInit
<1>2. t \in ChannelTypes /\ -1 \in ChannelFds /\ <<>> \in Seq(Nat) /\ 0 \in Nat
  BY ChannelsAssumption DEF ChannelFds
<1>3. dev \in ChannelStates
  BY <1>1, <1>2 DEF ChannelStates
<1>4. Held(dev) = {}
  BY <1>1 DEF Held
<1>5. Accounted(dev)
  BY <1>1, <1>4, FS_EmptySet DEF Accounted
<1>6. <<>> \o <<>> = [i \in 1 .. 0 |-> i] /\ Len(<<>>) = 0
  OBVIOUS
<1>7. Streams(dev)
  BY <1>1, <1>6 DEF Streams
<1> QED BY <1>3, <1>5, <1>7 DEF ChannelInv

(* There are finitely many descriptors.                                    *)
LEMMA OsFinite ==
  ASSUME NEW os \in SUBSET (1 .. CHANNEL_MAX_FD)
  PROVE  IsFiniteSet(os) /\ Cardinality(os) \in Nat
<1> DEFINE M == CHANNEL_MAX_FD
<1>1. M \in Int /\ 1 \in Int
  BY ChannelsAssumption
<1> HIDE DEF M
<1>2. IsFiniteSet(1 .. M)
  BY <1>1, FS_Interval
<1>3. os \subseteq 1 .. M
  BY DEF M
<1> QED BY <1>2, <1>3, FS_Subset, FS_CardinalityType

(* The lowest free descriptor is free, while there is one.                 *)
LEMMA FreeIsFree ==
  ASSUME NEW s, s.os \in SUBSET (1 .. CHANNEL_MAX_FD),
         Cardinality(s.os) < CHANNEL_MAX_FD
  PROVE  FreeFd(s) \in (1 .. CHANNEL_MAX_FD) \ s.os
<1> DEFINE M == CHANNEL_MAX_FD
           F == (1 .. M) \ s.os
<1>1. M \in Nat
  BY ChannelsAssumption
<1> HIDE DEF M
<1>2. IsFiniteSet(1 .. M) /\ Cardinality(1 .. M) = M
  BY <1>1, FS_Interval
<1>3. F # {}
  <2> SUFFICES ASSUME F = {} PROVE FALSE
    OBVIOUS
  <2>1. s.os = 1 .. M
    BY DEF M
  <2> QED BY <1>1, <1>2, <2>1 DEF M
<1>4. F \in SUBSET Nat
  BY <1>1
<1>5. PICK f \in F : \A g \in F : f <= g
  <2> HIDE DEF F
  <2> QED BY <1>3, <1>4, LeastNat
<1>6. f \in 1 .. M /\ f \notin s.os /\ \A g \in 1 .. (f - 1) : g \in s.os
  BY <1>1, <1>5
<1>7. \E x \in 1 .. M : x \notin s.os /\ \A g \in 1 .. (x - 1) : g \in s.os
  BY <1>6
<1>8. FreeFd(s) = CHOOSE x \in 1 .. M :
                    x \notin s.os /\ \A g \in 1 .. (x - 1) : g \in s.os
  BY DEF FreeFd, M
<1> QED BY <1>7, <1>8 DEF M

(* A state that satisfies the invariant.                                   *)
ChannelOk(s) == s \in ChannelStates /\ Accounted(s) /\ Streams(s)

(* A channel that open is to make use of: nothing left from before, and    *)
(* two descriptors to be had.                                              *)
ChannelReady(s) ==
  s.type \in {"file1", "file2", "xterm"} =>
    s.fdin = -1 /\ s.fdout = -1 /\ Cardinality(s.os) + 2 <= CHANNEL_MAX_FD

(* Making the channel.                                                     *)
LEMMA InitKeeps ==
  ASSUME NEW s, ChannelOk(s), s.made = FALSE,
         Cardinality(s.os) + 2 <= CHANNEL_MAX_FD, NEW t \in channel_init(s)
  PROVE  ChannelOk(t) /\ t.made = TRUE /\ ChannelReady(t)
<1> DEFINE m == [s EXCEPT !.made = TRUE]
<1>1. /\ s \in ChannelStates /\ s.fdin = -1 /\ s.fdout = -1 /\ s.sock = -1
      /\ Held(s) \subseteq s.os /\ (s.type # "xterm" => s.os = Held(s))
      /\ (s.type = "xterm" => Cardinality(s.os \ Held(s)) = s.terminals)
  BY DEF ChannelOk, Accounted
<1>2. CHANNEL_MAX_FD \in Nat
  BY ChannelsAssumption
<1>3. IsFiniteSet(s.os) /\ Cardinality(s.os) \in Nat
  <2>1. s.os \in SUBSET (1 .. CHANNEL_MAX_FD)
    BY <1>1 DEF ChannelStates
  <2> QED BY <2>1, OsFinite
<1>4. CHANNEL_MAX_FD >= 2
  BY <1>2, <1>3
<1>5. Held(s) = {} /\ s.os \ {} = s.os
  BY <1>1 DEF Held
<1>6. /\ m \in ChannelStates
      /\ m.fdin = -1 /\ m.fdout = -1 /\ m.sock = -1 /\ m.made = TRUE
      /\ m.os = s.os /\ m.terminals = s.terminals /\ m.type = s.type
      /\ m.reached = s.reached /\ m.written = s.written /\ m.got = s.got
      /\ m.inq = s.inq /\ m.sent = s.sent /\ m.peer = s.peer /\ m.since = s.since
  BY <1>1 DEF ChannelStates
<1> DEFINE f == FreeFd(m)
<1>7. f \in 1 .. CHANNEL_MAX_FD /\ f \notin s.os /\ f \in ChannelFds
  <2>1. f \in (1 .. CHANNEL_MAX_FD) \ m.os
    <3>1. m.os \in SUBSET (1 .. CHANNEL_MAX_FD)
      BY <1>6 DEF ChannelStates
    <3>2. Cardinality(m.os) < CHANNEL_MAX_FD
      BY <1>2, <1>3, <1>6
    <3> HIDE DEF m
    <3> QED BY <3>1, <3>2, FreeIsFree
  <2> QED BY <1>2, <1>6, <2>1 DEF ChannelFds
<1>8. Streams(m) /\ Accounted(m) /\ Held(m) = {}
  <2>1. Held(m) = {}
    BY <1>6 DEF Held
  <2>2. Accounted(m)
    BY <1>1, <1>4, <1>5, <1>6, <2>1 DEF Accounted
  <2>3. Streams(m)
    BY <1>1, <1>6 DEF ChannelOk, Streams
  <2> QED BY <2>1, <2>2, <2>3
<1>9. s.type \in ChannelTypes
  BY <1>1 DEF ChannelStates
<1> HIDE DEF m, f
<1>10. CASE s.type = "fd"
  <2>1. t = [m EXCEPT !.fdin = 0, !.fdout = 0]
    BY <1>10 DEF channel_init, fd_init, m
  <2>2. 0 \in ChannelFds
    BY <1>2 DEF ChannelFds
  <2>3. ASSUME NEW x \in ChannelFds
        PROVE  [m EXCEPT !.fdin = x, !.fdout = x] \in ChannelStates
    BY <1>6 DEF ChannelStates
  <2>4. t \in ChannelStates
    BY <2>1, <2>2, <2>3, Zenon
  <2>5. /\ t.fdin = 0 /\ t.fdout = 0 /\ t.sock = -1 /\ t.os = m.os
        /\ t.terminals = m.terminals /\ t.type = "fd" /\ t.made = TRUE
    BY <1>6, <1>10, <2>1 DEF ChannelStates
  <2>6. Held(t) = {}
    BY <2>5 DEF Held
  <2>7. Accounted(t)
    BY <1>1, <1>4, <1>5, <1>6, <1>10, <2>5, <2>6 DEF Accounted
  <2> QED BY <2>4, <2>5, <2>7 DEF ChannelOk, Streams, ChannelReady
<1>11. CASE s.type \in {"file1", "file2"}
  <2>1. t = m
    BY <1>11 DEF channel_init, file_init, m
  <2> QED BY <1>6, <1>8, <2>1 DEF ChannelOk, ChannelReady
<1>12. CASE s.type = "xterm"
  <2>1. t = [m EXCEPT !.argv = TRUE]
    BY <1>12 DEF channel_init, xterm_init, m
  <2>2. t \in ChannelStates
    BY <1>6, <2>1 DEF ChannelStates
  <2>3. /\ t.fdin = -1 /\ t.fdout = -1 /\ t.sock = -1 /\ t.os = m.os
        /\ t.terminals = m.terminals /\ t.type = "xterm" /\ t.made = TRUE
    BY <1>6, <1>12, <2>1 DEF ChannelStates
  <2>4. Held(t) = {}
    BY <2>3 DEF Held
  <2>4a. t.os \ Held(t) = s.os \ Held(s) /\ t.terminals = s.terminals
    BY <1>5, <1>6, <2>3, <2>4
  <2>5. Accounted(t)
    BY <1>1, <1>4, <1>12, <2>3, <2>4, <2>4a DEF Accounted
  <2> QED BY <1>6, <2>2, <2>3, <2>5 DEF ChannelOk, Streams, ChannelReady
<1>13. ASSUME t = ExitOne(m), s.type \in {"tcp", "tty"}
       PROVE  ChannelOk(t) /\ t.made = TRUE /\ ChannelReady(t)
  <2>1. t = [m EXCEPT !.state = "exited"]
    BY <1>13 DEF ExitOne
  <2>2. t \in ChannelStates
    BY <1>6, <2>1 DEF ChannelStates
  <2>3. /\ t.fdin = -1 /\ t.fdout = -1 /\ t.sock = -1 /\ t.os = m.os
        /\ t.terminals = m.terminals /\ t.type = m.type /\ t.made = TRUE
        /\ t.reached = m.reached /\ t.written = m.written /\ t.got = m.got
        /\ t.inq = m.inq /\ t.sent = m.sent /\ t.peer = m.peer /\ t.since = m.since
    BY <1>6, <2>1 DEF ChannelStates
  <2>4. Held(t) = {}
    BY <2>3 DEF Held
  <2>5. Accounted(t) /\ Streams(t)
    BY <1>1, <1>4, <1>5, <1>6, <1>8, <1>13, <2>3, <2>4 DEF Accounted, Streams
  <2> QED BY <1>6, <1>13, <2>2, <2>3, <2>5 DEF ChannelOk, ChannelReady
<1>14. s.os \cup {f} \in SUBSET (1 .. CHANNEL_MAX_FD) /\ m.os \cup {f} = s.os \cup {f}
  BY <1>1, <1>6, <1>7 DEF ChannelStates
<1>15. CASE s.type = "tcp"
  <2>1. t = ExitOne(m) \/ t = [m EXCEPT !.sock = f, !.os = s.os \cup {f}]
    BY <1>14, <1>15, <1>6 DEF channel_init, tcp_init, m, f
  <2>2. CASE t = [m EXCEPT !.sock = f, !.os = s.os \cup {f}]
    <3>1. t \in ChannelStates
      BY <1>6, <1>7, <1>14, <2>2 DEF ChannelStates
    <3>2. /\ t.fdin = -1 /\ t.fdout = -1 /\ t.sock = f /\ t.os = s.os \cup {f}
          /\ t.terminals = m.terminals /\ t.type = "tcp" /\ t.made = TRUE
          /\ t.reached = m.reached /\ t.written = m.written /\ t.got = m.got
          /\ t.inq = m.inq /\ t.sent = m.sent /\ t.peer = m.peer /\ t.since = m.since
      BY <1>6, <1>15, <2>2 DEF ChannelStates
    <3>3. Held(t) = {f} /\ f > 0
      BY <1>2, <1>7, <3>2 DEF Held
    <3>4. Accounted(t)
      BY <1>1, <1>4, <1>5, <1>6, <1>15, <3>2, <3>3 DEF Accounted
    <3>5. Streams(t)
      BY <1>6, <1>8, <1>15, <3>2 DEF Streams
    <3> QED BY <3>1, <3>2, <3>4, <3>5 DEF ChannelOk, ChannelReady
  <2> QED BY <1>13, <1>15, <2>1, <2>2
<1>16. CASE s.type = "tty"
  <2>1. t = ExitOne(m)
          \/ t = [m EXCEPT !.fdin = f, !.fdout = f, !.os = s.os \cup {f}]
    BY <1>14, <1>16, <1>6 DEF channel_init, tty_init, Opened, m, f
  <2>2. CASE t = [m EXCEPT !.fdin = f, !.fdout = f, !.os = s.os \cup {f}]
    <3>1. t \in ChannelStates
      BY <1>6, <1>7, <1>14, <2>2 DEF ChannelStates
    <3>2. /\ t.fdin = f /\ t.fdout = f /\ t.sock = -1 /\ t.os = s.os \cup {f}
          /\ t.terminals = m.terminals /\ t.type = "tty" /\ t.made = TRUE
      BY <1>6, <1>16, <2>2 DEF ChannelStates
    <3>3. Held(t) = {f}
      BY <1>2, <1>7, <3>2 DEF Held
    <3>4. Accounted(t)
      BY <1>1, <1>4, <1>5, <1>6, <1>16, <3>2, <3>3 DEF Accounted
    <3> QED BY <3>1, <3>2, <3>4 DEF ChannelOk, ChannelReady, Streams
  <2> QED BY <1>13, <1>16, <2>1, <2>2
<1> QED BY <1>9, <1>10, <1>11, <1>12, <1>15, <1>16 DEF ChannelTypes

(* Closing leaves a channel that can be opened again: whatever it held is  *)
(* closed, the master sides of a terminal excepted.                        *)
LEMMA CloseKeeps ==
  ASSUME NEW s, ChannelOk(s), s.made = TRUE,
         Cardinality(s.os) + 2 <= CHANNEL_MAX_FD, NEW t, t = channel_close(s)
  PROVE  ChannelOk(t) /\ t.made = TRUE /\ ChannelReady(t) /\ t.state = s.state
<1>1. /\ s \in ChannelStates /\ Held(s) \subseteq s.os /\ CHANNEL_MAX_FD >= 2
      /\ (s.type # "xterm" => s.os = Held(s)) /\ (s.type # "tcp" => s.sock = -1)
      /\ (s.type = "xterm" => Cardinality(s.os \ Held(s)) = s.terminals)
      /\ (s.type = "xterm" => s.fdin = s.fdout)
  BY DEF ChannelOk, Accounted
<1>2. /\ -1 \in ChannelFds /\ -1 \in {-1, 1} /\ CHANNEL_MAX_FD \in Nat
      /\ s.os \in SUBSET (1 .. CHANNEL_MAX_FD)
  BY <1>1, ChannelsAssumption DEF ChannelStates, ChannelFds
<1>3. ASSUME NEW o \in SUBSET s.os
      PROVE  /\ o \in SUBSET (1 .. CHANNEL_MAX_FD)
             /\ Cardinality(o) + 2 <= CHANNEL_MAX_FD
  <2>1. IsFiniteSet(s.os) /\ Cardinality(s.os) \in Nat
    BY <1>2, OsFinite
  <2>2. Cardinality(o) \in Nat /\ Cardinality(o) <= Cardinality(s.os)
    BY <2>1, FS_Subset, FS_CardinalityType
  <2> QED BY <1>2, <2>1, <2>2
<1>4. CASE s.type \in {"file1", "file2"}
  <2> DEFINE o == (s.os \ {s.fdin}) \ {s.fdout}
  <2>1. t = [s EXCEPT !.os = o, !.fdin = -1, !.fdout = -1]
    BY <1>1, <1>4 DEF channel_close, file_close, CloseOs, ChannelStates
  <2>2. o = {} /\ o \in SUBSET s.os
    BY <1>1, <1>4 DEF Held
  <2> HIDE DEF o
  <2>3. ASSUME NEW x \in ChannelFds
        PROVE  [s EXCEPT !.os = o, !.fdin = x, !.fdout = x] \in ChannelStates
    BY <1>1, <1>3, <2>2 DEF ChannelStates
  <2>4. t \in ChannelStates
    BY <1>2, <2>1, <2>3, Zenon
  <2>5. /\ t.os = o /\ t.fdin = -1 /\ t.fdout = -1 /\ t.sock = s.sock
        /\ t.terminals = s.terminals /\ t.type = s.type /\ t.made = s.made
        /\ t.state = s.state
    BY <1>1, <2>1 DEF ChannelStates
  <2>6. Held(t) = {}
    BY <1>1, <1>4, <2>5 DEF Held
  <2>7. Accounted(t)
    BY <1>1, <1>4, <2>2, <2>5, <2>6 DEF Accounted
  <2> QED BY <1>3, <1>4, <2>2, <2>4, <2>5, <2>7 DEF ChannelOk, ChannelReady, Streams
<1>5. CASE s.type = "xterm"
  <2> DEFINE o == s.os \ {s.fdin}
  <2>1. t = [s EXCEPT !.os = o, !.fdin = -1, !.fdout = -1, !.pid = -1,
                      !.argv = FALSE]
    BY <1>1, <1>5 DEF channel_close, xterm_close, CloseOs, ChannelStates
  <2>2. o = s.os \ Held(s) /\ o \in SUBSET s.os /\ o \ {} = o
    BY <1>1, <1>2, <1>5 DEF Held
  <2> HIDE DEF o
  <2>3. ASSUME NEW x \in ChannelFds, NEW y \in {-1, 1}
        PROVE  [s EXCEPT !.os = o, !.fdin = x, !.fdout = x, !.pid = y,
                         !.argv = FALSE] \in ChannelStates
    BY <1>1, <1>3, <2>2 DEF ChannelStates
  <2>4. t \in ChannelStates
    BY <1>2, <2>1, <2>3, Zenon
  <2>5. /\ t.os = o /\ t.fdin = -1 /\ t.fdout = -1 /\ t.sock = s.sock
        /\ t.terminals = s.terminals /\ t.type = s.type /\ t.made = s.made
        /\ t.state = s.state
    BY <1>1, <2>1 DEF ChannelStates
  <2>6. Held(t) = {}
    BY <1>1, <1>5, <2>5 DEF Held
  <2>7. Accounted(t)
    BY <1>1, <1>5, <2>2, <2>5, <2>6 DEF Accounted
  <2> QED BY <1>3, <1>5, <2>2, <2>4, <2>5, <2>7 DEF ChannelOk, ChannelReady, Streams
<1>6. CASE s.type \notin {"file1", "file2", "xterm"}
  <2>1. t = s
    BY <1>6 DEF channel_close
  <2> QED BY <1>6, <2>1 DEF ChannelReady
<1> QED BY <1>4, <1>5, <1>6

(* Opening: whichever step fails, what is open is in the structure, or the *)
(* master side of one more terminal.                                       *)
LEMMA OpenKeeps ==
  ASSUME NEW s, ChannelOk(s), s.made = TRUE, ChannelReady(s),
         NEW t \in channel_open(s)
  PROVE  ChannelOk(t)
<1>1. /\ s \in ChannelStates /\ Held(s) \subseteq s.os /\ CHANNEL_MAX_FD >= 2
      /\ (s.type # "xterm" => s.os = Held(s)) /\ (s.type # "tcp" => s.sock = -1)
      /\ (s.type = "xterm" => Cardinality(s.os \ Held(s)) = s.terminals)
  BY DEF ChannelOk, Accounted
<1>2. CHANNEL_MAX_FD \in Nat /\ s.os \in SUBSET (1 .. CHANNEL_MAX_FD)
  BY <1>1, ChannelsAssumption DEF ChannelStates
<1>3. IsFiniteSet(s.os) /\ Cardinality(s.os) \in Nat
  BY <1>2, OsFinite
<1>4. CASE t = s
  BY <1>4
<1>5. CASE s.type \in {"file1", "file2", "xterm"} /\ t # s
  <2>1. /\ s.fdin = -1 /\ s.fdout = -1 /\ s.sock = -1
        /\ Cardinality(s.os) + 2 <= CHANNEL_MAX_FD
    BY <1>1, <1>5 DEF ChannelReady
  <2>2. Held(s) = {} /\ s.os \ {} = s.os
    BY <1>1, <2>1 DEF Held
  <2> DEFINE f == FreeFd(s)
             in == [s EXCEPT !.fdin = f, !.os = s.os \cup {f}]
             mid == [s EXCEPT !.os = s.os \cup {f}]
             g == FreeFd(in)
             h == FreeFd(mid)
  <2>3. f \in 1 .. CHANNEL_MAX_FD /\ f \notin s.os
    <3>1. Cardinality(s.os) < CHANNEL_MAX_FD
      BY <1>2, <1>3, <2>1
    <3>2. f \in (1 .. CHANNEL_MAX_FD) \ s.os
      BY <1>2, <3>1, FreeIsFree
    <3> QED BY <3>2
  <2> HIDE DEF f
  <2>4. s.os \cup {f} \in SUBSET (1 .. CHANNEL_MAX_FD)
          /\ Cardinality(s.os \cup {f}) < CHANNEL_MAX_FD
    <3>1. Cardinality(s.os \cup {f}) = Cardinality(s.os) + 1
      BY <1>3, <2>3, FS_AddElement
    <3> QED BY <1>2, <1>3, <2>1, <2>3, <3>1
  <2>5. f \in ChannelFds /\ f > 0
    BY <1>2, <2>3 DEF ChannelFds
  <2>6. in \in ChannelStates /\ mid \in ChannelStates
    BY <1>1, <2>4, <2>5 DEF ChannelStates
  <2>7. /\ in.os = s.os \cup {f} /\ mid.os = s.os \cup {f}
        /\ in.fdin = f /\ in.fdout = -1 /\ in.sock = -1 /\ in.terminals = s.terminals
        /\ in.type = s.type /\ in.made = TRUE
    BY <1>1, <2>1 DEF ChannelStates
  <2> HIDE DEF in, mid
  <2>8. /\ g \in 1 .. CHANNEL_MAX_FD /\ g \notin s.os \cup {f}
        /\ h \in 1 .. CHANNEL_MAX_FD /\ h \notin s.os \cup {f}
    <3>1. g \in (1 .. CHANNEL_MAX_FD) \ in.os
      BY <2>4, <2>7, FreeIsFree
    <3>2. h \in (1 .. CHANNEL_MAX_FD) \ mid.os
      BY <2>4, <2>7, FreeIsFree
    <3> QED BY <2>7, <3>1, <3>2
  <2>9. g \in ChannelFds /\ g > 0 /\ h \in ChannelFds /\ h > 0
    BY <1>2, <2>8 DEF ChannelFds
  <2>10. CASE s.type = "file1"
    <3>1. t = [s EXCEPT !.fdin = f, !.fdout = f, !.os = s.os \cup {f}]
      BY <1>1, <1>5, <2>10 DEF channel_open, file_open, Opened, f, ChannelStates
    <3>2. t \in ChannelStates
      BY <1>1, <2>4, <2>5, <3>1 DEF ChannelStates
    <3>3. /\ t.fdin = f /\ t.fdout = f /\ t.sock = -1 /\ t.os = s.os \cup {f}
          /\ t.terminals = s.terminals /\ t.type = s.type /\ t.made = TRUE
      BY <1>1, <2>1, <3>1 DEF ChannelStates
    <3>4. Held(t) = {f}
      BY <2>5, <3>3 DEF Held
    <3>5. Accounted(t)
      BY <1>1, <2>2, <2>10, <3>3, <3>4 DEF Accounted
    <3> QED BY <2>10, <3>2, <3>3, <3>5 DEF ChannelOk, Streams
  <2>11. CASE s.type = "file2"
    <3>1. t = in \/ t = [in EXCEPT !.fdout = g, !.os = in.os \cup {g}]
      BY <1>5, <2>11 DEF channel_open, file_open, in, f, g
    <3>2. CASE t = in
      <4>1. Held(in) = {f}
        BY <2>5, <2>7 DEF Held
      <4>2. Accounted(t)
        BY <1>1, <2>2, <2>7, <2>11, <3>2, <4>1 DEF Accounted
      <4> QED BY <2>6, <2>7, <2>11, <3>2, <4>2 DEF ChannelOk, Streams
    <3>3. CASE t = [in EXCEPT !.fdout = g, !.os = in.os \cup {g}]
      <4>1. in.os \cup {g} \in SUBSET (1 .. CHANNEL_MAX_FD)
        BY <2>4, <2>7, <2>8
      <4>2. t \in ChannelStates
        <5> HIDE DEF g
        <5> QED BY <2>6, <2>9, <3>3, <4>1 DEF ChannelStates
      <4>3. /\ t.fdin = f /\ t.fdout = g /\ t.sock = -1
            /\ t.os = (s.os \cup {f}) \cup {g}
            /\ t.terminals = s.terminals /\ t.type = s.type /\ t.made = TRUE
        BY <2>6, <2>7, <3>3 DEF ChannelStates
      <4>4. Held(t) = {f, g}
        <5> HIDE DEF g
        <5> QED BY <2>5, <2>9, <4>3 DEF Held
      <4>5. Accounted(t)
        BY <1>1, <2>2, <2>11, <4>3, <4>4 DEF Accounted
      <4> QED BY <2>11, <4>2, <4>3, <4>5 DEF ChannelOk, Streams
    <3> QED BY <3>1, <3>2, <3>3
  <2>12. CASE s.type = "xterm"
    <3> DEFINE n == s.terminals + 1
               O2 == mid.os \cup {h}
               o == [Opened(mid, h) EXCEPT !.terminals = n]
    <3>1. mid.terminals = s.terminals /\ s.terminals \in Nat
      BY <1>1 DEF mid, ChannelStates
    <3>2. /\ o = [mid EXCEPT !.fdin = h, !.fdout = h, !.os = O2, !.terminals = n]
          /\ \/ t = [o EXCEPT !.pid = 1]
             \/ t = [o EXCEPT !.state = "hung"]
      <4>1. o = [mid EXCEPT !.fdin = h, !.fdout = h, !.os = O2, !.terminals = n]
        BY DEF Opened
      <4>2. o = [Opened(mid, h) EXCEPT !.terminals = @ + 1]
        BY <2>6, <3>1 DEF Opened, ChannelStates
      <4>3. \/ t = [o EXCEPT !.pid = 1]
            \/ t = [o EXCEPT !.state = "hung"]
        <5> DEFINE oo == [Opened(mid, h) EXCEPT !.terminals = @ + 1]
        <5>1. t \in {s, IF s.argv THEN [oo EXCEPT !.pid = 1]
                        ELSE [oo EXCEPT !.state = "hung"]}
          BY <2>12 DEF channel_open, xterm_open, mid, f, h
        <5> HIDE DEF o, oo
        <5>2. o = oo
          BY <4>2 DEF oo
        <5> QED BY <1>5, <5>1, <5>2
      <4> QED BY <4>1, <4>3
    <3>3. /\ O2 \in SUBSET (1 .. CHANNEL_MAX_FD) /\ n \in Nat
          /\ O2 = (s.os \cup {f}) \cup {h}
      BY <1>2, <2>3, <2>4, <2>7, <2>8, <3>1
    <3>3a. O2 \ {h} = s.os \cup {f}
      BY <2>8, <3>3
    <3>3b. Cardinality(O2 \ {h}) = n
      <4>1. Cardinality(s.os) = s.terminals
        BY <1>1, <2>2, <2>12
      <4>2. Cardinality(s.os \cup {f}) = Cardinality(s.os) + 1
        BY <1>3, <2>3, FS_AddElement
      <4> QED BY <3>3a, <4>1, <4>2
    <3> HIDE DEF h, O2, n
    <3>4. o \in ChannelStates
      <4> HIDE DEF o
      <4> QED BY <2>6, <2>9, <3>2, <3>3 DEF ChannelStates
    <3>5. /\ o.fdin = h /\ o.fdout = h /\ o.os = O2 /\ o.terminals = n
          /\ o.sock = mid.sock /\ o.type = mid.type /\ o.made = mid.made
      <4> HIDE DEF o
      <4> QED BY <2>6, <3>2 DEF ChannelStates
    <3>6. mid.sock = -1 /\ mid.type = "xterm" /\ mid.made = TRUE
      BY <1>1, <2>1, <2>12 DEF mid, ChannelStates
    <3> HIDE DEF o
    <3>7. 1 \in {-1, 1}
      OBVIOUS
    <3>8. /\ t \in ChannelStates
          /\ t.fdin = h /\ t.fdout = h /\ t.os = O2 /\ t.terminals = n
          /\ t.sock = -1 /\ t.type = "xterm" /\ t.made = TRUE
      <4>1. CASE t = [o EXCEPT !.pid = 1]
        <5>1. ASSUME NEW y \in {-1, 1} PROVE [o EXCEPT !.pid = y] \in ChannelStates
          BY <3>4 DEF ChannelStates
        <5>2. t \in ChannelStates
          BY <3>7, <4>1, <5>1, Zenon
        <5> QED BY <3>4, <3>5, <3>6, <4>1, <5>2 DEF ChannelStates
      <4>2. CASE t = [o EXCEPT !.state = "hung"]
        <5>1. t \in ChannelStates
          BY <3>4, <4>2 DEF ChannelStates
        <5> QED BY <3>4, <3>5, <3>6, <4>2, <5>1 DEF ChannelStates
      <4> QED BY <3>2, <4>1, <4>2
    <3>9. Held(t) = {h}
      BY <2>9, <3>8 DEF Held
    <3>10. Held(t) \subseteq t.os /\ Cardinality(t.os \ Held(t)) = t.terminals
      BY <3>3, <3>3b, <3>8, <3>9
    <3>11. Accounted(t)
      BY <1>1, <3>8, <3>10 DEF Accounted
    <3> QED BY <3>8, <3>11 DEF ChannelOk, Streams
  <2> QED BY <1>5, <2>10, <2>11, <2>12
<1>6. s.type \notin {"file1", "file2", "xterm"} => t = s
  BY DEF channel_open
<1> QED BY <1>4, <1>5, <1>6

(* Connecting the first peer of a TCP channel swaps the listening socket   *)
(* for the connection; nothing was received or sent before.                *)
LEMMA ConnectKeeps ==
  ASSUME NEW s, ChannelOk(s), s.made = TRUE, NEW t, t = TcpReady(s)
  PROVE  ChannelOk(t) /\ (t.type = "tcp" => t.peer # "backlog")
<1>1. /\ s \in ChannelStates
      /\ CHANNEL_MAX_FD >= 2 /\ (s.type # "xterm" => s.os = Held(s))
      /\ (s.type = "tcp" /\ s.sock # -1 =>
            s.sock > 0 /\ s.fdin = -1 /\ s.fdout = -1)
  BY DEF ChannelOk, Accounted
<1>2. CASE t = s
  <2>1. ASSUME s.type = "tcp", s.peer = "backlog" PROVE FALSE
    <3>1. s.sock # -1
      BY <2>1 DEF ChannelOk, Streams
    <3>2. t = wait_for_tcp_connect(s)
      BY <2>1, <3>1 DEF TcpReady, Connected
    <3>3. t.peer = "accepted"
      BY <1>1, <2>1, <3>2 DEF wait_for_tcp_connect, CloseOs, Opened, ChannelStates
    <3> QED BY <1>2, <2>1, <3>3
  <2> QED BY <1>2, <2>1
<1>3. CASE t # s
  <2>1. s.type = "tcp" /\ s.sock # -1 /\ t = wait_for_tcp_connect(s)
    BY <1>3 DEF TcpReady, Connected
  <2> DEFINE f == FreeFd(s)
             o == (s.os \cup {f}) \ {s.sock}
             p == IF s.peer = "backlog" THEN "accepted" ELSE s.peer
  <2>1a. /\ p \in {"none", "backlog", "accepted", "closed", "reset"} /\ p \notin {"none", "backlog"}
         /\ s.peer # "none" /\ (p = "accepted" => s.peer \in {"backlog", "accepted"})
         /\ (p # s.peer => s.peer = "backlog" /\ p = "accepted")
    <3>1. s.peer \in {"none", "backlog", "accepted", "closed", "reset"}
      BY <1>1 DEF ChannelStates
    <3>2. s.peer # "none"
      BY <1>3, <2>1 DEF wait_for_tcp_connect
    <3> QED BY <3>1, <3>2
  <2>2. s.sock > 0 /\ s.fdin = -1 /\ s.fdout = -1 /\ s.sock \in ChannelFds
    BY <1>1, <2>1 DEF ChannelStates
  <2>3. Held(s) = {s.sock} /\ s.os = {s.sock}
    <3>1. s.sock # -1 /\ s.sock # 0
      BY <2>1, <2>2
    <3>2. Held(s) = {s.sock}
      BY <2>2, <3>1 DEF Held
    <3> QED BY <1>1, <2>1, <3>2
  <2>4. s.os \in SUBSET (1 .. CHANNEL_MAX_FD) /\ CHANNEL_MAX_FD \in Nat
    BY <1>1, ChannelsAssumption DEF ChannelStates
  <2>5. Cardinality(s.os) = 1
    BY <2>3, FS_Singleton
  <2>6. f \in (1 .. CHANNEL_MAX_FD) \ s.os
    BY <1>1, <2>4, <2>5, FreeIsFree
  <2>7. t = [s EXCEPT !.fdin = f, !.fdout = f, !.os = o, !.sock = -1,
                      !.peer = p]
    BY <1>1, <1>3, <2>1
       DEF wait_for_tcp_connect, Opened, CloseOs, ChannelStates
  <2> HIDE DEF f, p
  <2>8. o = {f} /\ o \in SUBSET (1 .. CHANNEL_MAX_FD) /\ f \in ChannelFds /\ f > 0
          /\ -1 \in ChannelFds
    BY <2>3, <2>4, <2>6 DEF ChannelFds
  <2> HIDE DEF o
  <2>9. ASSUME NEW x \in ChannelFds
        PROVE  [s EXCEPT !.fdin = f, !.fdout = f, !.os = o, !.sock = x,
                         !.peer = p] \in ChannelStates
    <3>1. [s EXCEPT !.fdin = f, !.fdout = f, !.os = o] \in ChannelStates
      BY <1>1, <2>8 DEF ChannelStates
    <3> DEFINE u == [s EXCEPT !.fdin = f, !.fdout = f, !.os = o]
    <3>2. [s EXCEPT !.fdin = f, !.fdout = f, !.os = o, !.sock = x,
                    !.peer = p] = [u EXCEPT !.sock = x, !.peer = p]
      BY <1>1 DEF ChannelStates
    <3>3. u \in ChannelStates
      BY <3>1
    <3> HIDE DEF u
    <3>4. [u EXCEPT !.sock = x, !.peer = p] \in ChannelStates
      BY <2>1a, <3>3 DEF ChannelStates
    <3> QED BY <3>2, <3>4
  <2>10. t \in ChannelStates
    <3> DEFINE W(x) == [s EXCEPT !.fdin = f, !.fdout = f, !.os = o, !.sock = x,
                                 !.peer = p]
    <3>1. \A x \in ChannelFds : W(x) \in ChannelStates
      BY <2>9
    <3>2. t = W(-1)
      BY <2>7
    <3> HIDE DEF W
    <3> QED BY <2>8, <3>1, <3>2
  <2>11. /\ t.fdin = f /\ t.fdout = f /\ t.sock = -1 /\ t.os = o
         /\ t.terminals = s.terminals /\ t.type = s.type /\ t.made = s.made
         /\ t.reached = s.reached /\ t.written = s.written /\ t.got = s.got
         /\ t.inq = s.inq /\ t.sent = s.sent /\ t.peer = p /\ t.since = s.since
    BY <1>1, <2>7 DEF ChannelStates
  <2>12. Held(t) = {f}
    BY <2>8, <2>11 DEF Held
  <2>13. Accounted(t)
    BY <1>1, <2>1, <2>8, <2>11, <2>12 DEF Accounted
  <2>14. Streams(t)
    <3>1. Streams(s) /\ t.fdout # -1
      BY <2>8, <2>11 DEF ChannelOk
    <3>2. /\ \A i \in 1 .. Len(s.reached) : s.reached[i] = s.since + i
          /\ s.peer \in {"backlog", "accepted"} => s.written = s.since + Len(s.reached)
          /\ \A i \in 1 .. Len(s.got) : s.got[i] = i
          /\ s.peer # "reset" \/ s.inq # <<>> => s.got \o s.inq = [i \in 1 .. s.sent |-> i]
      BY <2>1, <3>1 DEF Streams
    <3>3. /\ \A i \in 1 .. Len(t.reached) : t.reached[i] = t.since + i
          /\ t.peer \in {"backlog", "accepted"} => t.written = t.since + Len(t.reached)
          /\ \A i \in 1 .. Len(t.got) : t.got[i] = i
      BY <2>1a, <2>11, <3>2
    <3>4. t.peer # "reset" \/ t.inq # <<>> => t.got \o t.inq = [i \in 1 .. t.sent |-> i]
      BY <2>1a, <2>11, <3>2
    <3> QED BY <2>1a, <2>11, <3>1, <3>3, <3>4 DEF Streams
  <2> QED BY <2>1a, <2>10, <2>11, <2>13, <2>14 DEF ChannelOk
<1> QED BY <1>2, <1>3

(* A simulator that ends leaves everything as it was.                      *)
LEMMA ExitKeeps ==
  ASSUME NEW s, ChannelOk(s)
  PROVE  ChannelOk(ExitOne(s))
<1> DEFINE t == ExitOne(s)
<1>1. s \in ChannelStates /\ t = [s EXCEPT !.state = "exited"]
  BY DEF ChannelOk, ExitOne
<1>2. t \in ChannelStates
  BY <1>1 DEF ChannelStates
<1> HIDE DEF t
<1>3. /\ t.fdin = s.fdin /\ t.fdout = s.fdout /\ t.sock = s.sock /\ t.os = s.os
      /\ t.terminals = s.terminals /\ t.type = s.type /\ t.made = s.made
      /\ t.reached = s.reached /\ t.written = s.written /\ t.got = s.got
      /\ t.inq = s.inq /\ t.sent = s.sent /\ t.peer = s.peer /\ t.since = s.since
  BY <1>1 DEF ChannelStates
<1>4. Accounted(t) /\ Streams(t)
  BY <1>3 DEF ChannelOk, Accounted, Held, Streams
<1> QED BY <1>2, <1>4 DEF ChannelOk, t

(* A character that is received leaves the queue: the stream stays whole.  *)
LEMMA ReadKeeps ==
  ASSUME NEW s, ChannelOk(s), NEW t \in fd_read(s)
  PROVE  ChannelOk(t)
<1>1. CASE t = s
  BY <1>1
<1>1a. CASE t = ExitOne(s)
  BY <1>1a, ExitKeeps
<1>2. CASE t # s /\ t # ExitOne(s)
  <2>1. s \in ChannelStates /\ s.inq \in Seq(Nat) /\ s.got \in Seq(Nat)
    BY DEF ChannelOk, ChannelStates
  <2> DEFINE g == Append(s.got, Head(s.inq))
             q == Tail(s.inq)
  <2>2. s.inq # <<>> /\ t = [s EXCEPT !.got = g, !.inq = q]
    BY <1>2 DEF fd_read
  <2>3. g \in Seq(Nat) /\ q \in Seq(Nat) /\ g \o q = s.got \o s.inq
    <3>1. g \in Seq(Nat) /\ q \in Seq(Nat)
      BY <2>1, <2>2
    <3>2. g \o q = s.got \o s.inq
      BY <2>1, <2>2, HeadMoves
    <3> QED BY <3>1, <3>2
  <2>3a. s.type = "tcp" => /\ s.got \o s.inq = [i \in 1 .. s.sent |-> i]
                           /\ \A i \in 1 .. Len(g) : g[i] = i
    <3> SUFFICES ASSUME s.type = "tcp"
                 PROVE  /\ s.got \o s.inq = [i \in 1 .. s.sent |-> i]
                        /\ \A i \in 1 .. Len(g) : g[i] = i
      OBVIOUS
    <3>1. /\ s.got \o s.inq = [i \in 1 .. s.sent |-> i]
          /\ \A i \in 1 .. Len(s.got) : s.got[i] = i
      BY <2>2 DEF ChannelOk, Streams
    <3> DEFINE x == s.got
               y == s.inq
               n == s.sent
               id == [i \in 1 .. n |-> i]
    <3>2. x \in Seq(Nat) /\ y \in Seq(Nat) /\ y # <<>> /\ n \in Nat
      BY <2>1, <2>2 DEF ChannelStates
    <3>3. id \in Seq(Nat) /\ Len(id) = n /\ \A i \in 1 .. n : id[i] = i
      BY <3>2
    <3>4. x \o y = id /\ \A i \in 1 .. Len(x) : x[i] = i
      BY <3>1
    <3> HIDE DEF x, y, n, id
    <3>5. /\ Len(x) \in Nat /\ Len(y) \in Nat /\ Len(y) > 0
          /\ Len(x \o y) = Len(x) + Len(y) /\ (x \o y)[Len(x) + 1] = y[1] /\ Head(y) = y[1]
      BY <3>2
    <3>6. Head(y) = Len(x) + 1
      BY <3>2, <3>3, <3>4, <3>5
    <3>7. \A i \in 1 .. Len(Append(x, Head(y))) : Append(x, Head(y))[i] = i
      BY <3>2, <3>4, <3>5, <3>6
    <3> QED BY <3>1, <3>7 DEF x, y
  <2> HIDE DEF g, q
  <2>4. t \in ChannelStates
    BY <2>1, <2>2, <2>3 DEF ChannelStates
  <2>5. /\ t.fdin = s.fdin /\ t.fdout = s.fdout /\ t.sock = s.sock /\ t.os = s.os
        /\ t.terminals = s.terminals /\ t.type = s.type /\ t.made = s.made
        /\ t.reached = s.reached /\ t.written = s.written /\ t.got = g
        /\ t.inq = q /\ t.sent = s.sent /\ t.peer = s.peer /\ t.since = s.since
    BY <2>1, <2>2 DEF ChannelStates
  <2>6. Accounted(t)
    BY <2>5 DEF ChannelOk, Accounted, Held
  <2>7. Streams(t)
    BY <2>3, <2>3a, <2>5 DEF ChannelOk, Streams
  <2> QED BY <2>4, <2>6, <2>7 DEF ChannelOk
<1> QED BY <1>1, <1>1a, <1>2

(* A character that is written follows the one before it, or nobody is     *)
(* there to see any.                                                       *)
LEMMA WriteKeeps ==
  ASSUME NEW s, ChannelOk(s), NEW t \in fd_write(s),
         s.type = "tcp" => s.peer # "backlog"
  PROVE  ChannelOk(t)
<1>1. s \in ChannelStates /\ s.reached \in Seq(Nat) /\ s.written \in Nat /\ s.since \in Nat
      /\ <<>> \in Seq(Nat)
  BY DEF ChannelOk, ChannelStates
<1> DEFINE w == [s EXCEPT !.written = s.written + 1]
<1>2. w \in ChannelStates
  <2>1. ASSUME NEW n \in Nat PROVE [s EXCEPT !.written = n] \in ChannelStates
    BY <1>1 DEF ChannelStates
  <2>2. s.written + 1 \in Nat
    BY <1>1
  <2> QED BY <2>1, <2>2
<1>3. /\ w.fdin = s.fdin /\ w.fdout = s.fdout /\ w.sock = s.sock /\ w.os = s.os
      /\ w.terminals = s.terminals /\ w.type = s.type /\ w.made = s.made
      /\ w.reached = s.reached /\ w.written = s.written + 1 /\ w.got = s.got
      /\ w.inq = s.inq /\ w.sent = s.sent /\ w.peer = s.peer /\ w.since = s.since
  BY <1>1 DEF ChannelStates
<1>4. Accounted(w)
  BY <1>3 DEF ChannelOk, Accounted, Held
<1>5. Accounted(s) /\ Streams(s)
  BY DEF ChannelOk
<1>6. s.peer # "accepted" \/ s.type # "tcp" => ChannelOk(w)
  <2> SUFFICES ASSUME s.peer # "accepted" \/ s.type # "tcp" PROVE ChannelOk(w)
    OBVIOUS
  <2>1. Streams(w)
    BY <1>3, <1>5 DEF Streams
  <2> QED BY <1>2, <1>4, <2>1 DEF ChannelOk
<1> DEFINE more == Append(s.reached, s.written + 1)
<1>7. fd_write(s) = CASE s.peer = "closed" ->
                           {w, [w EXCEPT !.peer = "reset"],
                            [w EXCEPT !.peer = "reset", !.inq = << >>]}
                      [] s.peer = "reset" -> {IF s.SigpipeIgnored THEN w ELSE ExitOne(w)}
                      [] s.fdout = -1 -> {w}
                      [] OTHER -> {[w EXCEPT !.reached = more]}
  BY <1>1 DEF fd_write, ChannelStates
<1> HIDE DEF w
<1>8. CASE s.peer = "closed"
  <2>0. ChannelOk(w)
    BY <1>6, <1>8
  <2>1. ASSUME NEW q \in {s.inq, <<>>}, t = [w EXCEPT !.peer = "reset", !.inq = q]
        PROVE  ChannelOk(t)
    <3>1. q \in Seq(Nat)
      BY <1>1, <2>1 DEF ChannelStates
    <3>2. t \in ChannelStates
      BY <1>2, <2>1, <3>1 DEF ChannelStates
    <3>3. /\ t.fdin = s.fdin /\ t.fdout = s.fdout /\ t.sock = s.sock /\ t.os = s.os
          /\ t.terminals = s.terminals /\ t.type = s.type /\ t.made = s.made
          /\ t.reached = s.reached /\ t.got = s.got
          /\ t.inq = q /\ t.sent = s.sent /\ t.peer = "reset" /\ t.since = s.since
      BY <1>2, <1>3, <2>1 DEF ChannelStates
    <3>4. Accounted(t)
      BY <1>5, <3>3 DEF Accounted, Held
    <3>5. Streams(t)
      BY <1>5, <1>8, <2>1, <3>3 DEF Streams
    <3> QED BY <3>2, <3>4, <3>5 DEF ChannelOk
  <2>2. \/ t = w \/ t = [w EXCEPT !.peer = "reset"]
        \/ t = [w EXCEPT !.peer = "reset", !.inq = << >>]
    BY <1>7, <1>8
  <2>3. [w EXCEPT !.peer = "reset"] = [w EXCEPT !.peer = "reset", !.inq = s.inq]
    BY <1>2, <1>3 DEF ChannelStates
  <2> QED BY <2>0, <2>1, <2>2, <2>3
<1>9. CASE s.peer = "reset"
  <2>1. ChannelOk(w) /\ (t = w \/ t = ExitOne(w))
    BY <1>6, <1>7, <1>9
  <2> QED BY <2>1, ExitKeeps
<1>10. CASE s.peer \notin {"closed", "reset"} /\ s.fdout = -1
  <2>1. t = w
    BY <1>7, <1>10
  <2>2. s.peer # "accepted" \/ s.type # "tcp"
    BY <1>5, <1>10 DEF Streams
  <2> QED BY <1>6, <2>1, <2>2
<1>11. CASE s.peer \notin {"closed", "reset"} /\ s.fdout # -1
  <2>1. t = [w EXCEPT !.reached = more]
    BY <1>7, <1>11
  <2>2. /\ more \in Seq(Nat) /\ Len(s.reached) \in Nat /\ Len(more) = Len(s.reached) + 1
        /\ \A i \in 1 .. Len(s.reached) : more[i] = s.reached[i]
        /\ more[Len(s.reached) + 1] = s.written + 1
    BY <1>1
  <2> HIDE DEF more
  <2>3. t \in ChannelStates
    BY <1>2, <2>1, <2>2 DEF ChannelStates
  <2>4. /\ t.fdin = s.fdin /\ t.fdout = s.fdout /\ t.sock = s.sock /\ t.os = s.os
        /\ t.terminals = s.terminals /\ t.type = s.type /\ t.made = s.made
        /\ t.reached = more /\ t.written = s.written + 1 /\ t.got = s.got
        /\ t.inq = s.inq /\ t.sent = s.sent /\ t.peer = s.peer /\ t.since = s.since
    BY <1>2, <1>3, <2>1 DEF ChannelStates
  <2>5. Accounted(t)
    BY <1>5, <2>4 DEF Accounted, Held
  <2>6. s.type = "tcp" => /\ s.peer = "accepted"
                          /\ s.written = s.since + Len(s.reached)
                          /\ \A i \in 1 .. Len(s.reached) : s.reached[i] = s.since + i
    <3>1. s.peer \in {"none", "backlog", "accepted", "closed", "reset"}
      BY <1>1 DEF ChannelStates
    <3> QED BY <1>5, <1>11, <3>1 DEF Streams
  <2>7. ASSUME s.type = "tcp" PROVE \A i \in 1 .. Len(more) : more[i] = s.since + i
    <3> DEFINE k == Len(s.reached)
               z == s.since
    <3>1. /\ s.written = z + k /\ z \in Nat /\ k \in Nat /\ Len(more) = k + 1
          /\ (\A i \in 1 .. k : more[i] = z + i) /\ more[k + 1] = s.written + 1
      BY <1>1, <2>2, <2>6, <2>7
    <3> HIDE DEF k, z
    <3>2. \A i \in 1 .. k + 1 : i \in 1 .. k \/ i = k + 1
      BY <3>1
    <3> QED BY <3>1, <3>2 DEF z
  <2>8. Streams(t)
    <3> SUFFICES ASSUME s.type = "tcp" PROVE Streams(t)
      BY <2>4 DEF Streams
    <3>1. s.written + 1 = s.since + (Len(s.reached) + 1)
      BY <1>1, <2>2, <2>6
    <3>2. /\ \A i \in 1 .. Len(s.got) : s.got[i] = i
          /\ s.got \o s.inq = [i \in 1 .. s.sent |-> i] /\ s.peer = "accepted" /\ s.fdout # -1
      BY <1>5, <2>6 DEF Streams
    <3>3. /\ \A i \in 1 .. Len(t.reached) : t.reached[i] = t.since + i
          /\ t.written = t.since + Len(t.reached)
          /\ \A i \in 1 .. Len(t.got) : t.got[i] = i
      BY <2>2, <2>4, <2>7, <3>1, <3>2
    <3>4. t.got \o t.inq = [i \in 1 .. t.sent |-> i]
      BY <2>4, <3>2
    <3> QED BY <2>4, <3>2, <3>3, <3>4 DEF Streams
  <2> QED BY <2>3, <2>5, <2>8 DEF ChannelOk
<1> QED BY <1>8, <1>9, <1>10, <1>11

(* Resets, the peer, reads and writes keep the invariant.                  *)
LEMMA ChannelStep == ChannelInv /\ [ChannelNext]_dev => ChannelInv'
<1> SUFFICES ASSUME ChannelInv, [ChannelNext]_dev PROVE ChannelInv'
  OBVIOUS
<1>1. ChannelOk(dev) /\ dev \in ChannelStates
  BY DEF ChannelInv, ChannelOk
<1> SUFFICES ChannelOk(dev')
  BY DEF ChannelInv, ChannelOk
<1>2. CASE ChannelReset
  <2>1. PICK s \in IF dev.made THEN {channel_close(dev)} ELSE channel_init(dev) :
          IF s.state = "up" THEN dev' \in channel_open(s) ELSE dev' = s
    BY <1>2 DEF ChannelReset
  <2>2. Cardinality(dev.os) + 2 <= CHANNEL_MAX_FD /\ dev.made \in BOOLEAN
    BY <1>1, <1>2 DEF ChannelReset, ChannelStates
  <2>3. ChannelOk(s) /\ s.made = TRUE /\ ChannelReady(s)
    <3>1. CASE dev.made = TRUE
      BY <1>1, <2>1, <2>2, <3>1, CloseKeeps
    <3>2. CASE dev.made = FALSE
      BY <1>1, <2>1, <2>2, <3>2, InitKeeps
    <3> QED BY <2>2, <3>1, <3>2
  <2> QED BY <2>1, <2>3, OpenKeeps
<1>3. CASE PeerConnect
  <2>1. /\ dev' = [dev EXCEPT !.peer = "backlog", !.since = dev.written]
        /\ dev.peer = "none" /\ dev.sock # -1
    BY <1>3 DEF PeerConnect
  <2>2. dev' \in ChannelStates /\ dev.written \in Nat
    BY <1>1, <2>1 DEF ChannelStates
  <2>3. /\ dev'.fdin = dev.fdin /\ dev'.fdout = dev.fdout /\ dev'.sock = dev.sock
        /\ dev'.os = dev.os /\ dev'.terminals = dev.terminals
        /\ dev'.type = dev.type /\ dev'.made = dev.made
        /\ dev'.reached = dev.reached /\ dev'.written = dev.written
        /\ dev'.got = dev.got /\ dev'.inq = dev.inq /\ dev'.sent = dev.sent
        /\ dev'.peer = "backlog" /\ dev'.since = dev.written
    BY <1>1, <2>1 DEF ChannelStates
  <2>4. Accounted(dev')
    BY <1>1, <2>3 DEF ChannelOk, Accounted, Held
  <2>5. dev.type = "tcp" => dev.reached = <<>>
    BY <1>1, <2>1 DEF ChannelOk, Streams
  <2>6. Streams(dev')
    <3> SUFFICES ASSUME dev.type = "tcp" PROVE Streams(dev')
      BY <2>3 DEF Streams
    <3>1. /\ \A i \in 1 .. Len(dev.got) : dev.got[i] = i
          /\ dev.got \o dev.inq = [i \in 1 .. dev.sent |-> i]
      BY <1>1, <2>1 DEF ChannelOk, Streams
    <3>2. dev'.got \o dev'.inq = [i \in 1 .. dev'.sent |-> i]
      BY <2>3, <3>1
    <3>3. /\ \A i \in 1 .. Len(dev'.reached) : dev'.reached[i] = dev'.since + i
          /\ dev'.written = dev'.since + Len(dev'.reached)
          /\ \A i \in 1 .. Len(dev'.got) : dev'.got[i] = i
      BY <2>2, <2>3, <2>5, <3>1
    <3> QED BY <2>1, <2>3, <3>2, <3>3 DEF Streams
  <2> QED BY <2>2, <2>4, <2>6 DEF ChannelOk
<1>4. CASE PeerSend
  <2> DEFINE n == dev.sent + 1
             q == Append(dev.inq, n)
  <2>1. dev' = [dev EXCEPT !.sent = n, !.inq = q] /\ dev.peer \in {"backlog", "accepted"}
    BY <1>4 DEF PeerSend
  <2>2. dev.sent \in Nat /\ dev.inq \in Seq(Nat) /\ dev.got \in Seq(Nat)
    BY <1>1 DEF ChannelStates
  <2>3. n \in Nat /\ q \in Seq(Nat)
    BY <2>2
  <2>4. dev.type = "tcp" => dev.got \o q = [i \in 1 .. n |-> i]
    <3> SUFFICES ASSUME dev.type = "tcp"
                 PROVE  dev.got \o q = [i \in 1 .. n |-> i]
      OBVIOUS
    <3> DEFINE a == dev.got \o dev.inq
    <3>1. a = [i \in 1 .. dev.sent |-> i]
      BY <1>1, <2>1 DEF ChannelOk, Streams
    <3>2. dev.got \o q = Append(a, n)
      <4> HIDE DEF n
      <4>1. n \in Nat
        BY <2>3
      <4> DEFINE g == dev.got
                 b == dev.inq
      <4>2. g \in Seq(Nat) /\ b \in Seq(Nat)
        BY <2>2
      <4> HIDE DEF g, b
      <4>3. g \o Append(b, n) = Append(g \o b, n)
        BY <4>1, <4>2, AppendToConcat
      <4> QED BY <4>3 DEF g, b
    <3>3. Append(a, n) = [i \in 1 .. n |-> i]
      <4> DEFINE b == [i \in 1 .. dev.sent |-> i]
      <4>1. b \in Seq(Nat) /\ Len(b) = dev.sent /\ a = b
        BY <2>2, <3>1
      <4>2. \A i \in 1 .. dev.sent : b[i] = i
        OBVIOUS
      <4> HIDE DEF b, a
      <4>3. /\ Append(b, n) \in Seq(Nat) /\ Len(Append(b, n)) = dev.sent + 1
            /\ \A i \in 1 .. dev.sent + 1 : Append(b, n)[i] = i
        BY <2>2, <4>1, <4>2
      <4>4. /\ [i \in 1 .. n |-> i] \in Seq(Nat)
            /\ Len([i \in 1 .. n |-> i]) = dev.sent + 1
            /\ \A j \in 1 .. dev.sent + 1 : [i \in 1 .. n |-> i][j] = j
        BY <2>2
      <4> QED BY <4>1, <4>3, <4>4, SeqEqual
    <3> QED BY <3>2, <3>3
  <2> HIDE DEF n, q
  <2>5. dev' \in ChannelStates
    BY <1>1, <2>1, <2>3 DEF ChannelStates
  <2>6. /\ dev'.fdin = dev.fdin /\ dev'.fdout = dev.fdout /\ dev'.sock = dev.sock
        /\ dev'.os = dev.os /\ dev'.terminals = dev.terminals
        /\ dev'.type = dev.type /\ dev'.made = dev.made
        /\ dev'.reached = dev.reached /\ dev'.written = dev.written
        /\ dev'.got = dev.got /\ dev'.inq = q /\ dev'.sent = n
        /\ dev'.peer = dev.peer /\ dev'.since = dev.since
    BY <1>1, <2>1 DEF ChannelStates
  <2>7. Accounted(dev') /\ Streams(dev')
    BY <1>1, <2>4, <2>6 DEF ChannelOk, Accounted, Held, Streams
  <2> QED BY <2>5, <2>7 DEF ChannelOk
<1>5. CASE ChannelRead
  <2>1. dev.made = TRUE /\ dev' \in IF dev.type = "tcp" THEN tcp_read(dev) ELSE fd_read(dev)
    BY <1>1, <1>5 DEF ChannelRead, ChannelStates
  <2>2. ChannelOk(TcpReady(dev))
    BY <1>1, <2>1, ConnectKeeps
  <2>3. dev' = TcpReady(dev) \/ dev' \in fd_read(TcpReady(dev)) \/ dev' \in fd_read(dev)
    BY <2>1 DEF tcp_read
  <2> QED BY <1>1, <2>2, <2>3, ReadKeeps
<1>6. CASE ChannelWrite
  <2>1. dev' \in fd_write(TcpReady(dev)) /\ dev.made = TRUE
    BY <1>1, <1>6 DEF ChannelWrite, ChannelStates
  <2>2. ChannelOk(TcpReady(dev)) /\ (TcpReady(dev).type = "tcp" => TcpReady(dev).peer # "backlog")
    BY <1>1, <2>1, ConnectKeeps
  <2> QED BY <2>1, <2>2, WriteKeeps
<1>7. CASE PeerClose
  <2>1. dev' = [dev EXCEPT !.peer = "closed"] /\ dev.peer \in {"backlog", "accepted"}
    BY <1>7 DEF PeerClose
  <2>2. dev' \in ChannelStates
    BY <1>1, <2>1 DEF ChannelStates
  <2>3. /\ dev'.fdin = dev.fdin /\ dev'.fdout = dev.fdout /\ dev'.sock = dev.sock
        /\ dev'.os = dev.os /\ dev'.terminals = dev.terminals
        /\ dev'.type = dev.type /\ dev'.made = dev.made
        /\ dev'.reached = dev.reached /\ dev'.written = dev.written
        /\ dev'.got = dev.got /\ dev'.inq = dev.inq /\ dev'.sent = dev.sent
        /\ dev'.peer = "closed" /\ dev'.since = dev.since
    BY <1>1, <2>1 DEF ChannelStates
  <2>4. Accounted(dev')
    BY <1>1, <2>3 DEF ChannelOk, Accounted, Held
  <2>5. Streams(dev')
    <3> SUFFICES ASSUME dev.type = "tcp" PROVE Streams(dev')
      BY <2>3 DEF Streams
    <3>1. /\ \A i \in 1 .. Len(dev.reached) : dev.reached[i] = dev.since + i
          /\ \A i \in 1 .. Len(dev.got) : dev.got[i] = i
          /\ dev.got \o dev.inq = [i \in 1 .. dev.sent |-> i]
      BY <1>1, <2>1 DEF ChannelOk, Streams
    <3>2. dev'.got \o dev'.inq = [i \in 1 .. dev'.sent |-> i]
      BY <2>3, <3>1
    <3>3. /\ \A i \in 1 .. Len(dev'.reached) : dev'.reached[i] = dev'.since + i
          /\ \A i \in 1 .. Len(dev'.got) : dev'.got[i] = i
      BY <2>3, <3>1
    <3> QED BY <2>3, <3>2, <3>3 DEF Streams
  <2> QED BY <2>2, <2>4, <2>5 DEF ChannelOk
<1>8. CASE UNCHANGED dev
  BY <1>1, <1>8
<1> QED BY <1>2, <1>3, <1>4, <1>5, <1>6, <1>7, <1>8 DEF ChannelNext

(* However often the UART is reset, whatever fails and whenever the peer   *)
(* goes: every descriptor is accounted for (a terminal loses exactly one   *)
(* for each window) and a TCP stream has no gap.  For any number of        *)
(* descriptors and characters.                                             *)
THEOREM ChannelsAlwaysSound == ChannelSpec => []ChannelsSound
<1>1. ChannelInv => ChannelsSound
  <2> SUFFICES ASSUME ChannelInv PROVE ChannelsSound
    OBVIOUS
  <2>1. ChannelDescriptors
    <3>1. dev.type # "xterm" => Cardinality(dev.os \ Held(dev)) = 0
      <4>1. dev.type # "xterm" => dev.os \ Held(dev) = {}
        BY DEF ChannelInv, Accounted
      <4> QED BY <4>1, FS_EmptySet
    <3> QED BY <3>1 DEF ChannelInv, Accounted, ChannelDescriptors
  <2>2. TcpContinuous
    <3> SUFFICES ASSUME dev.type = "tcp"
                 PROVE  /\ dev.reached = [i \in 1 .. Len(dev.reached) |-> dev.since + i]
                        /\ dev.peer \in {"backlog", "accepted"} =>
                             Len(dev.reached) = dev.written - dev.since
                        /\ dev.got = [i \in 1 .. Len(dev.got) |-> i]
                        /\ dev.peer # "reset" =>
                             dev.got \o dev.inq = [i \in 1 .. dev.sent |-> i]
      BY DEF TcpContinuous
    <3>1. /\ dev.reached \in Seq(Nat) /\ dev.got \in Seq(Nat)
          /\ dev.since \in Nat /\ dev.written \in Nat
      BY DEF ChannelInv, ChannelStates
    <3>2. /\ \A i \in 1 .. Len(dev.reached) : dev.reached[i] = dev.since + i
          /\ dev.peer \in {"backlog", "accepted"} => dev.written = dev.since + Len(dev.reached)
          /\ \A i \in 1 .. Len(dev.got) : dev.got[i] = i
          /\ dev.peer # "reset" => dev.got \o dev.inq = [i \in 1 .. dev.sent |-> i]
      BY DEF ChannelInv, Streams
    <3>3. dev.reached = [i \in 1 .. Len(dev.reached) |-> dev.reached[i]]
      BY <3>1
    <3>4. dev.got = [i \in 1 .. Len(dev.got) |-> dev.got[i]]
      BY <3>1
    <3>5. Len(dev.reached) \in Nat
      BY <3>1
    <3>6. dev.reached = [i \in 1 .. Len(dev.reached) |-> dev.since + i]
      BY <3>2, <3>3
    <3>7. dev.got = [i \in 1 .. Len(dev.got) |-> i]
      BY <3>2, <3>4
    <3>8. dev.peer \in {"backlog", "accepted"} => Len(dev.reached) = dev.written - dev.since
      BY <3>1, <3>2, <3>5
    <3> QED BY <3>2, <3>6, <3>7, <3>8
  <2> QED BY <2>1, <2>2 DEF ChannelsSound
<1> QED BY <1>1, ChannelStarts, ChannelStep, PTL DEF ChannelSpec

-----------------------------------------------------------------------------
(* The debug unit.                                                         *)

(* The registers that tell whether the processor runs, as C conditions.    *)
StallFlags == {"riscop", "stalled", "halted", "npcbad"}
StallRight(s) ==
  /\ StallFlags \subseteq DOMAIN s /\ \A f \in StallFlags : s[f] \in BOOLEAN
  /\ s.riscop = s.stalled
  /\ s.stalled = FALSE => s.halted = FALSE /\ s.npcbad = FALSE

(* set_stall_state() establishes the agreement, whatever the stall bits    *)
(* were before, and leaves the rest alone.                                 *)
LEMMA StallAgrees ==
  ASSUME NEW s, StallFlags \subseteq DOMAIN s,
         s.halted \in BOOLEAN, s.npcbad \in BOOLEAN,
         NEW b \in BOOLEAN, NEW t, t = set_stall_state(s, b)
  PROVE  /\ StallRight(t) /\ DOMAIN t = DOMAIN s /\ t.stalled = b
         /\ \A f \in DOMAIN s \ StallFlags : t[f] = s[f]
BY DEF set_stall_state, StallRight, StallFlags

(* A step that leaves the four registers alone keeps the agreement.        *)
LEMMA StallKept ==
  ASSUME NEW s, StallRight(s), NEW t, DOMAIN t = DOMAIN s,
         \A f \in StallFlags : t[f] = s[f]
  PROVE  StallRight(t)
BY DEF StallRight, StallFlags

(* The registers of the debug unit.                                        *)
DuFields ==
  {"kind", "setup", "dsr", "drr", "wbs", "dwcr", "broke", "riscop",
   "stalled", "halted", "npcbad", "inreset"}

(* The state of the debug unit, in which the agreement is inductive.       *)
DuInv ==
  /\ DOMAIN dev = DuFields /\ dev.kind = "du" /\ dev.inreset \in BOOLEAN
  /\ StallRight(dev)

(* calculate_watchpoints() only writes the counters, the latched           *)
(* breakpoints and its own result.                                         *)
LEMMA WatchpointsKeep ==
  ASSUME NEW s, DOMAIN s = DuFields, NEW a, NEW x,
         NEW t, t = check_debug_unit(s, a, x)
  PROVE  /\ DOMAIN t = DuFields /\ t.kind = s.kind /\ t.inreset = s.inreset
         /\ \A f \in StallFlags : t[f] = s[f]
<1>1. CASE t = s
  BY <1>1
<1>2. CASE t = calculate_watchpoints(s, a, x)
  <2> DEFINE mp == DuMatches(s, a, x)
             wp == DuChain(s, mp, {}, 0, MAX_MATCHPOINTS - 1)
             c == [i \in {0, 1} |-> DuCount(s, wp, i)]
             w == IF s.setup.wce = {} THEN s ELSE [s EXCEPT !.dwcr = c]
             hit == {MAX_MATCHPOINTS + i : i \in {d \in {0, 1} :
                       w.dwcr[d].count = w.dwcr[d].match}}
             all == DuChain(s, hit, wp, MAX_MATCHPOINTS, MAX_MATCHPOINTS + 1)
             brk == all \cap s.setup.wgb
  <2>1. t = IF mp = {} THEN [s EXCEPT !.broke = FALSE]
            ELSE [w EXCEPT !.wbs = @ \cup brk, !.broke = brk # {}]
    BY <1>2 DEF calculate_watchpoints
  <2> HIDE DEF mp, brk, c
  <2>2. w = s \/ w = [s EXCEPT !.dwcr = c]
    OBVIOUS
  <2> HIDE DEF w
  <2>3. DOMAIN w = DuFields /\ \A f \in DuFields \ {"dwcr"} : w[f] = s[f]
    BY <2>2 DEF DuFields
  <2> QED BY <2>1, <2>3 DEF DuFields, StallFlags
<1> QED BY <1>1, <1>2 DEF check_debug_unit

(* An exception stops the processor if the debugger has asked for it, and  *)
(* otherwise sets it running.                                              *)
LEMMA ExceptionAgrees ==
  ASSUME NEW s, DOMAIN s = DuFields, StallRight(s), NEW e,
         NEW t, t = debug_ignore_exception(s, e)
  PROVE  /\ StallRight(t) /\ DOMAIN t = DuFields /\ t.kind = s.kind
         /\ t.inreset = s.inreset
<1> DEFINE d == IF e \in s.dsr THEN s.drr \cup {e} ELSE s.drr
           u == [s EXCEPT !.drr = d]
           b == e \in s.dsr
<1>1. t = set_stall_state(u, b)
  BY DEF debug_ignore_exception
<1> HIDE DEF d
<1>2. /\ DOMAIN u = DuFields /\ u.halted = s.halted /\ u.npcbad = s.npcbad
      /\ u.kind = s.kind /\ u.inreset = s.inreset
  BY DEF DuFields
<1>3. b \in BOOLEAN
  OBVIOUS
<1> HIDE DEF u, b
<1>4. /\ StallFlags \subseteq DOMAIN u /\ u.halted \in BOOLEAN
      /\ u.npcbad \in BOOLEAN
  BY <1>2 DEF StallRight, StallFlags, DuFields
<1>5. /\ StallRight(t) /\ DOMAIN t = DOMAIN u
      /\ \A f \in DOMAIN u \ StallFlags : t[f] = u[f]
  BY <1>1, <1>3, <1>4, StallAgrees
<1> QED BY <1>2, <1>5 DEF DuFields, StallFlags

(* A write to RISCOP, with or without the falling edge of RESET.           *)
LEMMA DevelopmentAgrees ==
  ASSUME NEW s, DOMAIN s = DuFields, StallRight(s), s.inreset \in BOOLEAN,
         NEW rst \in BOOLEAN, NEW stall \in BOOLEAN,
         NEW t, t = set_devint_reg(s, rst, stall)
  PROVE  /\ StallRight(t) /\ DOMAIN t = DuFields /\ t.kind = s.kind
         /\ t.inreset \in BOOLEAN
<1> DEFINE w == [s EXCEPT !.inreset = rst, !.riscop = stall]
           v == [w EXCEPT !.npcbad = FALSE, !.dsr = {}, !.drr = {}]
           r == IF s.inreset /\ ~rst THEN du_reset(v) ELSE w
<1>1. t = set_stall_state(r, r.riscop)
  BY DEF set_devint_reg
<1>2. /\ DOMAIN w = DuFields /\ w.halted = s.halted /\ w.npcbad = s.npcbad
      /\ w.kind = s.kind /\ w.inreset = rst /\ w.riscop = stall
  BY DEF DuFields
<1>3. /\ DOMAIN v = DuFields /\ v.halted = s.halted /\ v.npcbad = FALSE
      /\ v.kind = s.kind /\ v.inreset = rst
  BY <1>2 DEF DuFields
<1>4. s.halted \in BOOLEAN /\ s.npcbad \in BOOLEAN /\ StallFlags \subseteq DuFields
  BY DEF StallRight, StallFlags, DuFields
<1> HIDE DEF w, v
<1>5. r = w \/ r = set_stall_state(v, FALSE)
  BY DEF du_reset
<1> HIDE DEF r
<1>6. /\ DOMAIN r = DuFields /\ r.halted \in BOOLEAN /\ r.npcbad \in BOOLEAN
      /\ r.riscop \in BOOLEAN /\ r.kind = s.kind /\ r.inreset = rst
  <2>1. CASE r = w
    BY <1>2, <1>4, <2>1
  <2>2. CASE r = set_stall_state(v, FALSE)
    <3> DEFINE no == FALSE
    <3>1. /\ StallFlags \subseteq DOMAIN v /\ v.halted \in BOOLEAN
          /\ v.npcbad \in BOOLEAN /\ no \in BOOLEAN
          /\ r = set_stall_state(v, no)
      BY <1>3, <1>4, <2>2
    <3> HIDE DEF no
    <3>2. /\ StallRight(r) /\ DOMAIN r = DOMAIN v
          /\ \A f \in DOMAIN v \ StallFlags : r[f] = v[f]
      BY <3>1, StallAgrees
    <3> QED BY <1>3, <3>2 DEF StallRight, StallFlags, DuFields
  <2> QED BY <1>5, <2>1, <2>2
<1>7. /\ StallRight(t) /\ DOMAIN t = DuFields
      /\ \A f \in DuFields \ StallFlags : t[f] = r[f]
  BY <1>1, <1>4, <1>6, StallAgrees
<1> QED BY <1>6, <1>7 DEF DuFields, StallFlags

(* Every step of processor and debugger keeps the agreement.               *)
LEMMA DuStep == DuInv /\ [DuNext]_dev => DuInv'
<1> SUFFICES ASSUME DuInv, [DuNext]_dev PROVE DuInv'
  OBVIOUS
<1>0. /\ DOMAIN dev = DuFields /\ dev.kind = "du" /\ StallRight(dev)
      /\ dev.inreset \in BOOLEAN
  BY DEF DuInv
<1>1. CASE UNCHANGED dev
  BY <1>1 DEF DuInv
<1>2. CASE DuAccess
  <2>1. PICK a \in DuActions, x \in DuData :
          LET s == check_debug_unit(dev, a, x)
          IN  dev' = IF s.broke THEN debug_ignore_exception(s, "TRAP") ELSE s
    BY <1>2 DEF DuAccess
  <2> DEFINE s == check_debug_unit(dev, a, x)
  <2>2. dev' = s \/ dev' = debug_ignore_exception(s, "TRAP")
    BY <2>1
  <2>3. /\ DOMAIN s = DuFields /\ s.kind = "du" /\ s.inreset = dev.inreset
        /\ \A f \in StallFlags : s[f] = dev[f]
    BY <1>0, WatchpointsKeep
  <2> HIDE DEF s
  <2>4. StallRight(s)
    BY <1>0, <2>3, StallKept
  <2>5. CASE dev' = s
    BY <1>0, <2>3, <2>4, <2>5 DEF DuInv
  <2>6. CASE dev' = debug_ignore_exception(s, "TRAP")
    <3>1. /\ StallRight(dev') /\ DOMAIN dev' = DuFields
          /\ dev'.kind = s.kind /\ dev'.inreset = s.inreset
      BY <2>3, <2>4, <2>6, ExceptionAgrees
    <3> QED BY <1>0, <2>3, <3>1 DEF DuInv
  <2> QED BY <2>2, <2>5, <2>6
<1>3. CASE DuException
  <2>1. PICK e \in DuExceptions : dev' = debug_ignore_exception(dev, e)
    BY <1>3 DEF DuException
  <2>2. /\ StallRight(dev') /\ DOMAIN dev' = DuFields
        /\ dev'.kind = dev.kind /\ dev'.inreset = dev.inreset
    BY <1>0, <2>1, ExceptionAgrees
  <2> QED BY <1>0, <2>2 DEF DuInv
<1>4. CASE DuHalt
  <2> DEFINE s == [dev EXCEPT !.halted = TRUE]
  <2>1. dev' = set_stall_state(s, TRUE)
    BY <1>4 DEF DuHalt
  <2>2. /\ DOMAIN s = DuFields /\ s.halted = TRUE /\ s.npcbad \in BOOLEAN
        /\ s.kind = "du" /\ s.inreset = dev.inreset
    BY <1>0 DEF DuFields, StallRight, StallFlags
  <2> HIDE DEF s
  <2> DEFINE yes == TRUE
  <2>3. /\ StallFlags \subseteq DOMAIN s /\ s.halted \in BOOLEAN
        /\ s.npcbad \in BOOLEAN /\ yes \in BOOLEAN
        /\ dev' = set_stall_state(s, yes)
    BY <2>1, <2>2 DEF StallFlags, DuFields
  <2> HIDE DEF yes
  <2>4. /\ StallRight(dev') /\ DOMAIN dev' = DOMAIN s
        /\ \A f \in DOMAIN s \ StallFlags : dev'[f] = s[f]
    BY <2>3, StallAgrees
  <2> QED BY <1>0, <2>2, <2>4 DEF DuInv, DuFields, StallFlags
<1>5. CASE DuDevelopment
  <2>1. PICK rst \in BOOLEAN, stall \in BOOLEAN :
          dev' = set_devint_reg(dev, rst, stall)
    BY <1>5 DEF DuDevelopment
  <2>2. /\ StallRight(dev') /\ DOMAIN dev' = DuFields
        /\ dev'.kind = dev.kind /\ dev'.inreset \in BOOLEAN
    BY <1>0, <2>1, DevelopmentAgrees
  <2> QED BY <1>0, <2>2 DEF DuInv
<1>6. CASE DuWriteNpc
  <2>1. dev' = [dev EXCEPT !.npcbad = TRUE] /\ dev.stalled = TRUE
    BY <1>0, <1>6 DEF DuWriteNpc, StallRight, StallFlags
  <2> QED BY <1>0, <2>1 DEF DuInv, DuFields, StallRight, StallFlags
<1>7. CASE DuWriteDwcr
  <2>1. PICK d : dev' = [dev EXCEPT !.dwcr = d]
    BY <1>7 DEF DuWriteDwcr
  <2>2. /\ DOMAIN dev' = DuFields /\ dev'.kind = "du"
        /\ dev'.inreset = dev.inreset /\ \A f \in StallFlags : dev'[f] = dev[f]
    BY <1>0, <2>1 DEF DuFields, StallFlags
  <2>3. StallRight(dev')
    BY <1>0, <2>2, StallKept
  <2> QED BY <1>0, <2>2, <2>3 DEF DuInv
<1> QED BY <1>1, <1>2, <1>3, <1>4, <1>5, <1>6, <1>7 DEF DuNext

(* The chain is computed watchpoint by watchpoint.                         *)
ChainRuns(s, own, n) ==
  \E w \in [0 .. n -> SUBSET (0 .. n)] :
    /\ w[0] = {} /\ DuChain(s, own, {}, 0, n - 1) = w[n]
    /\ \A k \in 1 .. n : w[k] = DuLink(s, own, w[k - 1], k - 1)

(* DuChain computes such a sequence of sets.                               *)
LEMMA ChainIs ==
  ASSUME NEW s, NEW own, NEW n \in Nat
  PROVE  ChainRuns(s, own, n)
<1> DEFINE S == SUBSET (0 .. n)
           F == [k \in 1 .. n |-> [W \in S |-> DuLink(s, own, W, k - 1)]]
           none == {}
           Eq(w) == w = [k \in 0 .. n |-> IF k = 0 THEN none
                                          ELSE DuLink(s, own, w[k - 1], k - 1)]
<1>1. none \in S
  OBVIOUS
<1>2. F \in [1 .. n -> [S -> S]]
  <2>1. ASSUME NEW k \in 1 .. n, NEW W \in S PROVE DuLink(s, own, W, k - 1) \in S
    BY DEF DuLink
  <2> HIDE DEF S
  <2> QED BY <2>1
<1>3. \A k \in 1 .. n : \A W \in S : F[k][W] = DuLink(s, own, W, k - 1)
  OBVIOUS
<1> HIDE DEF F, S, none
<1>4. PICK f \in [0 .. n -> S] : f[0] = none /\ \A i \in 1 .. n : f[i] = F[i][f[i - 1]]
  BY <1>1, <1>2, Iterates, SMTT(30)
<1>5. Eq(f)
  <2>1. \A k \in 1 .. n : f[k] = DuLink(s, own, f[k - 1], k - 1)
    BY <1>3, <1>4
  <2> QED BY <1>4, <2>1
<1> DEFINE w == CHOOSE x : Eq(x)
<1>6. DuChain(s, own, none, 0, n - 1) = w[n]
  <2>1. n - 1 - 0 + 1 = n /\ \A k \in 0 .. n : 0 + k - 1 = k - 1
    OBVIOUS
  <2> QED BY <2>1 DEF DuChain
<1> HIDE DEF Eq
<1>7. Eq(w)
  BY <1>5
<1> HIDE DEF w
<1>8. /\ DOMAIN w = 0 .. n /\ w = [k \in 0 .. n |-> w[k]] /\ w[0] = none
      /\ \A k \in 1 .. n : w[k] = DuLink(s, own, w[k - 1], k - 1)
  BY <1>7, SMTT(30) DEF Eq
<1>9. \A k \in 0 .. n : w[k] = f[k]
  <2> DEFINE P == {k \in 0 .. n : w[k] = f[k]}
  <2>1. 0 \in P
    BY <1>4, <1>8
  <2>2. ASSUME NEW k \in 1 .. n, k - 1 \in P PROVE k \in P
    <3>1. w[k - 1] = f[k - 1] /\ f[k - 1] \in S
      BY <2>2
    <3>2. f[k] = DuLink(s, own, f[k - 1], k - 1)
      BY <1>3, <1>4, <3>1
    <3>3. w[k] = DuLink(s, own, w[k - 1], k - 1)
      BY <1>8
    <3> QED BY <3>1, <3>2, <3>3
  <2> HIDE DEF P
  <2>3. 0 .. n \subseteq P
    BY <2>1, <2>2, UpTo
  <2> QED BY <2>3 DEF P
<1>10. w \in [0 .. n -> S]
  BY <1>8, <1>9
<1> QED BY <1>6, <1>8, <1>10 DEF S, none, ChainRuns

(* A watchpoint is found when its link says so of its own condition and of *)
(* the watchpoint before it, whatever comes after.                         *)
LEMMA ChainHas ==
  ASSUME NEW s, NEW own, NEW n \in Nat, s.setup.cw[0] = "none", NEW i \in 0 .. n - 1
  PROVE  LET wp == DuChain(s, own, {}, 0, n - 1)
         IN  i \in wp <=> DuChained(s.setup.cw[i], i \in own, i - 1 \in wp)
<1>0. ChainRuns(s, own, n)
  BY ChainIs
<1>1. PICK w \in [0 .. n -> SUBSET (0 .. n)] :
        /\ w[0] = {} /\ DuChain(s, own, {}, 0, n - 1) = w[n]
        /\ \A k \in 1 .. n : w[k] = DuLink(s, own, w[k - 1], k - 1)
  BY <1>0 DEF ChainRuns
<1>2. ASSUME NEW k \in 1 .. n
      PROVE  /\ \A j : j # k - 1 => (j \in w[k] <=> j \in w[k - 1])
             /\ k - 1 \notin w[k - 1] =>
                  (k - 1 \in w[k] <=>
                     DuChained(s.setup.cw[k - 1], k - 1 \in own, k - 1 - 1 \in w[k - 1]))
  <2>1. w[k] = DuLink(s, own, w[k - 1], k - 1)
    BY <1>1
  <2> QED BY <2>1 DEF DuLink
<1> DEFINE P == {k \in 0 .. n : \A j \in k .. n : j \notin w[k]}
<1>3. 0 .. n \subseteq P
  <2>1. 0 \in P
    BY <1>1
  <2>2. ASSUME NEW k \in 1 .. n, k - 1 \in P PROVE k \in P
    <3>1. \A j \in k - 1 .. n : j \notin w[k - 1]
      BY <2>2
    <3>2. ASSUME NEW j \in k .. n PROVE j \notin w[k]
      BY <1>2, <3>1
    <3> QED BY <3>2
  <2> HIDE DEF P
  <2> QED BY <2>1, <2>2, UpTo
<1>4. ASSUME NEW j \in 0 .. n - 1
      PROVE  \A k \in j + 1 .. n : (j \in w[k] <=> j \in w[j + 1])
  <2> DEFINE R == {k \in 0 .. n : k >= j + 1 => (j \in w[k] <=> j \in w[j + 1])}
  <2>1. 0 \in R
    OBVIOUS
  <2>2. ASSUME NEW k \in 1 .. n, k - 1 \in R PROVE k \in R
    <3>1. CASE k <= j + 1
      BY <3>1
    <3>2. CASE k > j + 1
      <4>1. k - 1 >= j + 1 /\ j # k - 1
        BY <3>2
      <4>2. j \in w[k - 1] <=> j \in w[j + 1]
        BY <2>2, <4>1
      <4>3. j \in w[k] <=> j \in w[k - 1]
        BY <1>2, <4>1
      <4> QED BY <4>2, <4>3
    <3> QED BY <3>1, <3>2
  <2> HIDE DEF R
  <2>3. 0 .. n \subseteq R
    BY <2>1, <2>2, UpTo
  <2> QED BY <2>3 DEF R
<1>5. i \notin w[i]
  BY <1>3
<1>6. i \in w[n] <=> i \in w[i + 1]
  BY <1>4
<1>7. i - 1 \in w[n] <=> i - 1 \in w[i]
  <2>1. CASE i = 0
    <3>1. w[0] \in SUBSET (0 .. n) /\ w[n] \in SUBSET (0 .. n)
      OBVIOUS
    <3> QED BY <2>1, <3>1
  <2>2. CASE i # 0
    <3>1. i - 1 \in 0 .. n - 1 /\ (i - 1) + 1 = i
      BY <2>2
    <3> QED BY <1>4, <3>1
  <2> QED BY <2>1, <2>2
<1>8. i + 1 \in 1 .. n /\ i + 1 - 1 = i
  OBVIOUS
<1>9. i \in w[i + 1] <=> DuChained(s.setup.cw[i], i \in own, i - 1 \in w[i])
  BY <1>2, <1>5, <1>8
<1> QED BY <1>1, <1>6, <1>7, <1>9 DEF DuChained

(* Links of one kind make the conjunction, or the disjunction.             *)
LEMMA ChainAnd ==
  ASSUME NEW s, NEW own, NEW n \in Nat, s.setup.cw[0] = "none", NEW i \in 0 .. n - 1,
         \A j \in 1 .. i : s.setup.cw[j] = "and"
  PROVE  i \in DuChain(s, own, {}, 0, n - 1) <=> 0 .. i \subseteq own
<1> DEFINE wp == DuChain(s, own, {}, 0, n - 1)
           P == {j \in 0 .. i : j \in wp <=> 0 .. j \subseteq own}
<1>1. \A j \in 0 .. i : j \in wp <=> DuChained(s.setup.cw[j], j \in own, j - 1 \in wp)
  BY ChainHas
<1> HIDE DEF wp
<1>2. 0 \in P
  BY <1>1 DEF DuChained
<1>3. ASSUME NEW j \in 1 .. i, j - 1 \in P PROVE j \in P
  <2>1. s.setup.cw[j] = "and"
    OBVIOUS
  <2>2. j \in wp <=> j \in own /\ j - 1 \in wp
    BY <1>1, <2>1 DEF DuChained
  <2>3. j - 1 \in wp <=> 0 .. j - 1 \subseteq own
    BY <1>3
  <2>4. 0 .. j = (0 .. j - 1) \cup {j}
    OBVIOUS
  <2> QED BY <2>2, <2>3, <2>4
<1> HIDE DEF P
<1>4. 0 .. i \subseteq P
  BY <1>2, <1>3, UpTo
<1> QED BY <1>4 DEF P, wp

(* In a chain of ORs a matchpoint counts when one before it, or it itself, *)
(* compares.                                                               *)
LEMMA ChainOr ==
  ASSUME NEW s, NEW own, NEW n \in Nat, s.setup.cw[0] = "none", NEW i \in 0 .. n - 1,
         \A j \in 1 .. i : s.setup.cw[j] = "or"
  PROVE  i \in DuChain(s, own, {}, 0, n - 1) <=> (0 .. i) \cap own # {}
<1> DEFINE wp == DuChain(s, own, {}, 0, n - 1)
           P == {j \in 0 .. i : j \in wp <=> (0 .. j) \cap own # {}}
<1>1. \A j \in 0 .. i : j \in wp <=> DuChained(s.setup.cw[j], j \in own, j - 1 \in wp)
  BY ChainHas
<1> HIDE DEF wp
<1>2. 0 \in P
  BY <1>1 DEF DuChained
<1>3. ASSUME NEW j \in 1 .. i, j - 1 \in P PROVE j \in P
  <2>1. s.setup.cw[j] = "or"
    OBVIOUS
  <2>2. j \in wp <=> j \in own \/ j - 1 \in wp
    BY <1>1, <2>1 DEF DuChained
  <2>3. j - 1 \in wp <=> (0 .. j - 1) \cap own # {}
    BY <1>3
  <2>4. 0 .. j = (0 .. j - 1) \cup {j}
    OBVIOUS
  <2> QED BY <2>2, <2>3, <2>4
<1> HIDE DEF P
<1>4. 0 .. i \subseteq P
  BY <1>2, <1>3, UpTo
<1> QED BY <1>4 DEF P, wp

(* The watchpoints mean what a debugger programs, in every state.          *)
LEMMA ChainMeans == DuChainMeaning
<1> SUFFICES ASSUME NEW a \in DuActions, NEW x \in DuData, NEW i \in MatchIds
             PROVE  LET mp == DuMatches(dev, a, x)
                        wp == DuChain(dev, mp, {}, 0, MAX_MATCHPOINTS - 1)
                        all(link) == \A j \in 1 .. i : dev.setup.cw[j] = link
                    IN  /\ dev.setup.cw[0] = "none" /\ all("and") =>
                             (i \in wp <=> 0 .. i \subseteq mp)
                        /\ dev.setup.cw[0] = "none" /\ all("or") =>
                             (i \in wp <=> (0 .. i) \cap mp # {})
  BY DEF DuChainMeaning
<1>1. MAX_MATCHPOINTS \in Nat /\ i \in 0 .. MAX_MATCHPOINTS - 1
  BY DuAssumption DEF MatchIds
<1> QED BY <1>1, ChainAnd, ChainOr

(* The stall bit a debugger reads in RISCOP is always the stall state of   *)
(* the processor, a running processor is neither halted nor waiting for a  *)
(* valid NPC, and chained watchpoints are the conjunction or disjunction   *)
(* they are programmed as, for every number of matchpoints.                *)
THEOREM DuAlwaysSound == DuSpec => []DuSound
<1>1. DuInit => DuInv
  BY DEF DuInit, DuInv, DuFields, StallRight, StallFlags
<1>2. DuInv => DuStallAgrees
  BY DEF DuInv, DuStallAgrees, StallRight, StallFlags
<1>3. DuInv => DuSound
  BY <1>2, ChainMeans DEF DuSound
<1> QED BY <1>1, <1>3, DuStep, PTL DEF DuSpec

-----------------------------------------------------------------------------
(* The JTAG interface.                                                     *)

(* The state of the interface.                                             *)
JtagFields ==
  {"kind", "instr", "mod", "wdef", "acc", "addr", "size", "base", "moved",
   "failed", "cmd", "status", "told", "shown", "riscop", "stalled", "halted",
   "npcbad"}

(* The part of it that the transfers are about.                            *)
TransferFields == {"kind", "wdef", "addr", "size", "base", "moved", "failed"}
SameTransfer(s, t) ==
  DOMAIN t = DOMAIN s /\ \A f \in TransferFields : t[f] = s[f]

(* The block since the WRITE_COMMAND, which begins at or before the        *)
(* current address and is whole up to it.                                  *)
BlockRight(s) ==
  /\ DOMAIN s = JtagFields /\ s.kind = "jtag"
  /\ s.addr \in Nat /\ s.size \in Nat /\ s.base \in Nat /\ s.base <= s.addr
  /\ s.wdef \in BOOLEAN /\ s.failed \in BOOLEAN
  /\ s.wdef = TRUE => /\ s.size >= 1
                      /\ s.base .. s.addr - 1 \subseteq s.moved
                      /\ s.moved \subseteq s.base .. s.addr + s.size - 1
  /\ s.failed = TRUE => s.wdef = FALSE

(* What does not touch the transfer keeps the block.                       *)
LEMMA BlockKept ==
  ASSUME NEW s, BlockRight(s), NEW t, SameTransfer(s, t)
  PROVE  BlockRight(t)
BY DEF BlockRight, SameTransfer, TransferFields

(* Answers and error messages leave the transfer alone.                    *)
LEMMA ReplyKeeps ==
  ASSUME NEW s, BlockRight(s), NEW st
  PROVE  BlockRight(JtagReply(s, st))
<1>1. SameTransfer(s, JtagReply(s, st))
  BY DEF BlockRight, JtagReply, SameTransfer, JtagFields, TransferFields
<1> QED BY <1>1, BlockKept

(* A GO_COMMAND that touches m, within the size of the WRITE_COMMAND, and  *)
(* then advances over n bytes, all of which it touched.                    *)
LEMMA BlockGrows ==
  ASSUME NEW s, BlockRight(s), NEW n \in Nat, NEW m,
         s.wdef = TRUE => m \subseteq s.addr .. s.addr + s.size - 1,
         s.addr .. s.addr + n - 1 \subseteq m,
         NEW t, t = [s EXCEPT !.addr = s.addr + n, !.moved = s.moved \cup m]
  PROVE  BlockRight(t)
<1>1. /\ DOMAIN t = JtagFields /\ t.kind = "jtag" /\ t.addr = s.addr + n
      /\ t.size = s.size /\ t.base = s.base /\ t.wdef = s.wdef
      /\ t.failed = s.failed
      /\ t.moved = s.moved \cup m
  BY DEF BlockRight, JtagFields
<1>2. ASSUME s.wdef = TRUE
      PROVE  /\ t.base .. t.addr - 1 \subseteq t.moved
             /\ t.moved \subseteq t.base .. t.addr + t.size - 1
  <2>1. t.base .. t.addr - 1
          \subseteq (s.base .. s.addr - 1) \cup (s.addr .. s.addr + n - 1)
    BY <1>1 DEF BlockRight
  <2>2. /\ s.base .. s.addr + s.size - 1 \subseteq t.base .. t.addr + t.size - 1
        /\ s.addr .. s.addr + s.size - 1 \subseteq t.base .. t.addr + t.size - 1
    BY <1>1 DEF BlockRight
  <2>3. /\ s.base .. s.addr - 1 \subseteq s.moved
        /\ s.moved \subseteq s.base .. s.addr + s.size - 1
    BY <1>2 DEF BlockRight
  <2> QED BY <1>1, <1>2, <2>1, <2>2, <2>3
<1>3. t.addr \in Nat /\ t.base <= t.addr
  BY <1>1 DEF BlockRight
<1> QED BY <1>1, <1>2, <1>3 DEF BlockRight

(* wishbone_read(), wishbone_write(): some of the bytes are transferred,   *)
(* and all of them when the address advances.                              *)
LEMMA WishboneGrows ==
  ASSUME NEW s, BlockRight(s), NEW n \in Nat,
         NEW st, st # {} \/ n = s.size,
         NEW t, t = wishbone_access(s, n, st)
  PROVE  BlockRight(t)
<1> DEFINE k == IF n < s.size THEN n ELSE s.size
           bytes == {s.addr + i : i \in 0 .. k - 1}
           m == bytes \cap JtagMem
           all == st \cup (IF bytes \subseteq JtagMem THEN {} ELSE {"WISHBONE"})
           d == IF all = {} THEN s.size ELSE 0
           u == [s EXCEPT !.addr = s.addr + d, !.moved = s.moved \cup m]
<1>0. s.addr \in Nat /\ s.size \in Nat /\ s.addr + 0 = s.addr
  BY DEF BlockRight
<1>1. t = JtagReply(u, all)
  <2>1. (IF all = {} THEN s.addr + s.size ELSE s.addr) = s.addr + d
    <3> HIDE DEF all
    <3> QED BY <1>0
  <2>2. t = JtagReply([s EXCEPT !.addr = IF all = {} THEN s.addr + s.size ELSE s.addr,
                                !.moved = s.moved \cup m], all)
    BY DEF wishbone_access
  <2> HIDE DEF all, m, d
  <2> QED BY <2>1, <2>2
<1>2. d \in Nat
  <2> HIDE DEF all
  <2> QED BY <1>0
<1>3. m \subseteq s.addr .. s.addr + s.size - 1
  BY <1>0
<1>4. s.addr .. s.addr + d - 1 \subseteq m
  <2>1. CASE all = {}
    <3>1. st = {} /\ bytes \subseteq JtagMem /\ d = s.size
      BY <2>1
    <3>2. k = s.size
      BY <3>1
    <3> HIDE DEF k, all, d
    <3>3. ASSUME NEW b \in s.addr .. s.addr + s.size - 1
          PROVE  b - s.addr \in 0 .. k - 1 /\ b = s.addr + (b - s.addr)
      BY <1>0, <3>2
    <3>4. s.addr .. s.addr + s.size - 1 \subseteq bytes
      BY <3>3
    <3> HIDE DEF bytes
    <3> QED BY <3>1, <3>4
  <2>2. CASE all # {}
    <3>1. d = 0
      BY <2>2
    <3> HIDE DEF all, m, d
    <3> QED BY <1>0, <3>1
  <2> QED BY <2>1, <2>2
<1> HIDE DEF m, d, all
<1>5. BlockRight(u)
  <2>1. u = [s EXCEPT !.addr = s.addr + d, !.moved = s.moved \cup m]
    OBVIOUS
  <2> HIDE DEF u
  <2> QED BY <1>2, <1>3, <1>4, <2>1, BlockGrows, Zenon
<1> HIDE DEF u
<1> QED BY <1>1, <1>5, ReplyKeeps

(* spr_read(), spr_write(): one register.                                  *)
LEMMA SprGrows ==
  ASSUME NEW s, BlockRight(s), NEW st, NEW t, t = spr_access(s, st)
  PROVE  BlockRight(t)
<1> DEFINE d == IF st = {} THEN 1 ELSE 0
           m == {s.addr}
           u == [s EXCEPT !.addr = s.addr + d, !.moved = s.moved \cup m]
<1>0. s.addr \in Nat /\ s.size \in Nat /\ s.addr + 0 = s.addr
  BY DEF BlockRight
<1>1. t = JtagReply(u, st)
  <2>1. (IF st = {} THEN s.addr + 1 ELSE s.addr) = s.addr + d
    BY <1>0
  <2>2. t = JtagReply([s EXCEPT !.addr = IF st = {} THEN s.addr + 1 ELSE s.addr,
                                !.moved = s.moved \cup m], st)
    BY DEF spr_access
  <2> HIDE DEF m, d
  <2> QED BY <2>1, <2>2
<1>2. d \in Nat
  OBVIOUS
<1>3. s.wdef = TRUE => m \subseteq s.addr .. s.addr + s.size - 1
  BY <1>0 DEF BlockRight
<1>4. s.addr .. s.addr + d - 1 \subseteq m
  BY <1>0
<1> HIDE DEF m, d
<1>5. BlockRight(u)
  <2>1. u = [s EXCEPT !.addr = s.addr + d, !.moved = s.moved \cup m]
    OBVIOUS
  <2> HIDE DEF u
  <2> QED BY <1>2, <1>3, <1>4, <2>1, BlockGrows, Zenon
<1> HIDE DEF u
<1> QED BY <1>1, <1>5, ReplyKeeps

(* The interface with its instruction and data registers.                  *)
JtagInv == BlockRight(dev)

(* write_command(): a new block begins, or none is left.                   *)
LEMMA WriteBegins ==
  ASSUME NEW s, BlockRight(s), NEW acc, NEW a \in Nat, NEW n \in Nat \ {0},
         NEW t, t = write_command(s, acc, a, n)
  PROVE  BlockRight(t)
<1>1. ASSUME NEW b \in Nat,
             t = [JtagReply(JtagDefine(s, acc, b, n), {}) EXCEPT !.failed = FALSE]
      PROVE  BlockRight(t)
  <2> DEFINE u == JtagDefine(s, acc, b, n)
  <2>1. /\ DOMAIN u = JtagFields /\ u.kind = "jtag" /\ u.wdef = TRUE
        /\ u.addr = b /\ u.base = b /\ u.size = n /\ u.moved = {}
    BY DEF JtagDefine, BlockRight, JtagFields
  <2> HIDE DEF u
  <2>2. t = [JtagReply(u, {}) EXCEPT !.failed = FALSE]
    BY <1>1 DEF u
  <2>3. /\ DOMAIN t = JtagFields /\ t.kind = "jtag" /\ t.wdef = TRUE
        /\ t.addr = b /\ t.base = b /\ t.size = n /\ t.moved = {}
        /\ t.failed = FALSE
    BY <2>1, <2>2 DEF JtagReply, JtagFields
  <2>4. /\ t.base .. t.addr - 1 \subseteq t.moved /\ t.base <= t.addr
        /\ t.size >= 1 /\ t.size \in Nat
        /\ t.moved \subseteq t.base .. t.addr + t.size - 1
    BY <2>3
  <2> QED BY <2>3, <2>4 DEF BlockRight
<1>2. ASSUME t = [JtagReply([s EXCEPT !.wdef = FALSE, !.failed = TRUE], {})
                    EXCEPT !.told = TRUE]
      PROVE  BlockRight(t)
  <2>1. /\ DOMAIN t = JtagFields /\ t.kind = "jtag" /\ t.wdef = FALSE
        /\ t.addr = s.addr /\ t.base = s.base /\ t.size = s.size
        /\ t.failed = TRUE
    BY <1>2 DEF JtagReply, BlockRight, JtagFields
  <2> QED BY <2>1 DEF BlockRight
<1>3. a % MAX_SPRS \in Nat
  BY JtagAssumption
<1>4. \/ t = [JtagReply(JtagDefine(s, acc, a, n), {}) EXCEPT !.failed = FALSE]
      \/ t = [JtagReply(JtagDefine(s, acc, a % MAX_SPRS, n), {})
                EXCEPT !.failed = FALSE]
      \/ t = [JtagReply([s EXCEPT !.wdef = FALSE, !.failed = TRUE], {})
                EXCEPT !.told = TRUE]
  BY DEF write_command
<1> QED BY <1>1, <1>2, <1>3, <1>4

(* A WRITE_COMMAND that is refused leaves no block.                        *)
LEMMA WriteFailsKeeps ==
  ASSUME NEW s, BlockRight(s), NEW st
  PROVE  BlockRight(WriteFails(s, st))
<1> DEFINE t == WriteFails(s, st)
<1>1. /\ DOMAIN t = JtagFields /\ t.kind = "jtag" /\ t.wdef = FALSE
      /\ t.addr = s.addr /\ t.base = s.base /\ t.size = s.size
      /\ t.failed = TRUE
  BY DEF WriteFails, JtagReply, BlockRight, JtagFields
<1> HIDE DEF t
<1>2. BlockRight(t)
  BY <1>1 DEF BlockRight
<1> QED BY <1>2 DEF t

(* go_command_read(), go_command_write(): every way through them.          *)
LEMMA GoKeeps ==
  ASSUME NEW s, BlockRight(s), NEW crc \in BOOLEAN, NEW e \in Int,
         NEW t, t = go_command(s, crc, e)
  PROVE  BlockRight(t)
<1> DEFINE st == IF e = 0 THEN {} ELSE {"OVER_UNDERRUN"}
           n == (8 * s.size + e) \div 8
<1>0. s.size \in Nat
  BY DEF BlockRight
<1>1. \/ t = JtagTell(s)
      \/ t = [s EXCEPT !.instr = "LOST"]
      \/ t = JtagReply(s, st \cup {"CRC_IN"})
      \/ t = wishbone_access(s, n, st) /\ n >= 0
      \/ t = spr_access(s, st)
      \/ t = JtagReply(s, st)
  BY DEF go_command, null_access
<1>2. n \in Int /\ (st # {} \/ n = s.size)
  BY <1>0
<1> HIDE DEF st, n
<1>3. CASE t = JtagTell(s)
  <2>1. SameTransfer(s, t)
    BY <1>3 DEF BlockRight, JtagTell, SameTransfer, JtagFields, TransferFields
  <2> QED BY <2>1, BlockKept
<1>4. CASE t = JtagReply(s, st \cup {"CRC_IN"})
  BY <1>4, ReplyKeeps
<1>5. CASE t = wishbone_access(s, n, st) /\ n >= 0
  <2>1. n \in Nat
    BY <1>2, <1>5
  <2> QED BY <1>2, <1>5, <2>1, WishboneGrows
<1>6. CASE t = spr_access(s, st)
  BY <1>6, SprGrows
<1>7. CASE t = JtagReply(s, st)
  BY <1>7, ReplyKeeps
<1>8. CASE t = [s EXCEPT !.instr = "LOST"]
  <2>1. SameTransfer(s, t)
    BY <1>8 DEF BlockRight, SameTransfer, JtagFields, TransferFields
  <2> QED BY <2>1, BlockKept
<1> QED BY <1>1, <1>3, <1>4, <1>5, <1>6, <1>7, <1>8

(* write_control(): stalling and resetting the processor.                  *)
LEMMA ControlKeeps ==
  ASSUME NEW s, BlockRight(s), NEW rst, NEW stall
  PROVE  BlockRight(write_control(s, rst, stall))
<1> DEFINE t == write_control(s, rst, stall)
<1>1. SameTransfer(s, t)
  BY DEF write_control, JtagReply, du_reset, set_stall_state, BlockRight,
         SameTransfer, JtagFields, TransferFields
<1> HIDE DEF t
<1>2. BlockRight(t)
  BY <1>1, BlockKept
<1> QED BY <1>2 DEF t

(* Every register that is shifted keeps the block.                         *)
LEMMA JtagStep == JtagInv /\ [JtagNext]_dev => JtagInv'
<1> SUFFICES ASSUME JtagInv, [JtagNext]_dev PROVE BlockRight(dev')
  BY DEF JtagInv
<1>0. BlockRight(dev) /\ DOMAIN dev = JtagFields
  BY DEF JtagInv, BlockRight
<1>1. CASE UNCHANGED dev
  BY <1>0, <1>1
<1>2. CASE JtagReset \/ jtag_shift_ir \/ JtagRefused
  <2>1. SameTransfer(dev, dev')
    BY <1>0, <1>2 DEF JtagReset, jtag_shift_ir, JtagRefused, JtagTell,
       SameTransfer, JtagFields, TransferFields
  <2> QED BY <1>0, <2>1, BlockKept
<1>3. CASE JtagSelect
  <2>1. PICK m : dev' = select_module(dev, m)
    BY <1>3 DEF JtagSelect
  <2>2. SameTransfer(dev, dev')
    BY <1>0, <2>1 DEF select_module, JtagReply, SameTransfer, JtagFields,
       TransferFields
  <2> QED BY <1>0, <2>2, BlockKept
<1>4. CASE JtagWrite
  <2>1. PICK acc \in JtagAcc \cup {BadAcc}, a \in JtagAddrs, n \in JtagSizes :
          dev' = write_command(dev, acc, a, n)
    BY <1>4 DEF JtagWrite
  <2>2. a \in Nat /\ n \in Nat \ {0}
    BY JtagAssumption
  <2> QED BY <1>0, <2>1, <2>2, WriteBegins
<1>5. CASE JtagWriteFails
  BY <1>0, <1>5, WriteFailsKeeps DEF JtagWriteFails
<1>6. CASE JtagGo
  <2>1. PICK crc \in BOOLEAN, e \in JtagExtra :
          dev' = [go_command(dev, crc, e) EXCEPT !.cmd = "GO"]
    BY <1>6 DEF JtagGo
  <2>0. e \in Int
    BY JtagAssumption
  <2> DEFINE t == go_command(dev, crc, e)
  <2>2. BlockRight(t)
    BY <1>0, <2>0, GoKeeps
  <2> HIDE DEF t
  <2>3. SameTransfer(t, dev')
    BY <2>1, <2>2 DEF t, BlockRight, SameTransfer, JtagFields, TransferFields
  <2> QED BY <2>2, <2>3, BlockKept
<1>7. CASE JtagRead
  <2>1. SameTransfer(dev, dev')
    BY <1>0, <1>7 DEF JtagRead, read_command, read_control, JtagReply,
       SameTransfer, JtagFields, TransferFields
  <2> QED BY <1>0, <2>1, BlockKept
<1>8. CASE JtagControl
  BY <1>0, <1>8, ControlKeeps DEF JtagControl
<1>9. CASE JtagBadCrc
  BY <1>0, <1>9, ReplyKeeps DEF JtagBadCrc, JtagCrcError
<1> QED BY <1>1, <1>2, <1>3, <1>4, <1>5, <1>6, <1>7, <1>8, <1>9 DEF JtagNext

-----------------------------------------------------------------------------
(* The bits on the wire.                                                   *)

(* One exchange of neighbours, of one bit.                                 *)
SwapOne(b, k) == IF (b \div k) % 2 = 1 THEN b - k ELSE b + k

(* An exchange takes a single bit to a single bit.                         *)
LEMMA SwapOfOne ==
  ASSUME NEW b, NEW k
  PROVE  SwapBits({b}, k) = {SwapOne(b, k)}
BY DEF SwapBits, SwapOne

(* The exchanges together turn a byte around, and a word.                  *)
LEMMA SwapByte == \A b \in 0 .. 7 : SwapOne(SwapOne(SwapOne(b, 1), 2), 4) = 7 - b
BY DEF SwapOne

(* The six exchanges together turn a word of 64 bits around.               *)
LEMMA SwapWord ==
  \A b \in 0 .. 63 :
    SwapOne(SwapOne(SwapOne(SwapOne(SwapOne(SwapOne(b, 1), 2), 4), 8), 16), 32) = 63 - b
BY DEF SwapOne

(* reverse_byte() and reverse_bits(), of one bit and of none.              *)
LEMMA ReverseByteIs ==
  ASSUME NEW b \in 0 .. 7
  PROVE  reverse_byte({b}) = {7 - b}
<1> DEFINE x == SwapOne(b, 1)
           y == SwapOne(x, 2)
           z == SwapOne(y, 4)
<1>1. z = 7 - b
  BY SwapByte
<1>2. SwapBits({b}, 1) = {x} /\ SwapBits({x}, 2) = {y} /\ SwapBits({y}, 4) = {z}
  BY SwapOfOne
<1> HIDE DEF x, y, z
<1> QED BY <1>1, <1>2 DEF reverse_byte

(* reverse_bits(), of a register of up to 64 bits with one bit set.        *)
LEMMA ReverseBitsIs ==
  ASSUME NEW n \in 1 .. 64, NEW b \in 0 .. n - 1
  PROVE  reverse_bits({b}, n) = {n - 1 - b}
<1> DEFINE x == SwapOne(b, 1)
           y == SwapOne(x, 2)
           z == SwapOne(y, 4)
           u == SwapOne(z, 8)
           v == SwapOne(u, 16)
           w == SwapOne(v, 32)
<1>1. w = 63 - b
  BY SwapWord
<1>2. /\ SwapBits({b}, 1) = {x} /\ SwapBits({x}, 2) = {y} /\ SwapBits({y}, 4) = {z}
      /\ SwapBits({z}, 8) = {u} /\ SwapBits({u}, 16) = {v} /\ SwapBits({v}, 32) = {w}
  BY SwapOfOne
<1> HIDE DEF x, y, z, u, v, w
<1>3. reverse_bits({b}, n) = {i - (64 - n) : i \in {j \in {w} : j >= 64 - n}}
  BY <1>2 DEF reverse_bits
<1>4. w >= 64 - n /\ w - (64 - n) = n - 1 - b
  BY <1>1
<1>5. {j \in {w} : j >= 64 - n} = {w}
  BY <1>4
<1> QED BY <1>3, <1>4, <1>5

(* reverse_bits() of zero.                                                 *)
LEMMA ReverseNone ==
  ASSUME NEW n
  PROVE  reverse_bits({}, n) = {}
BY DEF reverse_bits, SwapBits

(* A byte of the register, of one bit and of none.                         *)
OneByte(c, n, at) == JtagByte({c}, n, at)
InByte(p, at) == IF p \in at .. at + 7 THEN {p} ELSE {}

(* A byte holds the bit if it is among its eight.                          *)
LEMMA ByteOfOne ==
  ASSUME NEW c \in Int, NEW n \in Int, NEW at \in Int, NEW p \in Int, p = at + c - n
  PROVE  OneByte(c, n, at) = InByte(p, at)
<1>1. c - n \in 0 .. 7 <=> p \in at .. at + 7
  OBVIOUS
<1>2. JtagByte({c}, n, at) = IF c - n \in 0 .. 7 THEN {at + c - n} ELSE {}
  BY DEF JtagByte
<1> QED BY <1>1, <1>2 DEF InByte, OneByte

(* A byte of zero.                                                         *)
LEMMA ByteOfNone ==
  ASSUME NEW n, NEW at
  PROVE  JtagByte({}, n, at) = {}
BY DEF JtagByte

(* The response byte by byte, over the reversed status and CRC: bytes two  *)
(* to four hold CRC bits only.                                             *)
CrcTail(cr, off) == UNION {JtagByte(cr, 8 * k - 4 - off, 8 * k) : k \in 2 .. 4}

(* What construct_response() puts into the register.                       *)
Answer(off, status, crc) ==
  IF off <= 4
  THEN JtagByte(reverse_bits(status, 4), -off, 0)
         \cup JtagByte(reverse_bits(crc, 32), -(4 + off), 0)
         \cup JtagByte(reverse_bits(crc, 32), 4 - off, 8)
         \cup CrcTail(reverse_bits(crc, 32), off)
  ELSE JtagByte(reverse_bits(status, 4), -off, 0)
         \cup JtagByte(reverse_bits(status, 4), 8 - off, 8)
         \cup JtagByte(reverse_bits(crc, 32), -(off - 4), 8)
         \cup CrcTail(reverse_bits(crc, 32), off)
         \cup JtagByte(reverse_bits(crc, 32), 36 - off, 40)

(* construct_response() in these terms.                                    *)
LEMMA ResponseIs ==
  ASSUME NEW fed, NEW off, NEW status, NEW crc
  PROVE  construct_response(fed, off, status, crc)
           = (fed \cap (off .. 7)) \cup Answer(off, status, crc)
BY DEF construct_response, CrcTail, Answer

(* A status bit, and a bit of the CRC, in the response.                    *)
LEMMA StatusOnWire ==
  ASSUME NEW off \in 0 .. 7, NEW b \in 0 .. 3
  PROVE  Answer(off, {b}, {}) = {off + 3 - b}
<1> DEFINE c == 3 - b
           p == off + c
           tail == UNION {JtagByte({}, 8 * k - 4 - off, 8 * k) : k \in 2 .. 4}
<1>1. reverse_bits({b}, 4) = {c} /\ reverse_bits({}, 32) = {}
  <2>1. b \in 0 .. 4 - 1 /\ 4 \in 1 .. 64 /\ 4 - 1 - b = c
    OBVIOUS
  <2> HIDE DEF c
  <2> QED BY <2>1, ReverseBitsIs, ReverseNone
<1>2. tail = {}
  BY ByteOfNone
<1>3. Answer(off, {b}, {}) =
        IF off <= 4 THEN JtagByte({c}, -off, 0)
        ELSE JtagByte({c}, -off, 0) \cup JtagByte({c}, 8 - off, 8)
  <2>1. /\ JtagByte({}, -(4 + off), 0) = {} /\ JtagByte({}, 4 - off, 8) = {}
        /\ JtagByte({}, -(off - 4), 8) = {} /\ JtagByte({}, 36 - off, 40) = {}
    BY ByteOfNone
  <2>2. CrcTail({}, off) = {}
    BY <1>2 DEF CrcTail
  <2> HIDE DEF c, tail
  <2> QED BY <1>1, <2>1, <2>2 DEF Answer
<1>4. /\ c \in Int /\ p \in Int /\ -off \in Int /\ 8 - off \in Int
      /\ p = 0 + c - (-off) /\ p = 8 + c - (8 - off) /\ p = off + 3 - b
      /\ p \in off .. off + 3
  OBVIOUS
<1> HIDE DEF c, p
<1>5. JtagByte({c}, -off, 0) = InByte(p, 0)
  <2> DEFINE n == -off
             at == 0
  <2>1. n \in Int /\ at \in Int /\ c \in Int /\ p \in Int /\ p = at + c - n
    BY <1>4
  <2> HIDE DEF n, at
  <2>2. OneByte(c, n, at) = InByte(p, at)
    BY <2>1, ByteOfOne
  <2> QED BY <2>2 DEF n, at, OneByte
<1>5a. JtagByte({c}, 8 - off, 8) = InByte(p, 8)
  <2> DEFINE n == 8 - off
             at == 8
  <2>1. n \in Int /\ at \in Int /\ c \in Int /\ p \in Int /\ p = at + c - n
    BY <1>4
  <2> HIDE DEF n, at
  <2>2. OneByte(c, n, at) = InByte(p, at)
    BY <2>1, ByteOfOne
  <2> QED BY <2>2 DEF n, at, OneByte
<1>6. CASE off <= 4
  BY <1>3, <1>4, <1>5, <1>6 DEF InByte
<1>7. CASE ~(off <= 4)
  <2>1. InByte(p, 0) \cup InByte(p, 8) = {p}
    BY <1>4 DEF InByte
  <2> QED BY <1>3, <1>4, <1>5, <1>5a, <1>7, <2>1
<1> QED BY <1>6, <1>7

(* A bit of the CRC in the response.                                       *)
LEMMA CrcOnWire ==
  ASSUME NEW off \in 0 .. 7, NEW b \in 0 .. 31
  PROVE  Answer(off, {}, {b}) = {off + 35 - b}
<1> DEFINE c == 31 - b
           p == off + 4 + c
           tail == UNION {JtagByte({c}, 8 * k - 4 - off, 8 * k) : k \in 2 .. 4}
<1>1. reverse_bits({b}, 32) = {c} /\ reverse_bits({}, 4) = {}
  <2>1. b \in 0 .. 32 - 1 /\ 32 \in 1 .. 64 /\ 32 - 1 - b = c
    OBVIOUS
  <2> HIDE DEF c
  <2> QED BY <2>1, ReverseBitsIs, ReverseNone
<1>2. Answer(off, {}, {b}) =
        IF off <= 4 THEN JtagByte({c}, -(4 + off), 0) \cup JtagByte({c}, 4 - off, 8) \cup tail
        ELSE JtagByte({c}, -(off - 4), 8) \cup tail \cup JtagByte({c}, 36 - off, 40)
  <2>1. JtagByte({}, -off, 0) = {} /\ JtagByte({}, 8 - off, 8) = {}
    BY ByteOfNone
  <2>2. CrcTail({c}, off) = tail
    BY DEF CrcTail
  <2> HIDE DEF c, tail
  <2>3. Answer(off, {}, {b}) =
          IF off <= 4
          THEN JtagByte({}, -off, 0) \cup JtagByte({c}, -(4 + off), 0)
                 \cup JtagByte({c}, 4 - off, 8) \cup tail
          ELSE JtagByte({}, -off, 0) \cup JtagByte({}, 8 - off, 8)
                 \cup JtagByte({c}, -(off - 4), 8) \cup tail
                 \cup JtagByte({c}, 36 - off, 40)
    BY <1>1, <2>2, Zenon DEF Answer
  <2>4. \A A, B, C : {} \cup A \cup B \cup C = A \cup B \cup C
                       /\ {} \cup {} \cup A \cup B \cup C = A \cup B \cup C
    OBVIOUS
  <2> QED BY <2>1, <2>3, <2>4, Zenon
<1>3. c \in Int /\ p \in Int /\ p = off + 35 - b /\ p \in 4 + off .. 35 + off
  OBVIOUS
<1>4. /\ p = 0 + c - (-(4 + off)) /\ p = 8 + c - (4 - off) /\ p = 8 + c - (-(off - 4))
      /\ p = 40 + c - (36 - off)
      /\ 0 \in Int /\ 8 \in Int /\ 40 \in Int
      /\ -(4 + off) \in Int /\ 4 - off \in Int /\ -(off - 4) \in Int /\ 36 - off \in Int
  OBVIOUS
<1>5. \A k \in 2 .. 4 : /\ p = 8 * k + c - (8 * k - 4 - off)
                        /\ 8 * k \in Int /\ 8 * k - 4 - off \in Int
  OBVIOUS
<1> HIDE DEF c, p
<1>6a. JtagByte({c}, -(4 + off), 0) = InByte(p, 0)
  <2> DEFINE n == -(4 + off)
             at == 0
  <2>1. n \in Int /\ at \in Int /\ c \in Int /\ p \in Int /\ p = at + c - n
    BY <1>3, <1>4
  <2> HIDE DEF n, at
  <2>2. OneByte(c, n, at) = InByte(p, at)
    BY <2>1, ByteOfOne
  <2> QED BY <2>2 DEF n, at, OneByte
<1>6b. JtagByte({c}, 4 - off, 8) = InByte(p, 8)
  <2> DEFINE n == 4 - off
             at == 8
  <2>1. n \in Int /\ at \in Int /\ c \in Int /\ p \in Int /\ p = at + c - n
    BY <1>3, <1>4
  <2> HIDE DEF n, at
  <2>2. OneByte(c, n, at) = InByte(p, at)
    BY <2>1, ByteOfOne
  <2> QED BY <2>2 DEF n, at, OneByte
<1>7a. JtagByte({c}, -(off - 4), 8) = InByte(p, 8)
  <2> DEFINE n == -(off - 4)
             at == 8
  <2>1. n \in Int /\ at \in Int /\ c \in Int /\ p \in Int /\ p = at + c - n
    BY <1>3, <1>4
  <2> HIDE DEF n, at
  <2>2. OneByte(c, n, at) = InByte(p, at)
    BY <2>1, ByteOfOne
  <2> QED BY <2>2 DEF n, at, OneByte
<1>7b. JtagByte({c}, 36 - off, 40) = InByte(p, 40)
  <2> DEFINE n == 36 - off
             at == 40
  <2>1. n \in Int /\ at \in Int /\ c \in Int /\ p \in Int /\ p = at + c - n
    BY <1>3, <1>4
  <2> HIDE DEF n, at
  <2>2. OneByte(c, n, at) = InByte(p, at)
    BY <2>1, ByteOfOne
  <2> QED BY <2>2 DEF n, at, OneByte
<1>8. ASSUME NEW k \in 2 .. 4 PROVE JtagByte({c}, 8 * k - 4 - off, 8 * k) = InByte(p, 8 * k)
  <2> DEFINE n == 8 * k - 4 - off
             at == 8 * k
  <2>1. n \in Int /\ at \in Int /\ c \in Int /\ p \in Int /\ p = at + c - n
    BY <1>3, <1>5
  <2> HIDE DEF n, at
  <2>2. OneByte(c, n, at) = InByte(p, at)
    BY <2>1, ByteOfOne
  <2> QED BY <2>2 DEF n, at, OneByte
<1>9. tail = IF p \in 16 .. 39 THEN {p} ELSE {}
  <2>1. tail = UNION {InByte(p, 8 * k) : k \in 2 .. 4}
    BY <1>8
  <2>2. \A k \in 2 .. 4 : InByte(p, 8 * k) \subseteq {p} /\
                          (p \in InByte(p, 8 * k) <=> p \in 8 * k .. 8 * k + 7)
    BY DEF InByte
  <2>3. (\E k \in 2 .. 4 : p \in 8 * k .. 8 * k + 7) <=> p \in 16 .. 39
    <3>1. p \in 16 .. 23 => 2 \in 2 .. 4 /\ p \in 8 * 2 .. 8 * 2 + 7
      BY <1>3
    <3>2. p \in 24 .. 31 => 3 \in 2 .. 4 /\ p \in 8 * 3 .. 8 * 3 + 7
      BY <1>3
    <3>3. p \in 32 .. 39 => 4 \in 2 .. 4 /\ p \in 8 * 4 .. 8 * 4 + 7
      BY <1>3
    <3>4. \A k \in 2 .. 4 : p \in 8 * k .. 8 * k + 7 => p \in 16 .. 39
      BY <1>3
    <3>5. p \in 16 .. 39 => p \in 16 .. 23 \/ p \in 24 .. 31 \/ p \in 32 .. 39
      BY <1>3
    <3> QED BY <3>1, <3>2, <3>3, <3>4, <3>5
  <2> HIDE DEF tail
  <2> QED BY <2>1, <2>2, <2>3
<1> HIDE DEF tail
<1>10. CASE off <= 4
  <2>1. InByte(p, 0) \cup InByte(p, 8) \cup tail = {p}
    BY <1>3, <1>9, <1>10 DEF InByte
  <2> QED BY <1>2, <1>3, <1>6a, <1>6b, <1>10, <2>1
<1>11. CASE ~(off <= 4)
  <2>1. InByte(p, 8) \cup tail \cup InByte(p, 40) = {p}
    BY <1>3, <1>9, <1>11 DEF InByte
  <2> QED BY <1>2, <1>3, <1>7a, <1>7b, <1>11, <2>1
<1> QED BY <1>10, <1>11

(* The access type, the address and the length in READ_COMMAND.            *)
LEMMA CommandOnWire ==
  ASSUME NEW fed, NEW b \in 0 .. 51
  PROVE  command_data(fed, {b - 48} \cap (0 .. 3), {b - 16} \cap (0 .. 31),
                      {b} \cap (0 .. 15)) = fed \cup {37 + 51 - b}
<1> DEFINE p == 37 + 51 - b
           Bytes(ac, ad, ln) ==
             fed \cup JtagByte(ac, -5, 32) \cup JtagByte(ac, 3, 40)
               \cup JtagByte(ad, -1, 40) \cup JtagByte(ad, 7, 48)
               \cup JtagByte(ad, 15, 56) \cup JtagByte(ad, 23, 64)
               \cup JtagByte(ad, 31, 72) \cup JtagByte(ln, -1, 72)
               \cup JtagByte(ln, 7, 80) \cup JtagByte(ln, 15, 88)
<1>1. \A x, y, z : command_data(fed, x, y, z) =
        Bytes(reverse_bits(x, 4), reverse_bits(y, 32), reverse_bits(z, 16))
  BY DEF command_data
<1>2. \A n, at : JtagByte({}, n, at) = {}
  BY ByteOfNone
<1>3. \A n : reverse_bits({}, n) = {}
  BY ReverseNone
<1>4. p \in Int
  OBVIOUS
<1>5. CASE b \in 48 .. 51
  <2> DEFINE c == 51 - b
  <2>1. /\ {b - 48} \cap (0 .. 3) = {b - 48} /\ {b - 16} \cap (0 .. 31) = {}
        /\ {b} \cap (0 .. 15) = {}
    <3>1. b - 48 \in 0 .. 3 /\ b - 16 \notin 0 .. 31 /\ b \notin 0 .. 15
      BY <1>5
    <3> QED BY <3>1
  <2>2. 4 \in 1 .. 64 /\ b - 48 \in 0 .. 4 - 1 /\ 4 - 1 - (b - 48) = c
    BY <1>5
  <2>3. /\ c \in Int /\ -5 \in Int /\ 3 \in Int /\ 32 \in Int /\ 40 \in Int
        /\ p = 32 + c - (-5) /\ p = 40 + c - 3 /\ p \in 37 .. 40
    BY <1>5
  <2> HIDE DEF c, p
  <2>4. reverse_bits({b - 48}, 4) = {c}
    BY <2>2, ReverseBitsIs
  <2>5. JtagByte({c}, -5, 32) = InByte(p, 32) /\ JtagByte({c}, 3, 40) = InByte(p, 40)
    <3>1. JtagByte({c}, -5, 32) = InByte(p, 32)
      BY <1>4, <2>3 DEF JtagByte, InByte
    <3>2. JtagByte({c}, 3, 40) = InByte(p, 40)
      BY <1>4, <2>3 DEF JtagByte, InByte
    <3> QED BY <3>1, <3>2
  <2>6. InByte(p, 32) \cup InByte(p, 40) = {p}
    BY <2>3 DEF InByte
  <2>7. Bytes({c}, {}, {}) = fed \cup {p}
    BY <1>2, <2>5, <2>6
  <2> HIDE DEF Bytes
  <2> QED BY <1>1, <1>3, <2>1, <2>4, <2>7 DEF p
<1>6. CASE b \in 16 .. 47
  <2> DEFINE c == 47 - b
  <2>1. /\ {b - 48} \cap (0 .. 3) = {} /\ {b - 16} \cap (0 .. 31) = {b - 16}
        /\ {b} \cap (0 .. 15) = {}
    <3>1. b - 48 \notin 0 .. 3 /\ b - 16 \in 0 .. 31 /\ b \notin 0 .. 15
      BY <1>6
    <3> QED BY <3>1
  <2>2. 32 \in 1 .. 64 /\ b - 16 \in 0 .. 32 - 1 /\ 32 - 1 - (b - 16) = c
    BY <1>6
  <2>3. /\ -1 \in Int /\ 7 \in Int /\ 15 \in Int /\ 23 \in Int /\ 31 \in Int
        /\ 40 \in Int /\ 48 \in Int /\ 56 \in Int /\ 64 \in Int /\ 72 \in Int
        /\ c \in Int /\ p = 40 + c - (-1) /\ p = 48 + c - 7
        /\ p = 56 + c - 15 /\ p = 64 + c - 23 /\ p = 72 + c - 31 /\ p \in 41 .. 72
    BY <1>6
  <2> HIDE DEF c, p
  <2>4. reverse_bits({b - 16}, 32) = {c}
    BY <2>2, ReverseBitsIs
  <2>5. JtagByte({c}, -1, 40) = InByte(p, 40)
    BY <1>4, <2>3 DEF JtagByte, InByte
  <2>6. JtagByte({c}, 7, 48) = InByte(p, 48)
    BY <1>4, <2>3 DEF JtagByte, InByte
  <2>7. JtagByte({c}, 15, 56) = InByte(p, 56)
    BY <1>4, <2>3 DEF JtagByte, InByte
  <2>8. JtagByte({c}, 23, 64) = InByte(p, 64)
    BY <1>4, <2>3 DEF JtagByte, InByte
  <2>9. JtagByte({c}, 31, 72) = InByte(p, 72)
    BY <1>4, <2>3 DEF JtagByte, InByte
  <2>10. InByte(p, 40) \cup InByte(p, 48) \cup InByte(p, 56) \cup InByte(p, 64)
           \cup InByte(p, 72) = {p}
    BY <2>3 DEF InByte
  <2>11. Bytes({}, {c}, {}) = fed \cup {p}
    BY <1>2, <2>5, <2>6, <2>7, <2>8, <2>9, <2>10
  <2> HIDE DEF Bytes
  <2> QED BY <1>1, <1>3, <2>1, <2>4, <2>11 DEF p
<1>7. CASE b \in 0 .. 15
  <2> DEFINE c == 15 - b
  <2>1. /\ {b - 48} \cap (0 .. 3) = {} /\ {b - 16} \cap (0 .. 31) = {}
        /\ {b} \cap (0 .. 15) = {b}
    <3>1. b - 48 \notin 0 .. 3 /\ b - 16 \notin 0 .. 31 /\ b \in 0 .. 15
      BY <1>7
    <3> QED BY <3>1
  <2>2. 16 \in 1 .. 64 /\ b \in 0 .. 16 - 1 /\ 16 - 1 - b = c
    BY <1>7
  <2>3. /\ -1 \in Int /\ 7 \in Int /\ 15 \in Int
        /\ 72 \in Int /\ 80 \in Int /\ 88 \in Int
        /\ c \in Int /\ p = 72 + c - (-1) /\ p = 80 + c - 7
        /\ p = 88 + c - 15 /\ p \in 73 .. 88
    BY <1>7
  <2> HIDE DEF c, p
  <2>4. reverse_bits({b}, 16) = {c}
    BY <2>2, ReverseBitsIs
  <2>5. JtagByte({c}, -1, 72) = InByte(p, 72)
    BY <1>4, <2>3 DEF JtagByte, InByte
  <2>6. JtagByte({c}, 7, 80) = InByte(p, 80)
    BY <1>4, <2>3 DEF JtagByte, InByte
  <2>7. JtagByte({c}, 15, 88) = InByte(p, 88)
    BY <1>4, <2>3 DEF JtagByte, InByte
  <2>8. InByte(p, 72) \cup InByte(p, 80) \cup InByte(p, 88) = {p}
    BY <2>3 DEF InByte
  <2>9. Bytes({}, {}, {c}) = fed \cup {p}
    BY <1>2, <2>5, <2>6, <2>7, <2>8
  <2> HIDE DEF Bytes
  <2> QED BY <1>1, <1>3, <2>1, <2>4, <2>9 DEF p
<1> QED BY <1>5, <1>6, <1>7

(* The stall bit in READ_CONTROL.                                          *)
LEMMA StallOnWire ==
  ASSUME NEW fed
  PROVE  control_data(fed, {50}) = fed \cup {38}
<1>1. reverse_bits({50}, 52) = {1}
  <2>1. 52 \in 1 .. 64 /\ 50 \in 0 .. 52 - 1 /\ 52 - 1 - 50 = 1
    OBVIOUS
  <2> QED BY <2>1, ReverseBitsIs
<1>2. {1} \cap (3 .. 5) = {} /\ {1} \cap {51} = {}
  OBVIOUS
<1>3. \A n, at : JtagByte({}, n, at) = {}
  BY ByteOfNone
<1>4. JtagByte({1}, -5, 32) = {38}
  BY DEF JtagByte
<1>5. \A k \in 6 .. 10 : JtagByte({1}, 8 * k - 37, 8 * k) = {}
  BY DEF JtagByte
<1> QED BY <1>1, <1>2, <1>3, <1>4, <1>5 DEF control_data

(* The states of the register to shift out, which no step leaves.          *)
WireInv ==
  \/ \E off \in 0 .. 7, b \in 0 .. 35, fed \in JtagFed :
       dev = [kind |-> "wire", off |-> off, bit |-> b, fed |-> fed]
  \/ \E b \in 0 .. 51, fed \in JtagFed :
       dev = [kind |-> "answer", bit |-> b, fed |-> fed]

(* They are no state of the interface itself.                              *)
LEMMA WireKinds ==
  ASSUME WireInv
  PROVE  /\ ~Is("jtag")
         /\ Is("wire") => \E off \in 0 .. 7, b \in 0 .. 35, fed \in JtagFed :
              dev = [kind |-> "wire", off |-> off, bit |-> b, fed |-> fed]
         /\ Is("answer") => \E b \in 0 .. 51, fed \in JtagFed :
              dev = [kind |-> "answer", bit |-> b, fed |-> fed]
<1>1. CASE \E off \in 0 .. 7, b \in 0 .. 35, fed \in JtagFed :
             dev = [kind |-> "wire", off |-> off, bit |-> b, fed |-> fed]
  <2>1. dev.kind = "wire"
    BY <1>1
  <2>2. "wire" # "answer" /\ "wire" # "jtag"
    OBVIOUS
  <2> QED BY <1>1, <2>1, <2>2, Zenon DEF Is
<1>2. CASE \E b \in 0 .. 51, fed \in JtagFed :
             dev = [kind |-> "answer", bit |-> b, fed |-> fed]
  <2>1. dev.kind = "answer"
    BY <1>2
  <2>2. "wire" # "answer" /\ "answer" # "jtag"
    OBVIOUS
  <2> QED BY <1>2, <2>1, <2>2, Zenon DEF Is
<1> QED BY <1>1, <1>2, Zenon DEF WireInv

(* Every bit of the response is where the debugger looks for it.           *)
LEMMA WireRight == WireInv => JtagWire
<1> SUFFICES ASSUME NEW off \in 0 .. 7, NEW b \in 0 .. 35, NEW fed \in JtagFed,
                    dev = [kind |-> "wire", off |-> off, bit |-> b, fed |-> fed]
             PROVE  JtagWire
  BY WireKinds, Zenon DEF JtagWire
<1>1. dev.off = off /\ dev.bit = b /\ dev.fed = fed
  OBVIOUS
<1>2. ASSUME b < 8 PROVE reverse_byte({b}) = reverse_bits({b}, 8)
  <2>1. b \in 0 .. 7 /\ b \in 0 .. 8 - 1 /\ 8 \in 1 .. 64 /\ 8 - 1 - b = 7 - b
    BY <1>2
  <2> QED BY <2>1, ReverseByteIs, ReverseBitsIs
<1>3. Answer(off, {b} \cap (0 .. 3), {b - 4} \cap (0 .. 31))
        = {off + IF b < 4 THEN 3 - b ELSE 39 - b}
  <2>1. CASE b < 4
    <3>0. b \in 0 .. 3 /\ b - 4 \notin 0 .. 31
      BY <2>1
    <3>1. {b} \cap (0 .. 3) = {b} /\ {b - 4} \cap (0 .. 31) = {} /\ b \in 0 .. 3
      BY <3>0
    <3> QED BY <2>1, <3>1, StatusOnWire
  <2>2. CASE ~(b < 4)
    <3>0. b \notin 0 .. 3 /\ b - 4 \in 0 .. 31
      BY <2>2
    <3>1. {b} \cap (0 .. 3) = {} /\ {b - 4} \cap (0 .. 31) = {b - 4} /\ b - 4 \in 0 .. 31
      BY <3>0
    <3>2. Answer(off, {}, {b - 4}) = {off + 35 - (b - 4)}
      BY <3>1, CrcOnWire
    <3> QED BY <2>2, <3>1, <3>2
  <2> QED BY <2>1, <2>2
<1>4. construct_response(fed, off, {b} \cap (0 .. 3), {b - 4} \cap (0 .. 31))
        = (fed \cap (off .. 7)) \cup {off + IF b < 4 THEN 3 - b ELSE 39 - b}
  BY <1>3, ResponseIs, Zenon
<1> QED BY <1>1, <1>2, <1>4 DEF JtagWire

(* Every bit of the data that is read back, too.                           *)
LEMMA DataRight == WireInv => JtagData
<1> SUFFICES ASSUME NEW b \in 0 .. 51, NEW fed \in JtagFed,
                    dev = [kind |-> "answer", bit |-> b, fed |-> fed]
             PROVE  JtagData
  BY WireKinds, Zenon DEF JtagData
<1>1. dev.bit = b /\ dev.fed = fed
  OBVIOUS
<1>2. command_data(fed, {b - 48} \cap (0 .. 3), {b - 16} \cap (0 .. 31),
                   {b} \cap (0 .. 15)) = fed \cup {37 + 51 - b}
  BY CommandOnWire
<1>3. b = 50 => control_data(fed, {b}) = fed \cup {37 + 51 - b}
  BY StallOnWire
<1> QED BY <1>1, <1>2, <1>3 DEF JtagData, JCB_STALL

(* Nothing happens to the register to shift out.                           *)
LEMMA WireStep == WireInv /\ [JtagNext]_dev => WireInv'
<1> SUFFICES ASSUME WireInv, [JtagNext]_dev PROVE WireInv'
  OBVIOUS
<1>1. ~Is("jtag")
  BY WireKinds
<1>2. ~JtagNext
  BY <1>1 DEF JtagNext, JtagOn, JtagDebug, JtagReset, jtag_shift_ir, JtagRefused, JtagSelect, JtagWrite,
              JtagWriteFails, JtagGo, JtagRead, JtagControl, JtagBadCrc
<1>3. UNCHANGED dev
  BY <1>2
<1> QED BY <1>3 DEF WireInv

(* The answer is always shifted out bit by bit as the debugger decodes it, *)
(* at every offset in a byte, over the ones that the debugger itself       *)
(* shifted in; and what has been read or written since a WRITE_COMMAND,    *)
(* failing transfers included, is always everything up to the current      *)
(* address and nothing beyond what the next GO_COMMAND transfers, for      *)
(* every memory, address and size and every length of a GO_COMMAND.        *)
THEOREM JtagAlwaysSound == JtagSpec => []JtagSound
<1>1. jtag_init => JtagInv
  <2> SUFFICES ASSUME jtag_init PROVE BlockRight(dev)
    BY DEF JtagInv
  <2>1. DOMAIN dev = JtagFields
    BY Zenon DEF jtag_init, JtagFields
  <2>2. dev.kind = "jtag" /\ dev.addr = 0 /\ dev.size = 0 /\ dev.base = 0
    BY Zenon DEF jtag_init
  <2>3. dev.wdef = FALSE /\ dev.failed = FALSE
    BY Zenon DEF jtag_init
  <2>4. /\ dev.addr \in Nat /\ dev.size \in Nat /\ dev.base \in Nat
        /\ dev.base <= dev.addr
    BY <2>2
  <2> QED BY <2>1, <2>2, <2>3, <2>4, Zenon DEF BlockRight
<1>2. JtagWireInit => WireInv
  BY DEF JtagWireInit, WireInv
<1>3. JtagInv => JtagSound
  <2>1. JtagInv => JtagOneBlock
    BY DEF JtagInv, BlockRight, JtagOneBlock
  <2>2. JtagInv => JtagWire
    BY DEF JtagInv, BlockRight, JtagWire, Is
  <2>3. JtagInv => JtagData
    BY DEF JtagInv, BlockRight, JtagData, Is
  <2> QED BY <2>1, <2>2, <2>3 DEF JtagSound
<1>4. WireInv => JtagSound
  <2>1. WireInv => JtagOneBlock
    BY WireKinds DEF JtagOneBlock
  <2> QED BY <2>1, WireRight, DataRight DEF JtagSound
<1> QED BY <1>1, <1>2, <1>3, <1>4, JtagStep, WireStep, PTL DEF JtagSpec

-----------------------------------------------------------------------------
(* The server of the verification API.                                     *)

VapiFields ==
  {"kind", "handlers", "revents", "accept", "open", "pc", "at", "alive", "SigpipeIgnored",
   "queue", "sent", "left", "closed", "heard"}
Devices == DOMAIN VapiDevices
Base(d) == VapiDevices[d].base
Tests == DOMAIN VapiTests

(* A handler has the ids of some device, not always of the one it serves:  *)
(* of that it has at least the first id.                                   *)
Handlers ==
  {h \in [base : Nat, num : Nat, fd : 0 .. VAPI_MAX_FD, to : Devices] :
     /\ \E d \in Devices : h.base = VapiDevices[d].base /\ h.num = VapiDevices[d].num
     /\ handler_fits_id(h, Base(h.to))}

(* Every open socket is some handler's.                                    *)
NoneLeaks(list, open) ==
  \A f \in VapiFds : open[f] # NoClient => \E i \in DOMAIN list : list[i].fd = f

(* A handler's number is the open socket of a test of its own, and no      *)
(* other handler's.                                                        *)
EachOwns(list, open) ==
  \A i \in DOMAIN list : list[i].fd # 0 =>
    /\ open[list[i].fd] # NoClient /\ handler_fits_id(list[i], VapiTests[open[list[i].fd]][1])
    /\ \A j \in DOMAIN list : j # i => list[j].fd # list[i].fd

(* A test that waits to be accepted waits once, is not open, and the first *)
(* that it has sent is its id.                                             *)
FirstIsId(sent, left, c) ==
  IF sent[c] = << >> THEN left[c] = Len(VapiTests[c]) ELSE Head(sent[c]) = VapiTests[c][1]
Waiting(queue, open, sent, left) ==
  /\ \A i \in DOMAIN queue : /\ FirstIsId(sent, left, queue[i])
                             /\ \A j \in DOMAIN queue : j # i => queue[j] # queue[i]
                             /\ \A f \in VapiFds : open[f] # queue[i]
  /\ \A c \in Tests : /\ left[c] <= Len(VapiTests[c])
                      /\ left[c] = -1 => /\ sent[c] = << >>
                                         /\ \A i \in DOMAIN queue : queue[i] # c
                                         /\ \A f \in VapiFds : open[f] # c

(* The devices' handlers are there before anything can be heard.           *)
Fitting(list, id) == \E i \in DOMAIN list : handler_fits_id(list[i], id)
AllInstalled(list) == \A d \in Devices : Fitting(list, Base(d))

(* What VapiHeard says of one packet.                                      *)
Owners(id) == {i \in Devices : handler_fits_id(VapiDevices[i], id)}
HeardRight(id, to) ==
  IF Owners(id) = {} THEN to = 0 ELSE (\A i \in Owners(id) : Apart(i)) => Owners(id) = {to}
RightHeard(heard) == \A k \in DOMAIN heard : HeardRight(heard[k][1], heard[k][2])

VapiTypes(s) ==
  /\ DOMAIN s = VapiFields /\ s.kind = "vapi"
  /\ s.handlers \in Seq(Handlers) /\ s.open \in [VapiFds -> Tests \cup {NoClient}]
  /\ s.revents \subseteq {i \in DOMAIN s.handlers : s.handlers[i].fd # 0}
  /\ s.queue \in Seq(Tests) /\ s.sent \in [Tests -> Seq(Nat)] /\ s.left \in [Tests -> Int]
  /\ s.heard \in Seq(Nat \X Nat)
  /\ s.pc = "walk" /\ s.accept => s.queue # << >>
VapiInv(s) ==
  /\ VapiTypes(s) /\ NoneLeaks(s.handlers, s.open)
  /\ ~s.SigpipeIgnored => EachOwns(s.handlers, s.open)
  /\ Waiting(s.queue, s.open, s.sent, s.left)
  /\ RightHeard(s.heard) /\ ((s.handlers = << >> /\ s.heard = << >>) \/ AllInstalled(s.handlers))

(* Tests are numbered from 1, and their descriptors too.                   *)
LEMMA TestsCounted ==
  /\ Tests \subseteq Nat \ {0} /\ VapiFds \subseteq Nat \ {0} /\ NoClient = 0 /\ NoClient \notin Tests
  /\ VapiFds \subseteq 0 .. VAPI_MAX_FD /\ 0 \in 0 .. VAPI_MAX_FD
  /\ \A f \in 0 .. VAPI_MAX_FD : f # 0 => f \in VapiFds
BY VapiAssumption DEF Tests, VapiFds, NoClient

(* Devices are numbered from 1 and have ids.                               *)
LEMMA DevicesCounted ==
  /\ Devices \subseteq Nat \ {0} /\ \A d \in Devices : Base(d) \in Nat
  /\ \A d \in Devices : /\ VapiDevices[d].base \in Nat /\ VapiDevices[d].num \in Nat
                        /\ handler_fits_id(VapiDevices[d], Base(d))
<1> DEFINE D == [base : Nat, num : Nat \ {0}]
<1>1. VapiDevices \in Seq(D)
  BY VapiAssumption
<1>2. \A d \in D : d.base \in Nat /\ d.num \in Nat /\ d.num # 0
  OBVIOUS
<1> HIDE DEF D
<1>3. Devices \subseteq Nat \ {0} /\ \A d \in Devices : VapiDevices[d] \in D
  BY <1>1 DEF Devices
<1> QED BY <1>2, <1>3 DEF Base, handler_fits_id

(* What a handler is.                                                      *)
LEMMA HandlerIs ==
  ASSUME NEW h \in Handlers
  PROVE  /\ h.base \in Nat /\ h.num \in Nat /\ h.fd \in 0 .. VAPI_MAX_FD /\ h.to \in Devices
         /\ handler_fits_id(h, Base(h.to))
         /\ \E d \in Devices : h.base = VapiDevices[d].base /\ h.num = VapiDevices[d].num
BY DEF Handlers

(* A handler keeps its ids when its number changes.                        *)
LEMMA HandlerFd ==
  ASSUME NEW h \in Handlers, NEW fd \in 0 .. VAPI_MAX_FD
  PROVE  LET e == [h EXCEPT !.fd = fd]
         IN  /\ e \in Handlers /\ e.fd = fd
             /\ e.base = h.base /\ e.num = h.num /\ e.to = h.to
<1> DEFINE e == [h EXCEPT !.fd = fd]
<1>1. h \in [base : Nat, num : Nat, fd : 0 .. VAPI_MAX_FD, to : Devices]
  BY DEF Handlers
<1>2. /\ e \in [base : Nat, num : Nat, fd : 0 .. VAPI_MAX_FD, to : Devices]
      /\ e.fd = fd /\ e.base = h.base /\ e.num = h.num /\ e.to = h.to
  BY <1>1
<1> HIDE DEF e
<1>3. e \in Handlers
  BY <1>2, HandlerIs DEF Handlers, handler_fits_id
<1> QED BY <1>2, <1>3 DEF e

(* A device may take a handler that has its first id.                      *)
LEMMA HandlerTo ==
  ASSUME NEW h \in Handlers, NEW d \in Devices, handler_fits_id(h, Base(d))
  PROVE  LET e == [h EXCEPT !.to = d]
         IN  e \in Handlers /\ e.fd = h.fd /\ e.base = h.base /\ e.num = h.num
<1> DEFINE e == [h EXCEPT !.to = d]
<1>1. h \in [base : Nat, num : Nat, fd : 0 .. VAPI_MAX_FD, to : Devices]
  BY DEF Handlers
<1>2. /\ e \in [base : Nat, num : Nat, fd : 0 .. VAPI_MAX_FD, to : Devices]
      /\ e.to = d /\ e.base = h.base /\ e.num = h.num /\ e.fd = h.fd
  BY <1>1
<1> HIDE DEF e
<1>3. e \in Handlers
  BY <1>2, HandlerIs DEF Handlers, handler_fits_id
<1> QED BY <1>2, <1>3 DEF e

(* A search gives a handler that fits, if there is one.                    *)
LEMMA FindIs ==
  ASSUME NEW list, list \in Seq(Handlers), NEW id
  PROVE  LET h == find_handler(list, id)
         IN  \/ h = 0 /\ \A i \in DOMAIN list : ~handler_fits_id(list[i], id)
             \/ h \in DOMAIN list /\ handler_fits_id(list[h], id)
<1> DEFINE fits == {i \in DOMAIN list : handler_fits_id(list[i], id)}
           h == find_handler(list, id)
<1>1. h = IF fits = {} THEN 0 ELSE CHOOSE i \in fits : \A j \in fits : i <= j
  BY DEF find_handler
<1>2. fits \in SUBSET Nat
  OBVIOUS
<1> HIDE DEF h
<1>3. CASE fits = {}
  BY <1>1, <1>3 DEF h
<1>4. CASE fits # {}
  <2> HIDE DEF fits
  <2>1. \E i \in fits : \A j \in fits : i <= j
    BY <1>2, <1>4, LeastNat
  <2>2. h \in fits
    BY <1>1, <1>4, <2>1
  <2> QED BY <2>2 DEF fits, h
<1> QED BY <1>3, <1>4 DEF h

(* The list after a reset: the handlers that were there, where they were   *)
(* and with their connections, and the others without one.                 *)
SameHandler(e, h) == e.fd = h.fd /\ e.base = h.base /\ e.num = h.num
Extends(new, old) ==
  /\ new \in Seq(Handlers) /\ Len(old) <= Len(new)
  /\ \A i \in 1 .. Len(old) : SameHandler(new[i], old[i])
  /\ \A i \in 1 .. Len(new) : i > Len(old) => new[i].fd = 0

(* vapi_install_multi_handler() extends the list, and some handler then    *)
(* fits the device's first id.                                             *)
LEMMA ExtendsMore ==
  ASSUME NEW old \in Seq(Handlers), NEW list, Extends(list, old), NEW d \in Devices
  PROVE  LET new == vapi_install_multi_handler(list, d)
         IN  /\ Extends(new, old) /\ Fitting(new, Base(d))
             /\ \A id : Fitting(list, id) => Fitting(new, id)
<1> DEFINE new == vapi_install_multi_handler(list, d)
           h == find_handler(list, Base(d))
<1>0. list \in Seq(Handlers)
  BY DEF Extends
<1>1. CASE h = 0
  <2> DEFINE e == [base |-> VapiDevices[d].base, num |-> VapiDevices[d].num, fd |-> 0, to |-> d]
  <2>1. e \in Handlers /\ handler_fits_id(e, Base(d)) /\ e.fd = 0
    <3>1. e \in [base : Nat, num : Nat, fd : 0 .. VAPI_MAX_FD, to : Devices]
      BY DevicesCounted, TestsCounted
    <3>2. e.base = VapiDevices[d].base /\ e.num = VapiDevices[d].num /\ e.to = d /\ e.fd = 0
      OBVIOUS
    <3> HIDE DEF e
    <3>3. handler_fits_id(e, Base(d))
      BY <3>2, DevicesCounted DEF handler_fits_id
    <3> QED BY <3>1, <3>2, <3>3 DEF Handlers
  <2>2. new = Append(list, e)
    BY <1>1 DEF vapi_install_multi_handler, add_handler, Base
  <2> HIDE DEF e, new
  <2>3. /\ new \in Seq(Handlers) /\ Len(new) = Len(list) + 1 /\ new[Len(list) + 1] = e
        /\ \A i \in 1 .. Len(list) : new[i] = list[i]
    BY <1>0, <2>1, <2>2
  <2>4. Extends(new, old)
    <3>1. Len(old) <= Len(new) /\ \A i \in 1 .. Len(old) : SameHandler(new[i], old[i])
      BY <1>0, <2>3 DEF Extends
    <3>2. ASSUME NEW i \in 1 .. Len(new), i > Len(old) PROVE new[i].fd = 0
      <4>1. CASE i \in 1 .. Len(list)
        BY <2>3, <3>2, <4>1 DEF Extends
      <4>2. CASE i = Len(list) + 1
        BY <2>1, <2>3, <4>2
      <4> QED BY <1>0, <2>3, <4>1, <4>2
    <3> QED BY <2>3, <3>1, <3>2 DEF Extends
  <2>5. DOMAIN new = 1 .. Len(list) + 1 /\ DOMAIN list = 1 .. Len(list) /\ Len(list) \in Nat
    BY <1>0, <2>3
  <2>6. \A i \in DOMAIN list : i \in DOMAIN new /\ new[i] = list[i]
    BY <2>3, <2>5
  <2>7. Len(list) + 1 \in DOMAIN new /\ handler_fits_id(new[Len(list) + 1], Base(d))
    BY <2>1, <2>3, <2>5
  <2> QED BY <2>4, <2>6, <2>7 DEF new, Fitting
<1>2. CASE h # 0
  <2> DEFINE e == [list[h] EXCEPT !.to = d]
  <2>1. h \in DOMAIN list /\ handler_fits_id(list[h], Base(d)) /\ list[h] \in Handlers
    BY <1>0, <1>2, FindIs
  <2>2. e \in Handlers /\ SameHandler(e, list[h])
    BY <2>1, HandlerTo DEF SameHandler
  <2>3. new = [list EXCEPT ![h] = e]
    BY <1>2 DEF vapi_install_multi_handler, Base
  <2> HIDE DEF e, new, h
  <2>4. /\ new \in Seq(Handlers) /\ DOMAIN new = DOMAIN list /\ Len(new) = Len(list)
        /\ DOMAIN list = 1 .. Len(list)
        /\ \A i \in DOMAIN list : new[i] = IF i = h THEN e ELSE list[i]
    BY <1>0, <2>1, <2>2, <2>3
  <2>5. \A i \in DOMAIN list : SameHandler(new[i], list[i])
    BY <2>2, <2>4 DEF SameHandler
  <2>6. Extends(new, old)
    <3>1. Len(old) \in Nat /\ Len(old) <= Len(list) /\ Len(list) \in Nat
      BY <1>0 DEF Extends
    <3>2. ASSUME NEW i \in 1 .. Len(old) PROVE SameHandler(new[i], old[i])
      <4>1. i \in DOMAIN list /\ SameHandler(list[i], old[i])
        BY <2>4, <3>1 DEF Extends
      <4> QED BY <2>5, <4>1 DEF SameHandler
    <3>3. ASSUME NEW i \in 1 .. Len(new), i > Len(old) PROVE new[i].fd = 0
      <4>1. i \in DOMAIN list /\ list[i].fd = 0
        BY <2>4, <3>3 DEF Extends
      <4> QED BY <2>5, <4>1 DEF SameHandler
    <3> QED BY <2>4, <3>1, <3>2, <3>3 DEF Extends
  <2>7. \A id : \A i \in DOMAIN list : handler_fits_id(list[i], id) => handler_fits_id(new[i], id)
    BY <2>5 DEF SameHandler, handler_fits_id
  <2>8. Fitting(new, Base(d))
    BY <2>1, <2>4, <2>7 DEF Fitting
  <2>9. \A id : Fitting(list, id) => Fitting(new, id)
    BY <2>4, <2>7 DEF Fitting
  <2> QED BY <2>6, <2>8, <2>9 DEF new
<1> QED BY <1>1, <1>2

(* The reset extends the list by every device's handlers and forgets       *)
(* events.                                                                 *)
LEMMA ResetIs ==
  ASSUME NEW s, s.handlers \in Seq(Handlers)
  PROVE  \E new : /\ VapiReset(s) = [s EXCEPT !.handlers = new, !.revents = {}]
                  /\ Extends(new, s.handlers) /\ AllInstalled(new)
<1> DEFINE old == s.handlers
           k == Len(VapiDevices)
           S == Seq(Handlers)
           F == [n \in 1 .. k |-> [l \in S |-> vapi_install_multi_handler(l, n)]]
           Eq(g) == g = [n \in 0 .. k |-> IF n = 0 THEN old
                                          ELSE vapi_install_multi_handler(g[n - 1], n)]
<1>0. k \in Nat /\ Devices = 1 .. k
  BY VapiAssumption DEF Devices
<1>1. F \in [1 .. k -> [S -> S]]
  <2>1. ASSUME NEW n \in 1 .. k, NEW l \in S PROVE vapi_install_multi_handler(l, n) \in S
    <3>1. Extends(l, l)
      BY DEF Extends, SameHandler
    <3> QED BY <1>0, <3>1, ExtendsMore DEF Extends
  <2> HIDE DEF S, k
  <2> QED BY <2>1
<1>2. \A n \in 1 .. k : \A l \in S : F[n][l] = vapi_install_multi_handler(l, n)
  OBVIOUS
<1> HIDE DEF F, k, old, S
<1>3. old \in S
  BY DEF old, S
<1>3a. k \in Nat
  BY <1>0
<1>4. PICK f \in [0 .. k -> S] : f[0] = old /\ \A n \in 1 .. k : f[n] = F[n][f[n - 1]]
  BY <1>1, <1>3, <1>3a, Iterates, SMTT(30)
<1>5. \A n \in 1 .. k : f[n] = vapi_install_multi_handler(f[n - 1], n)
  BY <1>0, <1>2, <1>4
<1>6. Eq(f)
  BY <1>4, <1>5
<1> DEFINE g == CHOOSE x : Eq(x)
<1>7. VapiReset(s) = [s EXCEPT !.handlers = g[k], !.revents = {}]
  BY DEF VapiReset, k, old
<1> HIDE DEF Eq
<1>8. Eq(g)
  BY <1>6
<1> HIDE DEF g
<1>9. g[0] = old /\ \A n \in 1 .. k : g[n] = vapi_install_multi_handler(g[n - 1], n)
  BY <1>0, <1>8 DEF Eq
<1> DEFINE P == {n \in 0 .. k : Extends(g[n], old) /\ \A m \in 1 .. n : Fitting(g[n], Base(m))}
<1>10. 0 \in P
  <2>1. Extends(old, old)
    BY <1>3 DEF Extends, SameHandler, S
  <2> QED BY <1>0, <1>9, <2>1
<1>11. ASSUME NEW n \in 1 .. k, n - 1 \in P PROVE n \in P
  <2>1. Extends(g[n - 1], old) /\ n \in Devices /\ old \in Seq(Handlers)
    BY <1>0, <1>3, <1>11 DEF S
  <2>2. g[n] = vapi_install_multi_handler(g[n - 1], n)
    BY <1>9
  <2>3. Extends(g[n], old) /\ Fitting(g[n], Base(n)) /\ \A id : Fitting(g[n - 1], id) => Fitting(g[n], id)
    <3> DEFINE l == g[n - 1]
    <3>1. Extends(l, old) /\ n \in Devices /\ old \in Seq(Handlers) /\ g[n] = vapi_install_multi_handler(l, n)
      BY <2>1, <2>2
    <3> HIDE DEF l
    <3>2. Extends(g[n], old) /\ Fitting(g[n], Base(n)) /\ \A id : Fitting(l, id) => Fitting(g[n], id)
      BY <3>1, ExtendsMore
    <3> QED BY <3>2 DEF l
  <2>4. \A m \in 1 .. n - 1 : Fitting(g[n - 1], Base(m))
    BY <1>11
  <2>5. \A m \in 1 .. n : Fitting(g[n], Base(m))
    BY <1>0, <2>3, <2>4
  <2> QED BY <1>0, <2>3, <2>5
<1> HIDE DEF P
<1>12. 0 .. k \subseteq P
  BY <1>0, <1>10, <1>11, UpTo
<1>13. k \in P
  BY <1>0, <1>12
<1>14. Extends(g[k], old) /\ \A m \in 1 .. k : Fitting(g[k], Base(m))
  BY <1>13 DEF P
<1>15. AllInstalled(g[k])
  BY <1>0, <1>14 DEF AllInstalled
<1> QED BY <1>7, <1>14, <1>15 DEF old

(* New handlers have no connection.                                        *)
LEMMA ResetKeeps ==
  ASSUME NEW old \in Seq(Handlers), NEW new, Extends(new, old),
         NEW open \in [VapiFds -> Tests \cup {NoClient}]
  PROVE  /\ NoneLeaks(old, open) => NoneLeaks(new, open)
         /\ EachOwns(old, open) => EachOwns(new, open)
<1>0. /\ new \in Seq(Handlers) /\ DOMAIN new = 1 .. Len(new) /\ DOMAIN old = 1 .. Len(old)
      /\ Len(old) \in Nat /\ Len(new) \in Nat /\ Len(old) <= Len(new)
  BY DEF Extends
<1>1. \A i \in DOMAIN old : i \in DOMAIN new /\ SameHandler(new[i], old[i])
  BY <1>0 DEF Extends
<1>2. \A i \in DOMAIN new : new[i].fd # 0 => i \in DOMAIN old
  BY <1>0 DEF Extends
<1>3. NoneLeaks(old, open) => NoneLeaks(new, open)
  BY <1>1 DEF NoneLeaks, SameHandler
<1>4. ASSUME EachOwns(old, open) PROVE EachOwns(new, open)
  <2> SUFFICES ASSUME NEW i \in DOMAIN new, new[i].fd # 0
               PROVE  /\ open[new[i].fd] # NoClient
                      /\ handler_fits_id(new[i], VapiTests[open[new[i].fd]][1])
                      /\ \A j \in DOMAIN new : j # i => new[j].fd # new[i].fd
    BY DEF EachOwns
  <2>1. i \in DOMAIN old /\ SameHandler(new[i], old[i])
    BY <1>1, <1>2
  <2>2. /\ open[new[i].fd] # NoClient /\ handler_fits_id(new[i], VapiTests[open[new[i].fd]][1])
        /\ \A j \in DOMAIN old : j # i => old[j].fd # new[i].fd
    BY <1>4, <2>1 DEF EachOwns, SameHandler, handler_fits_id
  <2>3. ASSUME NEW j \in DOMAIN new, j # i, new[j].fd = new[i].fd PROVE FALSE
    BY <1>1, <1>2, <2>2, <2>3 DEF SameHandler
  <2> QED BY <2>2, <2>3
<1> QED BY <1>3, <1>4

(* A socket is closed: the handlers that have other numbers keep them, and *)
(* a test that waits still does.                                           *)
Closed(open, fd) == [open EXCEPT ![fd] = NoClient]

(* close() frees one number.                                               *)
LEMMA ClosedIs ==
  ASSUME NEW open \in [VapiFds -> Tests \cup {NoClient}], NEW fd
  PROVE  /\ Closed(open, fd) \in [VapiFds -> Tests \cup {NoClient}]
         /\ \A f \in VapiFds : Closed(open, fd)[f] = IF f = fd THEN NoClient ELSE open[f]
BY DEF Closed

(* close() takes no socket from a handler that has another number, and     *)
(* lets no waiting test in.                                                *)
LEMMA CloseWaits ==
  ASSUME NEW open \in [VapiFds -> Tests \cup {NoClient}], NEW fd,
         NEW list, NoneLeaks(list, open), NEW queue \in Seq(Tests), NEW sent, NEW left,
         Waiting(queue, open, sent, left)
  PROVE  /\ NoneLeaks(list, Closed(open, fd))
         /\ Waiting(queue, Closed(open, fd), sent, left)
<1> DEFINE next == Closed(open, fd)
<1>1. \A f \in VapiFds : next[f] = IF f = fd THEN NoClient ELSE open[f]
  BY ClosedIs
<1> HIDE DEF next
<1>2. NoneLeaks(list, next)
  BY <1>1 DEF NoneLeaks
<1>3. \A c \in Tests : \A f \in VapiFds : open[f] # c => next[f] # c
  BY <1>1, TestsCounted
<1>4. \A i \in DOMAIN queue : queue[i] \in Tests
  OBVIOUS
<1>5. Waiting(queue, next, sent, left)
  BY <1>3, <1>4 DEF Waiting
<1> QED BY <1>2, <1>5 DEF next

(* The list with the number of one handler changed.                        *)
WithFd(list, t, fd) == [list EXCEPT ![t].fd = fd]

(* One handler's number changed, and nothing else of the list.             *)
LEMMA WithFdIs ==
  ASSUME NEW list \in Seq(Handlers), NEW t \in DOMAIN list, NEW fd \in 0 .. VAPI_MAX_FD
  PROVE  LET new == WithFd(list, t, fd)
         IN  /\ new \in Seq(Handlers) /\ DOMAIN new = DOMAIN list
             /\ new[t].fd = fd /\ \A i \in DOMAIN list : i # t => new[i] = list[i]
             /\ \A i \in DOMAIN list, id \in Nat :
                  handler_fits_id(new[i], id) <=> handler_fits_id(list[i], id)
<1> DEFINE new == WithFd(list, t, fd)
           e == [list[t] EXCEPT !.fd = fd]
<1>1. list[t] \in Handlers
  OBVIOUS
<1>2. e \in Handlers /\ e.fd = fd /\ e.base = list[t].base /\ e.num = list[t].num
  BY <1>1, HandlerFd
<1>3. new = [list EXCEPT ![t] = e]
  BY DEF WithFd
<1> HIDE DEF e, new
<1>4. new \in Seq(Handlers) /\ DOMAIN new = DOMAIN list /\ new[t] = e
      /\ \A i \in DOMAIN list : i # t => new[i] = list[i]
  BY <1>2, <1>3
<1>5. \A i \in DOMAIN list, id \in Nat : handler_fits_id(new[i], id) <=> handler_fits_id(list[i], id)
  BY <1>2, <1>4 DEF handler_fits_id
<1> QED BY <1>2, <1>4, <1>5 DEF new

(* vapi_request() closes a socket and the handler drops the number.        *)
LEMMA DropKeeps ==
  ASSUME NEW list \in Seq(Handlers), NEW t \in DOMAIN list,
         NEW open \in [VapiFds -> Tests \cup {NoClient}]
  PROVE  LET new == WithFd(list, t, 0)
             next == Closed(open, list[t].fd)
         IN  /\ NoneLeaks(list, open) => NoneLeaks(new, next)
             /\ EachOwns(list, open) => EachOwns(new, next)
<1> DEFINE new == WithFd(list, t, 0)
           fd == list[t].fd
           next == Closed(open, fd)
<1>1. /\ DOMAIN new = DOMAIN list /\ new[t].fd = 0
      /\ \A i \in DOMAIN list : i # t => new[i] = list[i]
  BY WithFdIs, TestsCounted
<1>2. \A f \in VapiFds : next[f] = IF f = fd THEN NoClient ELSE open[f]
  BY ClosedIs
<1>3. \A i \in DOMAIN list : list[i].fd # 0 => list[i].fd \in VapiFds
  <2>1. \A i \in DOMAIN list : list[i] \in Handlers
    OBVIOUS
  <2> QED BY <2>1, TestsCounted DEF Handlers
<1> HIDE DEF new, next
<1>4. ASSUME NoneLeaks(list, open) PROVE NoneLeaks(new, next)
  <2> SUFFICES ASSUME NEW f \in VapiFds, next[f] # NoClient
               PROVE  \E i \in DOMAIN new : new[i].fd = f
    BY DEF NoneLeaks
  <2>1. f # fd /\ open[f] # NoClient
    BY <1>2
  <2>2. PICK i \in DOMAIN list : list[i].fd = f
    BY <1>4, <2>1 DEF NoneLeaks
  <2>3. i # t
    BY <2>1, <2>2
  <2> QED BY <1>1, <2>2, <2>3
<1>5. ASSUME EachOwns(list, open) PROVE EachOwns(new, next)
  <2> SUFFICES ASSUME NEW i \in DOMAIN new, new[i].fd # 0
               PROVE  /\ next[new[i].fd] # NoClient
                      /\ handler_fits_id(new[i], VapiTests[next[new[i].fd]][1])
                      /\ \A j \in DOMAIN new : j # i => new[j].fd # new[i].fd
    BY DEF EachOwns
  <2>1. i # t /\ i \in DOMAIN list /\ new[i] = list[i] /\ list[i].fd \in VapiFds
    BY <1>1, <1>3
  <2>2. /\ open[list[i].fd] # NoClient /\ handler_fits_id(list[i], VapiTests[open[list[i].fd]][1])
        /\ \A j \in DOMAIN list : j # i => list[j].fd # list[i].fd
    BY <1>5, <2>1 DEF EachOwns
  <2>3. list[i].fd # fd
    BY <2>1, <2>2
  <2>4. next[new[i].fd] = open[list[i].fd]
    BY <1>2, <2>1, <2>3
  <2>5. ASSUME NEW j \in DOMAIN new, j # i PROVE new[j].fd # new[i].fd
    <3>1. CASE j = t
      BY <1>1, <3>1
    <3>2. CASE j # t
      BY <1>1, <2>1, <2>2, <2>5, <3>2
    <3> QED BY <3>1, <3>2
  <2> QED BY <2>1, <2>2, <2>4, <2>5
<1> QED BY <1>4, <1>5 DEF new, next

(* server_request() gives a handler without a connection the free number   *)
(* of the test that named it.                                              *)
NowOpen(open, fd, c) == [open EXCEPT ![fd] = c]

(* Each open socket is then still one handler's, and each handler has the  *)
(* test that named it.                                                     *)
LEMMA AcceptOwns ==
  ASSUME NEW list \in Seq(Handlers), NEW t \in DOMAIN list, list[t].fd = 0,
         NEW open \in [VapiFds -> Tests \cup {NoClient}], NEW fd \in VapiFds,
         open[fd] = NoClient, NEW c \in Tests, VapiTests[c][1] \in Nat,
         handler_fits_id(list[t], VapiTests[c][1])
  PROVE  LET new == WithFd(list, t, fd)
             next == NowOpen(open, fd, c)
         IN  /\ NoneLeaks(list, open) => NoneLeaks(new, next)
             /\ EachOwns(list, open) => EachOwns(new, next)
<1> DEFINE new == WithFd(list, t, fd)
           next == NowOpen(open, fd, c)
<1>0. fd \in 0 .. VAPI_MAX_FD /\ fd # 0 /\ c # NoClient
  BY TestsCounted
<1>1. /\ DOMAIN new = DOMAIN list /\ new[t].fd = fd /\ handler_fits_id(new[t], VapiTests[c][1])
      /\ \A i \in DOMAIN list : i # t => new[i] = list[i]
  BY <1>0, WithFdIs
<1>2. \A f \in VapiFds : next[f] = IF f = fd THEN c ELSE open[f]
  BY DEF NowOpen
<1>3. \A i \in DOMAIN list : list[i].fd # 0 => list[i].fd \in VapiFds
  <2>1. \A i \in DOMAIN list : list[i] \in Handlers
    OBVIOUS
  <2> QED BY <2>1, TestsCounted DEF Handlers
<1> HIDE DEF new, next
<1>4. ASSUME NoneLeaks(list, open) PROVE NoneLeaks(new, next)
  <2> SUFFICES ASSUME NEW f \in VapiFds, next[f] # NoClient
               PROVE  \E i \in DOMAIN new : new[i].fd = f
    BY DEF NoneLeaks
  <2>1. CASE f = fd
    BY <1>1, <2>1
  <2>2. CASE f # fd
    <3>1. PICK i \in DOMAIN list : list[i].fd = f
      BY <1>2, <1>4, <2>2 DEF NoneLeaks
    <3>2. i # t
      BY <3>1, TestsCounted
    <3> QED BY <1>1, <3>1, <3>2
  <2> QED BY <2>1, <2>2
<1>5. ASSUME EachOwns(list, open) PROVE EachOwns(new, next)
  <2>0. ASSUME NEW i \in DOMAIN list, i # t, list[i].fd # 0
        PROVE  /\ new[i] = list[i] /\ list[i].fd \in VapiFds /\ list[i].fd # fd
               /\ next[list[i].fd] # NoClient /\ handler_fits_id(list[i], VapiTests[next[list[i].fd]][1])
               /\ \A j \in DOMAIN list : j # i => list[j].fd # list[i].fd
    <3>1. new[i] = list[i] /\ list[i].fd \in VapiFds
      BY <1>1, <1>3, <2>0
    <3>2. /\ open[list[i].fd] # NoClient /\ handler_fits_id(list[i], VapiTests[open[list[i].fd]][1])
          /\ \A j \in DOMAIN list : j # i => list[j].fd # list[i].fd
      BY <1>5, <2>0 DEF EachOwns
    <3>3. list[i].fd # fd
      BY <3>2
    <3>4. next[list[i].fd] = open[list[i].fd]
      BY <1>2, <3>1, <3>3
    <3> QED BY <3>1, <3>2, <3>3, <3>4
  <2> SUFFICES ASSUME NEW i \in DOMAIN new, new[i].fd # 0
               PROVE  /\ next[new[i].fd] # NoClient
                      /\ handler_fits_id(new[i], VapiTests[next[new[i].fd]][1])
                      /\ \A j \in DOMAIN new : j # i => new[j].fd # new[i].fd
    BY DEF EachOwns
  <2>1. CASE i = t
    <3>1. next[new[i].fd] = c
      BY <1>1, <1>2, <2>1
    <3>2. ASSUME NEW j \in DOMAIN new, j # i PROVE new[j].fd # new[i].fd
      <4>1. new[j] = list[j] /\ j \in DOMAIN list /\ j # t /\ new[i].fd = fd
        BY <1>1, <2>1, <3>2
      <4>2. CASE list[j].fd = 0
        BY <1>0, <4>1, <4>2
      <4>3. CASE list[j].fd # 0
        BY <2>0, <4>1, <4>3
      <4> QED BY <4>2, <4>3
    <3> QED BY <1>0, <1>1, <2>1, <3>1, <3>2
  <2>2. CASE i # t
    <3>1. i \in DOMAIN list /\ new[i] = list[i]
      BY <1>1, <2>2
    <3>2. ASSUME NEW j \in DOMAIN new, j # i PROVE new[j].fd # new[i].fd
      <4>1. CASE j = t
        BY <1>1, <2>0, <2>2, <3>1, <4>1
      <4>2. CASE j # t
        BY <1>1, <2>0, <2>2, <3>1, <3>2, <4>2
      <4> QED BY <4>1, <4>2
    <3> QED BY <2>0, <2>2, <3>1, <3>2
  <2> QED BY <2>1, <2>2
<1> QED BY <1>4, <1>5 DEF new, next

(* What a test has sent, with the first packet read.                       *)
OneRead(sent, c) == [sent EXCEPT ![c] = Tail(sent[c])]

(* Reading takes a packet of one test only.                                *)
LEMMA OneReadIs ==
  ASSUME NEW sent \in [Tests -> Seq(Nat)], NEW c \in Tests, sent[c] # << >>
  PROVE  /\ OneRead(sent, c) \in [Tests -> Seq(Nat)] /\ Head(sent[c]) \in Nat
         /\ \A d \in Tests : d # c => OneRead(sent, c)[d] = sent[d]
<1>1. sent[c] \in Seq(Nat)
  OBVIOUS
<1>2. Tail(sent[c]) \in Seq(Nat) /\ Head(sent[c]) \in Nat
  BY <1>1
<1> QED BY <1>2 DEF OneRead

(* The server reads from an open socket: no test that waits has one.       *)
LEMMA ReadWaits ==
  ASSUME NEW queue \in Seq(Tests), NEW open, NEW sent \in [Tests -> Seq(Nat)], NEW left,
         Waiting(queue, open, sent, left), NEW c \in Tests, sent[c] # << >>,
         NEW f \in VapiFds, open[f] = c
  PROVE  Waiting(queue, open, OneRead(sent, c), left)
<1> DEFINE next == OneRead(sent, c)
<1>1. \A d \in Tests : d # c => next[d] = sent[d]
  BY OneReadIs
<1> HIDE DEF next
<1>2. ASSUME NEW i \in DOMAIN queue PROVE queue[i] \in Tests /\ queue[i] # c
  BY DEF Waiting
<1>3. ASSUME NEW i \in DOMAIN queue PROVE FirstIsId(next, left, queue[i])
  <2>1. FirstIsId(sent, left, queue[i]) /\ next[queue[i]] = sent[queue[i]]
    BY <1>1, <1>2 DEF Waiting
  <2> QED BY <2>1 DEF FirstIsId
<1>4. ASSUME NEW d \in Tests, left[d] = -1 PROVE next[d] = << >>
  <2>1. sent[d] = << >>
    BY <1>4 DEF Waiting
  <2> QED BY <1>1, <2>1
<1>5. Waiting(queue, open, next, left)
  BY <1>3, <1>4 DEF Waiting
<1> QED BY <1>5 DEF next

(* A test is taken from the queue, and refused.                            *)
LEMMA TailOf ==
  ASSUME NEW queue \in Seq(Tests), queue # << >>
  PROVE  /\ Tail(queue) \in Seq(Tests) /\ Head(queue) = queue[1] /\ 1 \in DOMAIN queue
         /\ \A i \in DOMAIN Tail(queue) :
              /\ Tail(queue)[i] = queue[i + 1] /\ i + 1 \in DOMAIN queue /\ i \in Nat /\ i + 1 # 1
OBVIOUS

(* A refused test leaves the queue, and the others still wait.             *)
LEMMA RefuseKeeps ==
  ASSUME NEW queue \in Seq(Tests), queue # << >>, NEW open, NEW sent, NEW left,
         Waiting(queue, open, sent, left)
  PROVE  Waiting(Tail(queue), open, sent, left)
<1> DEFINE rest == Tail(queue)
<1>1. \A i \in DOMAIN rest : rest[i] = queue[i + 1] /\ i + 1 \in DOMAIN queue /\ i \in Nat
  BY TailOf
<1> HIDE DEF rest
<1>2. ASSUME NEW i \in DOMAIN rest, NEW j \in DOMAIN rest, j # i PROVE rest[j] # rest[i]
  <2>1. i + 1 # j + 1 /\ i + 1 \in DOMAIN queue /\ j + 1 \in DOMAIN queue
    BY <1>1, <1>2
  <2>2. queue[j + 1] # queue[i + 1]
    BY <2>1 DEF Waiting
  <2> QED BY <1>1, <2>2
<1>3. ASSUME NEW i \in DOMAIN rest
      PROVE  FirstIsId(sent, left, rest[i]) /\ \A f \in VapiFds : open[f] # rest[i]
  <2>1. rest[i] = queue[i + 1] /\ i + 1 \in DOMAIN queue
    BY <1>1
  <2> QED BY <2>1 DEF Waiting
<1>4. \A c \in Tests : left[c] = -1 => \A i \in DOMAIN rest : rest[i] # c
  BY <1>1 DEF Waiting
<1>5. Waiting(rest, open, sent, left)
  BY <1>2, <1>3, <1>4 DEF Waiting
<1> QED BY <1>5 DEF rest

(* ... or accepted: it is open and no longer waits.                        *)
LEMMA AcceptKeeps ==
  ASSUME NEW queue \in Seq(Tests), queue # << >>, NEW open \in [VapiFds -> Tests \cup {NoClient}],
         NEW sent \in [Tests -> Seq(Nat)], NEW left, Waiting(queue, open, sent, left),
         NEW c, c = Head(queue), sent[c] # << >>, NEW fd \in VapiFds
  PROVE  Waiting(Tail(queue), NowOpen(open, fd, c), OneRead(sent, c), left)
<1> DEFINE rest == Tail(queue)
           next == OneRead(sent, c)
           opened == NowOpen(open, fd, c)
<1>0. c \in Tests /\ c = queue[1] /\ 1 \in DOMAIN queue
  BY TailOf
<1>1. \A d \in Tests : d # c => next[d] = sent[d]
  BY <1>0, OneReadIs
<1>2. \A f \in VapiFds : opened[f] = IF f = fd THEN c ELSE open[f]
  BY DEF NowOpen
<1>3. Waiting(rest, open, sent, left)
  BY RefuseKeeps
<1>4. \A i \in DOMAIN rest : rest[i] \in Tests /\ rest[i] # c
  <2>1. \A i \in DOMAIN rest : rest[i] = queue[i + 1] /\ i + 1 \in DOMAIN queue /\ i + 1 # 1
    BY TailOf
  <2>2. \A i \in DOMAIN queue : i # 1 => queue[i] # c /\ queue[i] \in Tests
    BY <1>0 DEF Waiting
  <2> HIDE DEF rest
  <2> QED BY <2>1, <2>2
<1>5. left[c] # -1
  BY <1>0 DEF Waiting
<1> HIDE DEF rest, next, opened
<1>6. ASSUME NEW i \in DOMAIN rest
      PROVE  FirstIsId(next, left, rest[i]) /\ \A f \in VapiFds : opened[f] # rest[i]
  <2>1. FirstIsId(sent, left, rest[i]) /\ next[rest[i]] = sent[rest[i]]
    BY <1>1, <1>3, <1>4 DEF Waiting
  <2>2. \A f \in VapiFds : opened[f] # rest[i]
    BY <1>2, <1>3, <1>4 DEF Waiting
  <2> QED BY <2>1, <2>2 DEF FirstIsId
<1>7. ASSUME NEW d \in Tests, left[d] = -1
      PROVE  next[d] = << >> /\ \A f \in VapiFds : opened[f] # d
  <2>1. d # c /\ sent[d] = << >> /\ \A f \in VapiFds : open[f] # d
    BY <1>3, <1>5, <1>7 DEF Waiting
  <2> QED BY <1>1, <1>2, <2>1
<1>8. Waiting(rest, opened, next, left)
  BY <1>3, <1>6, <1>7 DEF Waiting
<1> QED BY <1>8 DEF rest, next, opened

(* A test connects.                                                        *)
Asked(left, c) == [left EXCEPT ![c] = Len(VapiTests[c])]

(* A test that connects waits behind the others.                           *)
LEMMA ConnectWaits ==
  ASSUME NEW queue \in Seq(Tests), NEW open, NEW sent, NEW left \in [Tests -> Int],
         Waiting(queue, open, sent, left), NEW c \in Tests, left[c] = -1
  PROVE  /\ Waiting(Append(queue, c), open, sent, Asked(left, c))
         /\ Asked(left, c) \in [Tests -> Int] /\ Append(queue, c) \in Seq(Tests)
<1> DEFINE more == Append(queue, c)
           next == Asked(left, c)
           n == Len(queue)
<1>0. Len(VapiTests[c]) \in Nat
  BY VapiAssumption DEF Tests
<1>1. /\ next \in [Tests -> Int] /\ next[c] = Len(VapiTests[c])
      /\ \A d \in Tests : d # c => next[d] = left[d]
  BY <1>0 DEF Asked
<1>2. /\ more \in Seq(Tests) /\ DOMAIN more = 1 .. n + 1 /\ DOMAIN queue = 1 .. n /\ n \in Nat
      /\ more[n + 1] = c /\ \A i \in DOMAIN queue : more[i] = queue[i] /\ queue[i] \in Tests
  OBVIOUS
<1> HIDE DEF more, next, n
<1>3. /\ sent[c] = << >> /\ (\A i \in DOMAIN queue : queue[i] # c)
      /\ \A f \in VapiFds : open[f] # c
  BY DEF Waiting
<1>4. \A i \in DOMAIN more : i \in DOMAIN queue \/ i = n + 1
  BY <1>2
<1>5. ASSUME NEW i \in DOMAIN more
      PROVE  FirstIsId(sent, next, more[i]) /\ \A f \in VapiFds : open[f] # more[i]
  <2>1. CASE i \in DOMAIN queue
    <3>1. FirstIsId(sent, left, queue[i]) /\ \A f \in VapiFds : open[f] # queue[i]
      BY <2>1 DEF Waiting
    <3>2. more[i] = queue[i] /\ next[queue[i]] = left[queue[i]]
      BY <1>1, <1>2, <1>3, <2>1
    <3> QED BY <3>1, <3>2 DEF FirstIsId
  <2>2. CASE i = n + 1
    BY <1>1, <1>2, <1>3, <2>2 DEF FirstIsId
  <2> QED BY <1>4, <2>1, <2>2
<1>6. ASSUME NEW i \in DOMAIN more, NEW j \in DOMAIN more, j # i PROVE more[j] # more[i]
  <2>1. CASE i \in DOMAIN queue /\ j \in DOMAIN queue
    BY <1>2, <1>6, <2>1 DEF Waiting
  <2>2. CASE i \in DOMAIN queue /\ j = n + 1
    BY <1>2, <1>3, <2>2
  <2>3. CASE i = n + 1 /\ j \in DOMAIN queue
    BY <1>2, <1>3, <2>3
  <2> QED BY <1>4, <1>6, <2>1, <2>2, <2>3
<1>7. ASSUME NEW d \in Tests
      PROVE  /\ next[d] <= Len(VapiTests[d])
             /\ next[d] = -1 => /\ sent[d] = << >> /\ (\A i \in DOMAIN more : more[i] # d)
                                /\ \A f \in VapiFds : open[f] # d
  <2>1. CASE d = c
    BY <1>0, <1>1, <2>1
  <2>2. CASE d # c
    <3>1. next[d] = left[d]
      BY <1>1, <2>2
    <3>2. /\ left[d] <= Len(VapiTests[d])
          /\ left[d] = -1 => /\ sent[d] = << >> /\ (\A i \in DOMAIN queue : queue[i] # d)
                             /\ \A f \in VapiFds : open[f] # d
      BY DEF Waiting
    <3>3. left[d] = -1 => \A i \in DOMAIN more : more[i] # d
      BY <1>2, <1>4, <2>2, <3>2
    <3> QED BY <3>1, <3>2, <3>3
  <2> QED BY <2>1, <2>2
<1>8. Waiting(more, open, sent, next)
  BY <1>5, <1>6, <1>7 DEF Waiting
<1> QED BY <1>1, <1>2, <1>8 DEF more, next

(* A test sends the next of what it has to send.                           *)
OneLess(left, c) == [left EXCEPT ![c] = left[c] - 1]
OneSent(sent, left, c) ==
  [sent EXCEPT ![c] = Append(sent[c], VapiTests[c][Len(VapiTests[c]) + 1 - left[c]])]

(* A packet sent is the next of the test's own.                            *)
LEMMA SendingKeeps ==
  ASSUME NEW queue \in Seq(Tests), NEW open, NEW sent \in [Tests -> Seq(Nat)],
         NEW left \in [Tests -> Int], Waiting(queue, open, sent, left), NEW c \in Tests, left[c] > 0
  PROVE  /\ Waiting(queue, open, OneSent(sent, left, c), OneLess(left, c))
         /\ OneSent(sent, left, c) \in [Tests -> Seq(Nat)] /\ OneLess(left, c) \in [Tests -> Int]
<1> DEFINE less == OneLess(left, c)
           n == Len(VapiTests[c])
           e == VapiTests[c][n + 1 - left[c]]
           next == OneSent(sent, left, c)
<1>0. n \in Nat /\ VapiTests[c] \in Seq(Nat)
  BY VapiAssumption DEF Tests
<1>1. left[c] \in Int /\ left[c] <= n
  BY DEF Waiting
<1>2. e \in Nat
  <2>1. n + 1 - left[c] \in 1 .. n
    BY <1>0, <1>1
  <2> QED BY <1>0, <2>1
<1>3. /\ less \in [Tests -> Int] /\ less[c] = left[c] - 1
      /\ \A d \in Tests : d # c => less[d] = left[d]
  BY <1>1 DEF OneLess
<1>4. next = [sent EXCEPT ![c] = Append(sent[c], e)]
  BY DEF OneSent
<1>5. left[c] = n => e = VapiTests[c][1]
  BY <1>0
<1> HIDE DEF less, n, e, next
<1>6. /\ next \in [Tests -> Seq(Nat)] /\ next[c] = Append(sent[c], e)
      /\ \A d \in Tests : d # c => next[d] = sent[d]
  BY <1>2, <1>4
<1>7. sent[c] \in Seq(Nat)
  OBVIOUS
<1>8. ASSUME NEW i \in DOMAIN queue PROVE FirstIsId(next, less, queue[i])
  <2>1. FirstIsId(sent, left, queue[i]) /\ queue[i] \in Tests
    BY DEF Waiting
  <2>2. CASE queue[i] # c
    BY <1>3, <1>6, <2>1, <2>2 DEF FirstIsId
  <2>3. CASE queue[i] = c
    <3>1. Append(sent[c], e) # << >>
      <4>1. Len(Append(sent[c], e)) = Len(sent[c]) + 1 /\ Len(sent[c]) \in Nat
        BY <1>2, <1>7
      <4>2. Len(Append(sent[c], e)) # 0 /\ Len(<< >>) = 0
        BY <4>1
      <4> QED BY <4>2
    <3>2. Head(Append(sent[c], e)) = VapiTests[c][1]
      <4>1. CASE sent[c] = << >>
        <5>1. e = VapiTests[c][1]
          BY <1>5, <2>1, <2>3, <4>1 DEF FirstIsId, n
        <5> QED BY <4>1, <5>1
      <4>2. CASE sent[c] # << >>
        <5>1. Head(sent[c]) = VapiTests[c][1]
          BY <2>1, <2>3, <4>2 DEF FirstIsId
        <5>2. Head(Append(sent[c], e)) = Head(sent[c])
          BY <1>2, <1>7, <4>2
        <5> QED BY <5>1, <5>2
      <4> QED BY <4>1, <4>2
    <3> QED BY <1>6, <2>3, <3>1, <3>2 DEF FirstIsId
  <2> QED BY <2>2, <2>3
<1>9. ASSUME NEW d \in Tests
      PROVE  /\ less[d] <= Len(VapiTests[d])
             /\ less[d] = -1 => /\ next[d] = << >> /\ (\A i \in DOMAIN queue : queue[i] # d)
                                /\ \A f \in VapiFds : open[f] # d
  <2>1. CASE d = c
    BY <1>0, <1>1, <1>3, <2>1 DEF n
  <2>2. CASE d # c
    BY <1>3, <1>6, <2>2 DEF Waiting
  <2> QED BY <2>1, <2>2
<1>10. Waiting(queue, open, next, less)
  BY <1>8, <1>9 DEF Waiting
<1> QED BY <1>3, <1>6, <1>10 DEF less, next

(* Steps that leave the handlers, the sockets and the tests alone.         *)
LEMMA VapiSame ==
  ASSUME NEW s, VapiInv(s), NEW t, DOMAIN t = VapiFields,
         \A f \in VapiFields \ {"pc", "at", "alive", "closed", "accept", "revents"} : t[f] = s[f],
         t.revents \subseteq {i \in DOMAIN s.handlers : s.handlers[i].fd # 0},
         t.pc = "walk" /\ t.accept => s.queue # << >>
  PROVE  VapiInv(t)
<1>1. /\ t.kind = s.kind /\ t.handlers = s.handlers /\ t.open = s.open
      /\ t.SigpipeIgnored = s.SigpipeIgnored /\ t.queue = s.queue /\ t.sent = s.sent
      /\ t.left = s.left /\ t.heard = s.heard
  BY DEF VapiFields
<1>2. VapiTypes(t)
  BY <1>1 DEF VapiInv, VapiTypes
<1> QED BY <1>1, <1>2 DEF VapiInv

(* vapi_send() at most closes a socket, if SIGPIPE is ignored.             *)
LEMMA SendIs ==
  ASSUME NEW s, NEW id, NEW t \in vapi_send(s, id)
  PROVE  \/ t = s \/ t = [s EXCEPT !.alive = FALSE]
         \/ s.SigpipeIgnored /\ \E fd : t = [s EXCEPT !.open = Closed(s.open, fd)]
<1> DEFINE h == find_handler(s.handlers, id)
           fd == s.handlers[h].fd
<1>1. t = s \/ t = IF s.SigpipeIgnored THEN CloseFd(s, fd) ELSE [s EXCEPT !.alive = FALSE]
  BY DEF vapi_send
<1> HIDE DEF fd
<1>2. CloseFd(s, fd) = [s EXCEPT !.open = Closed(s.open, fd)]
  BY DEF CloseFd, Closed
<1> QED BY <1>1, <1>2

(* vapi_send() keeps the invariant, whether the peer is there or not.      *)
LEMMA SendKeeps ==
  ASSUME NEW s, VapiInv(s), NEW id, NEW t \in vapi_send(s, id)
  PROVE  VapiInv(t)
<1>0. DOMAIN s = VapiFields /\ VapiTypes(s)
  BY DEF VapiInv, VapiTypes
<1>1. CASE t = s
  BY <1>1
<1>2. CASE t = [s EXCEPT !.alive = FALSE]
  <2>1. DOMAIN t = VapiFields /\ \A f \in VapiFields \ {"alive"} : t[f] = s[f]
    BY <1>0, <1>2 DEF VapiFields
  <2>2. t.revents = s.revents /\ t.pc = s.pc /\ t.accept = s.accept
    BY <2>1 DEF VapiFields
  <2>3. /\ t.revents \subseteq {i \in DOMAIN s.handlers : s.handlers[i].fd # 0}
        /\ t.pc = "walk" /\ t.accept => s.queue # << >>
    BY <1>0, <2>2 DEF VapiTypes
  <2> QED BY <2>1, <2>3, VapiSame
<1>3. ASSUME s.SigpipeIgnored, NEW fd, t = [s EXCEPT !.open = Closed(s.open, fd)]
      PROVE  VapiInv(t)
  <2> DEFINE next == Closed(s.open, fd)
  <2>1. /\ next \in [VapiFds -> Tests \cup {NoClient}] /\ NoneLeaks(s.handlers, next)
        /\ Waiting(s.queue, next, s.sent, s.left)
    <3>1. /\ s.open \in [VapiFds -> Tests \cup {NoClient}] /\ NoneLeaks(s.handlers, s.open)
          /\ s.queue \in Seq(Tests) /\ Waiting(s.queue, s.open, s.sent, s.left)
      BY DEF VapiInv, VapiTypes
    <3> QED BY <3>1, ClosedIs, CloseWaits
  <2> HIDE DEF next
  <2>2. DOMAIN t = VapiFields /\ t.open = next /\ \A f \in VapiFields \ {"open"} : t[f] = s[f]
    BY <1>0, <1>3 DEF VapiFields, next
  <2>3. /\ t.kind = s.kind /\ t.handlers = s.handlers /\ t.revents = s.revents /\ t.pc = s.pc
        /\ t.SigpipeIgnored = s.SigpipeIgnored /\ t.queue = s.queue /\ t.sent = s.sent
        /\ t.left = s.left /\ t.heard = s.heard /\ t.accept = s.accept
    BY <2>2 DEF VapiFields
  <2>4. VapiTypes(t)
    BY <1>0, <2>1, <2>2, <2>3 DEF VapiTypes
  <2> QED BY <1>3, <2>1, <2>2, <2>3, <2>4 DEF VapiInv
<1> QED BY <1>1, <1>2, <1>3, SendIs

(* Two devices that are apart share no id.                                 *)
LEMMA ApartShareNone ==
  ASSUME NEW i \in Devices, NEW j \in Devices, Apart(i), NEW id \in Nat,
         handler_fits_id(VapiDevices[i], id), handler_fits_id(VapiDevices[j], id)
  PROVE  i = j
<1> SUFFICES ASSUME i # j PROVE FALSE
  OBVIOUS
<1>1. /\ ~handler_fits_id(VapiDevices[i], VapiDevices[j].base)
      /\ ~handler_fits_id(VapiDevices[j], VapiDevices[i].base)
  BY DEF Apart, Devices
<1>2. /\ VapiDevices[i].base \in Nat /\ VapiDevices[i].num \in Nat
      /\ VapiDevices[j].base \in Nat /\ VapiDevices[j].num \in Nat
  BY DevicesCounted
<1> QED BY <1>1, <1>2 DEF handler_fits_id

(* A handler that has the first id of a device that is apart has that      *)
(* device's ids, and serves it.                                            *)
LEMMA OwnHandler ==
  ASSUME NEW h \in Handlers, NEW i \in Devices, Apart(i), NEW id \in Nat,
         handler_fits_id(VapiDevices[i], id), handler_fits_id(h, id) \/ handler_fits_id(h, Base(i))
  PROVE  handler_fits_id(h, id) /\ h.to = i
<1>1. PICK d \in Devices : h.base = VapiDevices[d].base /\ h.num = VapiDevices[d].num
  BY HandlerIs
<1>2. \A n \in Nat : handler_fits_id(h, n) <=> handler_fits_id(VapiDevices[d], n)
  BY <1>1 DEF handler_fits_id
<1>3. Base(i) \in Nat /\ handler_fits_id(VapiDevices[i], Base(i)) /\ h.to \in Devices
      /\ handler_fits_id(h, Base(h.to)) /\ Base(h.to) \in Nat
  BY DevicesCounted, HandlerIs
<1>4. d = i
  BY <1>2, <1>3, ApartShareNone
<1>5. h.to = i
  BY <1>2, <1>3, <1>4 DEF Apart, Base, Devices
<1> QED BY <1>2, <1>4, <1>5

(* A packet reaches the device that has its id.                            *)
LEMMA DeliverIs ==
  ASSUME NEW s, s.handlers \in Seq(Handlers), AllInstalled(s.handlers), NEW t \in DOMAIN s.handlers,
         NEW id \in Nat
  PROVE  Deliver(s, t, id) \in Nat /\ HeardRight(id, Deliver(s, t, id))
<1> DEFINE list == s.handlers
           f == find_handler(list, id)
           h == IF handler_fits_id(list[t], id) THEN t ELSE f
           to == Deliver(s, t, id)
<1>1. \/ f = 0 /\ \A i \in DOMAIN list : ~handler_fits_id(list[i], id)
      \/ f \in DOMAIN list /\ handler_fits_id(list[f], id)
  BY FindIs
<1>2. \A i \in DOMAIN list : list[i] \in Handlers /\ i # 0
  OBVIOUS
<1>3. to = IF h = 0 THEN 0 ELSE list[h].to
  BY DEF Deliver
<1>4. t \in DOMAIN list
  OBVIOUS
<1>5. \/ h = 0 /\ \A i \in DOMAIN list : ~handler_fits_id(list[i], id)
      \/ h \in DOMAIN list /\ handler_fits_id(list[h], id)
  <2> HIDE DEF f, list
  <2> QED BY <1>1, <1>4
<1> HIDE DEF f, h, to
<1>6. CASE h = 0
  <2>1. to = 0 /\ \A i \in DOMAIN list : ~handler_fits_id(list[i], id)
    BY <1>2, <1>3, <1>5, <1>6
  <2>2. ASSUME Owners(id) # {}, \A i \in Owners(id) : Apart(i) PROVE FALSE
    <3>1. PICK i \in Devices : handler_fits_id(VapiDevices[i], id) /\ Apart(i)
      BY <2>2 DEF Owners
    <3>2. PICK k \in DOMAIN list : handler_fits_id(list[k], Base(i))
      BY DEF AllInstalled, Fitting
    <3>3. handler_fits_id(list[k], id)
      BY <1>2, <3>1, <3>2, OwnHandler
    <3> QED BY <2>1, <3>3
  <2> QED BY <2>1, <2>2 DEF to, HeardRight
<1>7. CASE h # 0
  <2>1. /\ list[h] \in Handlers /\ handler_fits_id(list[h], id) /\ to = list[h].to
        /\ to \in Devices
    BY <1>2, <1>3, <1>5, <1>7, HandlerIs
  <2> HIDE DEF list
  <2>2. PICK d \in Devices : list[h].base = VapiDevices[d].base /\ list[h].num = VapiDevices[d].num
    BY <2>1, HandlerIs
  <2>3. d \in Owners(id)
    BY <2>1, <2>2 DEF Owners, handler_fits_id
  <2>4. ASSUME \A i \in Owners(id) : Apart(i) PROVE Owners(id) = {to}
    <3>1. \A i \in Owners(id) : i \in Devices /\ handler_fits_id(VapiDevices[i], id) /\ Apart(i)
      BY <2>4 DEF Owners
    <3>2. \A i \in Owners(id) : to = i
      BY <2>1, <3>1, OwnHandler
    <3> QED BY <2>3, <3>2
  <2> QED BY <2>1, <2>3, <2>4, DevicesCounted DEF to, HeardRight
<1> QED BY <1>6, <1>7

(* vapi_request(): a packet is read, or the connection ends.               *)
LEMMA RequestKeeps ==
  ASSUME NEW s, VapiInv(s), NEW t \in s.revents, NEW r \in vapi_request(s, t)
  PROVE  VapiInv(r)
<1> DEFINE list == s.handlers
           fd == list[t].fd
           c == s.open[fd]
<1>0. /\ VapiTypes(s) /\ DOMAIN s = VapiFields /\ list \in Seq(Handlers) /\ t \in DOMAIN list
      /\ fd # 0 /\ s.open \in [VapiFds -> Tests \cup {NoClient}] /\ s.queue \in Seq(Tests)
      /\ s.sent \in [Tests -> Seq(Nat)] /\ s.heard \in Seq(Nat \X Nat)
  BY DEF VapiInv, VapiTypes
<1>1. fd \in VapiFds
  <2>1. list[t] \in Handlers
    BY <1>0
  <2> QED BY <1>0, <2>1, TestsCounted DEF Handlers
<1>2. CASE c # NoClient /\ s.sent[c] # << >>
  <2> DEFINE id == Head(s.sent[c])
             to == Deliver(s, t, id)
             next == OneRead(s.sent, c)
             more == Append(s.heard, <<id, to>>)
             u == [s EXCEPT !.sent = next, !.heard = more]
  <2>1. r \in IF to \in VapiAnswers THEN vapi_send(u, Base(to)) ELSE {u}
    BY <1>2 DEF vapi_request, OneRead, Base
  <2>2. c \in Tests
    BY <1>0, <1>1, <1>2
  <2>3. next \in [Tests -> Seq(Nat)] /\ id \in Nat
    BY <1>0, <1>2, <2>2, OneReadIs
  <2>4. Waiting(s.queue, s.open, next, s.left)
    BY <1>0, <1>1, <1>2, <2>2, ReadWaits DEF VapiInv
  <2>5. AllInstalled(list)
    BY <1>0 DEF VapiInv
  <2>6. to \in Nat /\ HeardRight(id, to)
    BY <1>0, <2>3, <2>5, DeliverIs
  <2> HIDE DEF next, id, to
  <2>7. more \in Seq(Nat \X Nat) /\ RightHeard(more)
    <3> DEFINE e == <<id, to>>
    <3>1. e \in Nat \X Nat /\ e[1] = id /\ e[2] = to
      BY <2>3, <2>6
    <3> HIDE DEF e
    <3>2. /\ Append(s.heard, e) \in Seq(Nat \X Nat)
          /\ DOMAIN Append(s.heard, e) = 1 .. Len(s.heard) + 1 /\ DOMAIN s.heard = 1 .. Len(s.heard)
          /\ Append(s.heard, e)[Len(s.heard) + 1] = e
          /\ \A k \in DOMAIN s.heard : Append(s.heard, e)[k] = s.heard[k]
      BY <1>0, <3>1, SMTT(30)
    <3>3. RightHeard(s.heard)
      BY DEF VapiInv
    <3>4. Len(s.heard) \in Nat
      BY <1>0
    <3>5. RightHeard(Append(s.heard, e))
      <4> DEFINE q == Append(s.heard, e)
      <4> SUFFICES ASSUME NEW k \in DOMAIN q
                   PROVE  HeardRight(q[k][1], q[k][2])
        BY DEF RightHeard
      <4>1. k \in DOMAIN s.heard \/ k = Len(s.heard) + 1
        BY <3>2, <3>4, SMTT(30)
      <4>2. CASE k \in DOMAIN s.heard
        BY <3>2, <3>3, <4>2 DEF RightHeard
      <4>3. CASE k = Len(s.heard) + 1
        BY <2>6, <3>1, <3>2, <4>3
      <4> QED BY <4>1, <4>2, <4>3
    <3> QED BY <3>2, <3>5 DEF e
  <2> HIDE DEF more, list, fd, c
  <2>8. DOMAIN u = VapiFields /\ u.sent = next /\ u.heard = more
        /\ \A f \in VapiFields \ {"sent", "heard"} : u[f] = s[f]
    BY <1>0 DEF VapiFields
  <2> HIDE DEF u
  <2>9. /\ u.kind = s.kind /\ u.handlers = s.handlers /\ u.revents = s.revents /\ u.pc = s.pc
        /\ u.SigpipeIgnored = s.SigpipeIgnored /\ u.queue = s.queue /\ u.open = s.open
        /\ u.left = s.left /\ u.accept = s.accept
    BY <2>8 DEF VapiFields
  <2>10. VapiTypes(u)
    BY <1>0, <2>3, <2>7, <2>8, <2>9 DEF VapiTypes
  <2>11. NoneLeaks(u.handlers, u.open) /\ (~u.SigpipeIgnored => EachOwns(u.handlers, u.open))
    BY <2>9 DEF VapiInv
  <2>12. VapiInv(u)
    BY <2>4, <2>5, <2>7, <2>8, <2>9, <2>10, <2>11 DEF VapiInv, list
  <2> QED BY <2>1, <2>12, SendKeeps
<1>3. CASE ~(c # NoClient /\ s.sent[c] # << >>)
  <2> DEFINE new == WithFd(list, t, 0)
             next == Closed(s.open, fd)
             u == [s EXCEPT !.open = next, !.handlers = new, !.revents = {}, !.accept = FALSE]
  <2>1. r = [CloseFd(s, fd) EXCEPT !.handlers[t].fd = 0, !.revents = {}, !.accept = FALSE]
    BY <1>3 DEF vapi_request
  <2>2. CloseFd(s, fd) = [s EXCEPT !.open = next]
    BY DEF CloseFd, Closed
  <2>3. new \in Seq(Handlers) /\ DOMAIN new = DOMAIN list
        /\ \A i \in DOMAIN list, id \in Nat : handler_fits_id(list[i], id) => handler_fits_id(new[i], id)
    BY <1>0, WithFdIs, TestsCounted
  <2>4. next \in [VapiFds -> Tests \cup {NoClient}] /\ Waiting(s.queue, next, s.sent, s.left)
    <3>1. NoneLeaks(s.handlers, s.open) /\ Waiting(s.queue, s.open, s.sent, s.left)
      BY DEF VapiInv
    <3> QED BY <1>0, <3>1, ClosedIs, CloseWaits
  <2>5. NoneLeaks(new, next) /\ (~s.SigpipeIgnored => EachOwns(new, next))
    <3>1. NoneLeaks(s.handlers, s.open) /\ (~s.SigpipeIgnored => EachOwns(s.handlers, s.open))
      BY DEF VapiInv
    <3> QED BY <1>0, <3>1, DropKeeps
  <2>6. (s.handlers = << >> /\ s.heard = << >>) \/ AllInstalled(new)
    BY <2>3, DevicesCounted DEF VapiInv, AllInstalled, Fitting
  <2>6a. AllInstalled(new)
    BY <1>0, <2>6
  <2> HIDE DEF next
  <2>7. DOMAIN r = VapiFields /\ r.open = next /\ r.handlers = new /\ r.revents = {} /\ r.accept = FALSE
        /\ \A f \in VapiFields \ {"open", "handlers", "revents", "accept"} : r[f] = s[f]
    <3> DEFINE v == [s EXCEPT !.open = next]
    <3>1. DOMAIN v = VapiFields /\ v.open = next /\ v.handlers = list
          /\ \A f \in VapiFields \ {"open"} : v[f] = s[f]
      BY <1>0 DEF VapiFields
    <3> HIDE DEF v
    <3>2. r = [v EXCEPT !.handlers = [v.handlers EXCEPT ![t].fd = 0], !.revents = {}, !.accept = FALSE]
      BY <2>1, <2>2 DEF v
    <3>3. new = [v.handlers EXCEPT ![t].fd = 0]
      BY <3>1 DEF WithFd
    <3> HIDE DEF new, list, fd, c
    <3>4. r = [v EXCEPT !.handlers = new, !.revents = {}, !.accept = FALSE]
      BY <3>2, <3>3
    <3> QED BY <3>1, <3>4 DEF VapiFields
  <2> HIDE DEF new, list, fd, c
  <2>8. /\ r.kind = s.kind /\ r.pc = s.pc /\ r.sent = s.sent
        /\ r.SigpipeIgnored = s.SigpipeIgnored /\ r.queue = s.queue
        /\ r.left = s.left /\ r.heard = s.heard
    BY <2>7 DEF VapiFields
  <2>9. VapiTypes(r)
    BY <1>0, <2>3, <2>4, <2>7, <2>8 DEF VapiTypes
  <2>10. RightHeard(r.heard)
    BY <2>8 DEF VapiInv
  <2> QED BY <2>4, <2>5, <2>6a, <2>7, <2>8, <2>9, <2>10 DEF VapiInv
<1> QED BY <1>2, <1>3

(* A test is accepted, or refused.                                         *)
LEMMA ServerKeeps ==
  ASSUME NEW s, VapiInv(s), s.queue # << >>, NEW c, c = Head(s.queue), NEW fd \in VapiFds,
         s.open[fd] = NoClient,
         NEW r, r = [server_request(s, c, fd) EXCEPT !.queue = Tail(s.queue), !.pc = "check"]
  PROVE  VapiInv(r)
<1> DEFINE list == s.handlers
           t == find_handler(list, Head(s.sent[c]))
           rest == Tail(s.queue)
<1>0. /\ VapiTypes(s) /\ DOMAIN s = VapiFields /\ list \in Seq(Handlers)
      /\ s.open \in [VapiFds -> Tests \cup {NoClient}] /\ s.queue \in Seq(Tests)
      /\ s.sent \in [Tests -> Seq(Nat)]
      /\ s.revents \subseteq {i \in DOMAIN list : list[i].fd # 0}
  BY DEF VapiInv, VapiTypes
<1>1. rest \in Seq(Tests) /\ c \in Tests /\ c = s.queue[1] /\ 1 \in DOMAIN s.queue
  BY <1>0, TailOf
<1>2. /\ NoneLeaks(list, s.open) /\ (~s.SigpipeIgnored => EachOwns(list, s.open))
      /\ Waiting(s.queue, s.open, s.sent, s.left) /\ RightHeard(s.heard)
  BY DEF VapiInv
<1>3. ASSUME r = [s EXCEPT !.queue = rest, !.pc = "check"] PROVE VapiInv(r)
  <2>1. Waiting(rest, s.open, s.sent, s.left)
    BY <1>0, <1>2, RefuseKeeps
  <2> HIDE DEF list, t, rest
  <2>2. DOMAIN r = VapiFields /\ r.queue = rest /\ r.pc = "check"
        /\ \A f \in VapiFields \ {"queue", "pc"} : r[f] = s[f]
    BY <1>0, <1>3 DEF VapiFields
  <2>3. /\ r.kind = s.kind /\ r.handlers = s.handlers /\ r.revents = s.revents /\ r.open = s.open
        /\ r.SigpipeIgnored = s.SigpipeIgnored /\ r.sent = s.sent
        /\ r.left = s.left /\ r.heard = s.heard
    BY <2>2 DEF VapiFields
  <2>4. VapiTypes(r)
    BY <1>0, <1>1, <2>2, <2>3 DEF VapiTypes
  <2> QED BY <1>2, <2>1, <2>2, <2>3, <2>4 DEF VapiInv, list
<1>4. CASE s.sent[c] = << >>
  <2>1. server_request(s, c, fd) = s
    BY <1>4 DEF server_request
  <2> QED BY <1>3, <2>1
<1>5. CASE s.sent[c] # << >> /\ (t = 0 \/ list[t].fd # 0)
  <2>1. server_request(s, c, fd) = s
    BY <1>5 DEF server_request
  <2> QED BY <1>3, <2>1
<1>6. CASE s.sent[c] # << >> /\ ~(t = 0 \/ list[t].fd # 0)
  <2> DEFINE new == WithFd(list, t, fd)
             opened == NowOpen(s.open, fd, c)
             next == OneRead(s.sent, c)
             u == [s EXCEPT !.handlers = new, !.open = opened, !.sent = next]
  <2>1. server_request(s, c, fd) = u
    BY <1>6 DEF server_request, WithFd, NowOpen, OneRead
  <2>2. t \in DOMAIN list /\ handler_fits_id(list[t], Head(s.sent[c])) /\ list[t].fd = 0
    BY <1>0, <1>6, FindIs
  <2>3. handler_fits_id(list[t], VapiTests[c][1]) /\ VapiTests[c][1] \in Nat
    <3>1. FirstIsId(s.sent, s.left, c)
      BY <1>1, <1>2 DEF Waiting
    <3>2. VapiTests[c][1] = Head(s.sent[c])
      BY <1>6, <3>1 DEF FirstIsId
    <3>3. Head(s.sent[c]) \in Nat
      BY <1>0, <1>1, <1>6, OneReadIs
    <3> QED BY <2>2, <3>2, <3>3
  <2>4. /\ new \in Seq(Handlers) /\ DOMAIN new = DOMAIN list /\ new[t].fd = fd
        /\ (\A i \in DOMAIN list, id \in Nat :
              handler_fits_id(new[i], id) <=> handler_fits_id(list[i], id))
        /\ \A i \in DOMAIN list : i # t => new[i] = list[i]
    <3>1. fd \in 0 .. VAPI_MAX_FD
      BY TestsCounted
    <3> HIDE DEF t, list
    <3> QED BY <1>0, <2>2, <3>1, WithFdIs
  <2>5. opened \in [VapiFds -> Tests \cup {NoClient}] /\ next \in [Tests -> Seq(Nat)]
    <3>1. opened \in [VapiFds -> Tests \cup {NoClient}]
      BY <1>0, <1>1 DEF NowOpen
    <3> QED BY <1>0, <1>1, <1>6, <3>1, OneReadIs
  <2>6. Waiting(rest, opened, next, s.left)
    BY <1>0, <1>2, <1>6, AcceptKeeps
  <2>7. NoneLeaks(new, opened) /\ (~s.SigpipeIgnored => EachOwns(new, opened))
    BY <1>0, <1>1, <1>2, <2>2, <2>3, AcceptOwns
  <2>8. AllInstalled(new)
    <3>1. AllInstalled(list)
      <4>1. list # << >>
        BY <2>2
      <4> QED BY <4>1 DEF VapiInv
    <3> QED BY <2>4, <3>1, DevicesCounted DEF AllInstalled, Fitting
  <2>9. s.revents \subseteq {i \in DOMAIN new : new[i].fd # 0}
    <3>1. fd # 0
      BY TestsCounted
    <3>2. ASSUME NEW i \in DOMAIN list, list[i].fd # 0 PROVE new[i].fd # 0
      BY <2>2, <2>4, <3>1, <3>2
    <3> HIDE DEF new, list, t
    <3> QED BY <1>0, <2>4, <3>2
  <2> HIDE DEF new, opened, next, list, t, rest
  <2>10. DOMAIN u = VapiFields /\ u.handlers = new /\ u.open = opened /\ u.sent = next
         /\ \A f \in VapiFields \ {"handlers", "open", "sent"} : u[f] = s[f]
    BY <1>0 DEF VapiFields
  <2>11. r = [u EXCEPT !.queue = rest, !.pc = "check"]
    BY <2>1 DEF rest
  <2> HIDE DEF u
  <2>12. DOMAIN r = VapiFields /\ r.queue = rest /\ r.pc = "check"
         /\ \A f \in VapiFields \ {"queue", "pc"} : r[f] = u[f]
    BY <2>10, <2>11 DEF VapiFields
  <2>13. /\ r.kind = s.kind /\ r.handlers = new /\ r.revents = s.revents /\ r.open = opened
         /\ r.SigpipeIgnored = s.SigpipeIgnored /\ r.sent = next
         /\ r.left = s.left /\ r.heard = s.heard
    BY <2>10, <2>12 DEF VapiFields
  <2>14. VapiTypes(r)
    BY <1>0, <1>1, <2>4, <2>5, <2>9, <2>12, <2>13 DEF VapiTypes
  <2> QED BY <1>2, <2>6, <2>7, <2>8, <2>12, <2>13, <2>14 DEF VapiInv
<1> QED BY <1>4, <1>5, <1>6

(* The handlers are installed.                                             *)
LEMMA ResetInv ==
  ASSUME NEW s, VapiInv(s)
  PROVE  VapiInv(VapiReset(s))
<1> DEFINE r == VapiReset(s)
<1>0. /\ VapiTypes(s) /\ DOMAIN s = VapiFields /\ s.handlers \in Seq(Handlers)
      /\ s.open \in [VapiFds -> Tests \cup {NoClient}]
  BY DEF VapiInv, VapiTypes
<1>1. PICK new : /\ r = [s EXCEPT !.handlers = new, !.revents = {}]
                 /\ Extends(new, s.handlers) /\ AllInstalled(new)
  BY <1>0, ResetIs
<1>2. /\ NoneLeaks(new, s.open) /\ (~s.SigpipeIgnored => EachOwns(new, s.open))
      /\ new \in Seq(Handlers)
  <2>1. NoneLeaks(s.handlers, s.open) /\ (~s.SigpipeIgnored => EachOwns(s.handlers, s.open))
    BY DEF VapiInv
  <2> QED BY <1>0, <1>1, <2>1, ResetKeeps DEF Extends
<1> HIDE DEF r
<1>3. DOMAIN r = VapiFields /\ r.handlers = new /\ r.revents = {}
      /\ \A f \in VapiFields \ {"handlers", "revents"} : r[f] = s[f]
  BY <1>0, <1>1 DEF VapiFields
<1>4. /\ r.kind = s.kind /\ r.open = s.open /\ r.queue = s.queue /\ r.pc = s.pc
      /\ r.SigpipeIgnored = s.SigpipeIgnored /\ r.sent = s.sent /\ r.accept = s.accept
      /\ r.left = s.left /\ r.heard = s.heard
  BY <1>3 DEF VapiFields
<1>5. VapiTypes(r)
  BY <1>0, <1>2, <1>3, <1>4 DEF VapiTypes
<1>6. VapiInv(r)
  BY <1>1, <1>2, <1>3, <1>4, <1>5 DEF VapiInv
<1> QED BY <1>6 DEF r

(* The server starts in the invariant.                                     *)
LEMMA VapiInvInit == VapiInit => VapiInv(dev)
<1> SUFFICES ASSUME VapiInit PROVE VapiInv(dev)
  OBVIOUS
<1> DEFINE O == [f \in VapiFds |-> NoClient]
           S == [c \in DOMAIN VapiTests |-> << >>]
           L == [c \in DOMAIN VapiTests |-> -1]
           C == [c \in DOMAIN VapiTests |-> FALSE]
           I(g) == [kind |-> "vapi", handlers |-> << >>, revents |-> {}, accept |-> FALSE,
                    open |-> O, pc |-> "run", at |-> 0, alive |-> TRUE, SigpipeIgnored |-> g,
                    queue |-> << >>, sent |-> S, left |-> L, closed |-> C, heard |-> << >>]
<1>1. PICK g \in BOOLEAN : dev = VapiStart(I(g))
  BY DEF VapiInit
<1>2. /\ O \in [VapiFds -> Tests \cup {NoClient}] /\ S \in [Tests -> Seq(Nat)]
      /\ L \in [Tests -> Int]
  BY DEF Tests
<1>3. /\ \A f \in VapiFds : O[f] = NoClient
      /\ \A c \in Tests : S[c] = << >> /\ L[c] = -1 /\ Len(VapiTests[c]) \in Nat
  BY VapiAssumption DEF Tests
<1> DEFINE s == I(g)
<1>4. /\ DOMAIN s = VapiFields /\ s.kind = "vapi" /\ s.handlers = << >> /\ s.open = O
      /\ s.queue = << >> /\ s.sent = S /\ s.left = L /\ s.heard = << >> /\ s.pc = "run"
  BY DEF VapiFields
<1> HIDE DEF O, S, L, C, s
<1>5. s.handlers \in Seq(Handlers) /\ << >> \in Seq(Tests) /\ << >> \in Seq(Nat \X Nat)
      /\ DOMAIN << >> = {}
  BY <1>4
<1>6. PICK new : VapiReset(s) = [s EXCEPT !.handlers = new, !.revents = {}]
  BY <1>5, ResetIs
<1>7. dev = [[s EXCEPT !.handlers = new, !.revents = {}] EXCEPT !.handlers = << >>, !.revents = {}]
  BY <1>1, <1>6 DEF VapiStart, vapi_init, s
<1>8. DOMAIN dev = VapiFields /\ dev.handlers = << >> /\ dev.revents = {}
      /\ \A f \in VapiFields \ {"handlers", "revents"} : dev[f] = s[f]
  BY <1>4, <1>7 DEF VapiFields
<1>9. /\ dev.kind = "vapi" /\ dev.open = O /\ dev.queue = << >> /\ dev.sent = S /\ dev.left = L
      /\ dev.heard = << >> /\ dev.pc = "run"
  BY <1>4, <1>8 DEF VapiFields
<1>10. VapiTypes(dev)
  BY <1>2, <1>4, <1>5, <1>8, <1>9 DEF VapiTypes
<1>11. Waiting(<< >>, O, S, L)
  BY <1>3, <1>5, TestsCounted DEF Waiting
<1>12. NoneLeaks(<< >>, O) /\ EachOwns(<< >>, O) /\ RightHeard(<< >>)
  BY <1>3, <1>5 DEF NoneLeaks, EachOwns, RightHeard
<1> QED BY <1>8, <1>9, <1>10, <1>11, <1>12 DEF VapiInv

(* Every step of the tests and of the server.                              *)
LEMMA VapiStep ==
  ASSUME VapiInv(dev), [VapiNext]_dev
  PROVE  VapiInv(dev')
<1>0. /\ VapiTypes(dev) /\ DOMAIN dev = VapiFields /\ dev.queue \in Seq(Tests)
      /\ dev.sent \in [Tests -> Seq(Nat)] /\ dev.left \in [Tests -> Int]
      /\ dev.revents \subseteq {i \in DOMAIN dev.handlers : dev.handlers[i].fd # 0}
      /\ dev.pc = "walk" /\ dev.accept => dev.queue # << >>
  BY DEF VapiInv, VapiTypes
<1>1. CASE TestConnect
  <2>1. PICK c \in Tests : /\ dev.left[c] = -1
                           /\ dev' = [dev EXCEPT !.left = Asked(dev.left, c), !.queue = Append(dev.queue, c)]
    BY <1>1 DEF TestConnect, Tests, Asked
  <2> DEFINE next == Asked(dev.left, c)
             more == Append(dev.queue, c)
  <2>2. Waiting(more, dev.open, dev.sent, next) /\ next \in [Tests -> Int] /\ more \in Seq(Tests)
    BY <1>0, <2>1, ConnectWaits DEF VapiInv
  <2>3. more # << >>
    BY <1>0
  <2> HIDE DEF next, more
  <2>4. DOMAIN dev' = VapiFields /\ dev'.left = next /\ dev'.queue = more
        /\ \A f \in VapiFields \ {"left", "queue"} : dev'[f] = dev[f]
    BY <1>0, <2>1 DEF VapiFields, next, more
  <2>5. /\ dev'.kind = dev.kind /\ dev'.handlers = dev.handlers /\ dev'.revents = dev.revents
        /\ dev'.open = dev.open /\ dev'.SigpipeIgnored = dev.SigpipeIgnored /\ dev'.sent = dev.sent
        /\ dev'.heard = dev.heard
    BY <2>4 DEF VapiFields
  <2>6. VapiTypes(dev')
    BY <1>0, <2>2, <2>3, <2>4, <2>5 DEF VapiTypes
  <2> QED BY <2>2, <2>4, <2>5, <2>6 DEF VapiInv
<1>2. CASE TestSend
  <2>0. PICK c \in Tests :
          /\ dev.left[c] > 0
          /\ dev' = [dev EXCEPT !.left[c] = @ - 1,
               !.sent[c] = Append(@, VapiTests[c][Len(VapiTests[c])
                                                   + 1 - dev.left[c]])]
    BY <1>2, Zenon DEF TestSend, Tests
  <2>1. /\ dev.left[c] > 0
        /\ dev' = [dev EXCEPT !.left = OneLess(dev.left, c),
                              !.sent = OneSent(dev.sent, dev.left, c)]
    BY <2>0 DEF OneLess, OneSent
  <2> DEFINE next == OneLess(dev.left, c)
             more == OneSent(dev.sent, dev.left, c)
  <2>2. Waiting(dev.queue, dev.open, more, next) /\ next \in [Tests -> Int]
        /\ more \in [Tests -> Seq(Nat)]
    BY <1>0, <2>1, SendingKeeps DEF VapiInv
  <2> HIDE DEF next, more
  <2>4. DOMAIN dev' = VapiFields /\ dev'.left = next /\ dev'.sent = more
        /\ \A f \in VapiFields \ {"left", "sent"} : dev'[f] = dev[f]
    BY <1>0, <2>1 DEF VapiFields, next, more
  <2>5. /\ dev'.kind = dev.kind /\ dev'.handlers = dev.handlers /\ dev'.revents = dev.revents
        /\ dev'.open = dev.open /\ dev'.SigpipeIgnored = dev.SigpipeIgnored
        /\ dev'.queue = dev.queue /\ dev'.heard = dev.heard /\ dev'.pc = dev.pc
        /\ dev'.accept = dev.accept
    BY <2>4 DEF VapiFields
  <2>6. VapiTypes(dev')
    BY <1>0, <2>2, <2>4, <2>5 DEF VapiTypes
  <2> QED BY <2>2, <2>4, <2>5, <2>6 DEF VapiInv
<1>3. CASE TestClose
  <2>1. PICK v : dev' = [dev EXCEPT !.closed = v]
    BY <1>3 DEF TestClose
  <2>2. DOMAIN dev' = VapiFields /\ \A f \in VapiFields \ {"closed"} : dev'[f] = dev[f]
    BY <1>0, <2>1 DEF VapiFields
  <2>3. dev'.revents = dev.revents /\ dev'.pc = dev.pc /\ dev'.accept = dev.accept
    BY <2>2 DEF VapiFields
  <2> QED BY <1>0, <2>2, <2>3, VapiSame
<1>4. CASE VapiSend
  BY <1>4, SendKeeps DEF VapiSend
<1>5. CASE VapiSimReset
  BY <1>5, ResetInv DEF VapiSimReset
<1>6. CASE VapiPoll
  <2> DEFINE ev == PollEvents(dev)
  <2>1. ev \subseteq {i \in DOMAIN dev.handlers : dev.handlers[i].fd # 0}
    BY DEF PollEvents
  <2>2. \/ dev' = [dev EXCEPT !.pc = "run"]
        \/ dev' = [dev EXCEPT !.pc = "walk", !.at = 1, !.revents = ev,
                              !.accept = dev.queue # << >>]
    BY <1>6 DEF VapiPoll
  <2> HIDE DEF ev
  <2>3. CASE dev' = [dev EXCEPT !.pc = "run"]
    <3>1. DOMAIN dev' = VapiFields /\ dev'.pc = "run" /\ \A f \in VapiFields \ {"pc"} : dev'[f] = dev[f]
      BY <1>0, <2>3 DEF VapiFields
    <3>2. dev'.revents = dev.revents
      BY <3>1 DEF VapiFields
    <3> QED BY <1>0, <3>1, <3>2, VapiSame
  <2>4. CASE dev' = [dev EXCEPT !.pc = "walk", !.at = 1, !.revents = ev,
                                !.accept = dev.queue # << >>]
    <3>1. DOMAIN dev' = VapiFields /\ dev'.revents = ev
          /\ \A f \in VapiFields \ {"pc", "at", "revents", "accept"} : dev'[f] = dev[f]
      BY <1>0, <2>4 DEF VapiFields
    <3>2. dev'.accept => dev.queue # << >>
      BY <1>0, <2>4 DEF VapiFields
    <3> QED BY <2>1, <3>1, <3>2, VapiSame
  <2> QED BY <2>2, <2>3, <2>4
<1>7. CASE VapiHandler
  <2>1. ASSUME NEW s, VapiInv(s), NEW n PROVE VapiInv([s EXCEPT !.at = n])
    <3> DEFINE r == [s EXCEPT !.at = n]
    <3>0. /\ DOMAIN s = VapiFields
          /\ s.revents \subseteq {i \in DOMAIN s.handlers : s.handlers[i].fd # 0}
          /\ s.pc = "walk" /\ s.accept => s.queue # << >>
      BY <2>1 DEF VapiInv, VapiTypes
    <3>1. DOMAIN r = VapiFields /\ \A f \in VapiFields \ {"at"} : r[f] = s[f]
      BY <3>0 DEF VapiFields
    <3> HIDE DEF r
    <3>2. r.revents = s.revents /\ r.pc = s.pc /\ r.accept = s.accept
      BY <3>1 DEF VapiFields
    <3>3. VapiInv(r)
      BY <2>1, <3>0, <3>1, <3>2, VapiSame
    <3> QED BY <3>3 DEF r
  <2>2. CASE dev.at \notin dev.revents
    <3>1. dev' = [dev EXCEPT !.at = dev.at + 1]
      BY <1>7, <2>2 DEF VapiHandler
    <3> QED BY <2>1, <3>1
  <2>3. CASE dev.at \in dev.revents
    <3>1. PICK s \in vapi_request(dev, dev.at) : dev' = [s EXCEPT !.at = s.at + 1]
      BY <1>7, <2>3 DEF VapiHandler
    <3>2. VapiInv(s)
      BY <2>3, RequestKeeps
    <3> QED BY <2>1, <3>1, <3>2
  <2> QED BY <2>2, <2>3
<1>8. CASE VapiAccept
  <2>1. CASE ~dev.accept
    <3>1. dev' = [dev EXCEPT !.pc = "check"]
      BY <1>8, <2>1 DEF VapiAccept
    <3>2. DOMAIN dev' = VapiFields /\ dev'.pc = "check" /\ \A f \in VapiFields \ {"pc"} : dev'[f] = dev[f]
      BY <1>0, <3>1 DEF VapiFields
    <3>3. dev'.revents = dev.revents
      BY <3>2 DEF VapiFields
    <3> QED BY <1>0, <3>2, <3>3, VapiSame
  <2>2. CASE dev.accept
    <3> DEFINE c == Head(dev.queue)
    <3>0. dev.queue # << >>
      BY <1>0, <1>8, <2>2 DEF VapiAccept
    <3>1. PICK fd \in VapiFds :
            /\ dev.open[fd] = NoClient
            /\ dev' = [server_request(dev, c, fd) EXCEPT !.queue = Tail(@), !.pc = "check"]
      BY <1>8, <2>2 DEF VapiAccept
    <3>2. server_request(dev, c, fd).queue = dev.queue
      BY <1>0 DEF server_request, VapiFields
    <3>3. dev' = [server_request(dev, c, fd) EXCEPT !.queue = Tail(dev.queue), !.pc = "check"]
      BY <3>1, <3>2
    <3> HIDE DEF c
    <3>4. c = Head(dev.queue)
      BY DEF c
    <3> QED BY <3>0, <3>1, <3>3, <3>4, ServerKeeps
  <2> QED BY <2>1, <2>2
<1>9. CASE UNCHANGED dev
  BY <1>9
<1> QED BY <1>1, <1>2, <1>3, <1>4, <1>5, <1>6, <1>7, <1>8, <1>9 DEF VapiNext

(* The invariant implies what is claimed of VAPI.                          *)
LEMMA VapiInvSound == VapiInv(dev) => VapiSound
<1> SUFFICES ASSUME VapiInv(dev) PROVE VapiSound
  OBVIOUS
<1>1. VapiOwnConnection
  BY DEF VapiInv, EachOwns, VapiOwnConnection
<1>2. VapiNoLeak
  BY DEF VapiInv, NoneLeaks, VapiNoLeak
<1>3. VapiHeard
  <2>1. RightHeard(dev.heard)
    BY DEF VapiInv
  <2> QED BY <2>1 DEF RightHeard, HeardRight, Owners, Devices, VapiHeard
<1> QED BY <1>1, <1>2, <1>3 DEF VapiSound

(* Connections, tests and devices always belong together, in every order   *)
(* of connecting, sending, closing and resetting: for every list of        *)
(* devices, any number of tests and every number of descriptors.           *)
THEOREM VapiAlwaysSound == VapiSpec => []VapiSound
<1>1. VapiInit => VapiInv(dev)
  BY VapiInvInit
<1>2. VapiInv(dev) /\ [VapiNext]_dev => VapiInv(dev)'
  <2> SUFFICES ASSUME VapiInv(dev), [VapiNext]_dev PROVE VapiInv(dev')
    BY DEF VapiInv, VapiTypes, NoneLeaks, EachOwns, Waiting, FirstIsId, RightHeard, HeardRight,
           AllInstalled, Fitting
  <2> QED BY VapiStep
<1>3. VapiInv(dev) => VapiSound
  BY VapiInvSound
<1> QED BY <1>1, <1>2, <1>3, PTL DEF VapiSpec
=============================================================================
