-------------------------------- MODULE Vapi --------------------------------
(***************************************************************************)
(* The server of the verification API (vapi/vapi.c): the list of handlers  *)
(* that the devices install when they are reset, the descriptors of the    *)
(* connected tests, and vapi_check(), which the main loop calls.           *)
(*                                                                         *)
(* A test is a client: it connects, sends the id it serves, then packets   *)
(* (each an id and data, of which the id is kept), and closes.  "open"     *)
(* is the table of descriptors of the process: which client's socket a     *)
(* number stands for.  rebuild_fds() makes one poll entry for the socket   *)
(* of every connected handler, so the poll table is the handlers' own      *)
(* column fd; what a rebuild loses is the events of the round, "revents".  *)
(*                                                                         *)
(* SIGPIPE is ignored once a debugger has been connected and not before    *)
(* (rsp-server.c): writing to a socket whose test has gone then fails with *)
(* EPIPE, and ends the simulator otherwise.                                *)
(*                                                                         *)
(* History: "heard" has, for every packet read, its id and the device      *)
(* (its place among VapiDevices) whose read function was given it, or 0.   *)
(***************************************************************************)
EXTENDS Device

CONSTANTS
  VapiDevices,   \* the configured devices, in the order of reset: each has
                 \* "num" ids from "base" on
  VapiAnswers,   \* the devices whose read function sends (GPIO)
  VapiTests,     \* tests: what each one sends, its id first
  VAPI_MAX_FD    \* bound: descriptors that can be open

ASSUME VapiAssumption ==
  /\ VapiDevices \in Seq([base : Nat, num : Nat \ {0}])
  /\ VapiTests \in Seq(Seq(Nat)) /\ VAPI_MAX_FD \in Nat

NoClient == 0
VapiFds == 1 .. VAPI_MAX_FD

handler_fits_id(h, id) == id >= h.base /\ id < h.base + h.num

(* The handlers are a list; a search gives the place of the first that     *)
(* fits, or 0.                                                             *)
find_handler(list, id) ==
  LET fits == {i \in DOMAIN list : handler_fits_id(list[i], id)}
  IN  IF fits = {} THEN 0 ELSE CHOOSE i \in fits : \A j \in fits : i <= j

add_handler(list, d) ==
  Append(list, [base |-> VapiDevices[d].base, num |-> VapiDevices[d].num,
                fd |-> 0, to |-> d])

(* A device whose first id some handler has takes that handler over, with  *)
(* the ids it has.                                                         *)
vapi_install_multi_handler(list, d) ==
  LET h == find_handler(list, VapiDevices[d].base)
  IN  IF h = 0 THEN add_handler(list, d) ELSE [list EXCEPT ![h].to = d]

(* reg_sim_reset(): the devices install their handlers, at the end of the  *)
(* list; a second reset finds them there.  Each rebuilds the poll table.   *)
VapiReset(s) ==
  LET list[n \in 0 .. Len(VapiDevices)] ==
        IF n = 0 THEN s.handlers
        ELSE vapi_install_multi_handler(list[n - 1], n)
  IN  [s EXCEPT !.handlers = list[Len(VapiDevices)], !.revents = {}]

(* vapi_init() forgets the handlers.                                       *)
vapi_init(s) == [s EXCEPT !.handlers = << >>, !.revents = {}]

(* sim_init(): the devices are reset first, the server starts afterwards,  *)
(* and then no handler is left for whose test sim_init() could wait.       *)
VapiStart(s) == vapi_init(VapiReset(s))

VapiInit ==
  \E ignored \in BOOLEAN :
    dev = VapiStart(
      [kind |-> "vapi", handlers |-> << >>, revents |-> {}, accept |-> FALSE,
       open |-> [f \in VapiFds |-> NoClient], pc |-> "run", at |-> 0,
       alive |-> TRUE, SigpipeIgnored |-> ignored, queue |-> << >>,
       sent |-> [c \in DOMAIN VapiTests |-> << >>],
       left |-> [c \in DOMAIN VapiTests |-> -1],
       closed |-> [c \in DOMAIN VapiTests |-> FALSE],
       heard |-> << >>])
-----------------------------------------------------------------------------
(* The tests.  "left" is what a test has not sent yet, -1 before it        *)
(* connects; "sent" is what is on its way.                                 *)
TestConnect ==
  /\ Is("vapi") /\ dev.alive
  /\ \E c \in DOMAIN VapiTests :
       /\ dev.left[c] = -1
       /\ dev' = [dev EXCEPT !.left[c] = Len(VapiTests[c]),
                             !.queue = Append(@, c)]

TestSend ==
  /\ Is("vapi") /\ dev.alive
  /\ \E c \in DOMAIN VapiTests :
       /\ dev.left[c] > 0 /\ ~dev.closed[c]
       /\ dev' = [dev EXCEPT !.left[c] = @ - 1,
            !.sent[c] = Append(@, VapiTests[c][Len(VapiTests[c])
                                                + 1 - dev.left[c]])]

TestClose ==
  /\ Is("vapi") /\ dev.alive
  /\ \E c \in DOMAIN VapiTests :
       /\ dev.left[c] >= 0 /\ ~dev.closed[c]
       /\ dev' = [dev EXCEPT !.closed[c] = TRUE]
-----------------------------------------------------------------------------
CloseFd(s, fd) == [s EXCEPT !.open[fd] = NoClient]

(* vapi_write_stream() closes the socket on EPIPE; the handler keeps the   *)
(* number.  Writing to a test that has gone may still succeed.             *)
vapi_send(s, id) ==
  LET h  == find_handler(s.handlers, id)
      fd == s.handlers[h].fd
  IN  IF h = 0 \/ fd = 0 \/ s.open[fd] = NoClient THEN {s}
      ELSE IF ~s.closed[s.open[fd]] THEN {s}
      ELSE {s, IF s.SigpipeIgnored THEN CloseFd(s, fd)
               ELSE [s EXCEPT !.alive = FALSE]}

(* A device sends from a job of the scheduler.                             *)
VapiSend ==
  /\ Is("vapi") /\ dev.alive /\ dev.pc = "run"
  /\ \E i \in DOMAIN VapiDevices : dev' \in vapi_send(dev, VapiDevices[i].base)

VapiSimReset ==
  /\ Is("vapi") /\ dev.alive /\ dev.pc = "run"
  /\ dev' = VapiReset(dev)
-----------------------------------------------------------------------------
(* vapi_check(): poll, serve the handlers in the order of the list, then   *)
(* the listening socket, until poll has nothing to report.  A closed       *)
(* descriptor (POLLNVAL) and a closed test are events too.                 *)
HasEvent(s, fd) ==
  s.open[fd] # NoClient => (s.sent[s.open[fd]] # << >> \/ s.closed[s.open[fd]])

PollEvents(s) ==
  {i \in DOMAIN s.handlers : s.handlers[i].fd # 0
                             /\ HasEvent(s, s.handlers[i].fd)}

VapiPoll ==
  /\ Is("vapi") /\ dev.alive /\ dev.pc \in {"run", "check"}
  /\ LET ev == PollEvents(dev)
     IN  dev' = IF ev = {} /\ dev.queue = << >> THEN [dev EXCEPT !.pc = "run"]
                ELSE [dev EXCEPT !.pc = "walk", !.at = 1, !.revents = ev,
                                 !.accept = dev.queue # << >>]

(* The packet may be for another handler.                                  *)
Deliver(s, t, id) ==
  LET h == IF handler_fits_id(s.handlers[t], id) THEN t ELSE find_handler(s.handlers, id)
  IN  IF h = 0 THEN 0 ELSE s.handlers[h].to

(* read_packet() fails on a closed descriptor and at the end of the        *)
(* stream; it waits for a packet otherwise.                                *)
RequestKeepsFd(s, t) ==
  LET fd == s.handlers[t].fd
      c  == s.open[fd]
  IN  IF c # NoClient /\ s.sent[c] # << >>
      THEN {[s EXCEPT !.sent[c] = Tail(@)]}
      ELSE {[CloseFd(s, fd) EXCEPT !.revents = {}, !.accept = FALSE]}
vapi_request(s, t) ==
  LET fd == s.handlers[t].fd
      c  == s.open[fd]
  IN  IF c # NoClient /\ s.sent[c] # << >>
      THEN LET id == Head(s.sent[c])
               to == Deliver(s, t, id)
               u  == [s EXCEPT !.sent[c] = Tail(@), !.heard = Append(@, <<id, to>>)]
           IN  IF to \in VapiAnswers THEN vapi_send(u, VapiDevices[to].base) ELSE {u}
      ELSE {[CloseFd(s, fd) EXCEPT !.handlers[t].fd = 0, !.revents = {},
                                   !.accept = FALSE]}

VapiHandler ==
  /\ Is("vapi") /\ dev.alive /\ dev.pc = "walk" /\ dev.at <= Len(dev.handlers)
  /\ IF dev.at \notin dev.revents THEN dev' = [dev EXCEPT !.at = @ + 1]
     ELSE /\ HasEvent(dev, dev.handlers[dev.at].fd)
          /\ \E s \in vapi_request(dev, dev.at) : dev' = [s EXCEPT !.at = @ + 1]

(* accept() takes the lowest free number; the simulator then waits for the *)
(* id.  An id that no device has, or whose test is connected, is refused.  *)
server_request(s, c, fd) ==
  IF s.sent[c] = << >> THEN s
  ELSE LET t == find_handler(s.handlers, Head(s.sent[c]))
       IN  IF t = 0 \/ s.handlers[t].fd # 0 THEN s
           ELSE [s EXCEPT !.handlers[t].fd = fd, !.open[fd] = c,
                          !.sent[c] = Tail(@)]

VapiAccept ==
  /\ Is("vapi") /\ dev.alive /\ dev.pc = "walk" /\ dev.at > Len(dev.handlers)
  /\ IF ~dev.accept THEN dev' = [dev EXCEPT !.pc = "check"]
     ELSE LET c == Head(dev.queue)
          IN  /\ dev.sent[c] # << >> \/ dev.closed[c]
              /\ \E fd \in VapiFds :
                   /\ dev.open[fd] = NoClient
                   /\ \A f \in VapiFds : dev.open[f] = NoClient => fd <= f
                   /\ dev' = [server_request(dev, c, fd) EXCEPT
                                !.queue = Tail(@), !.pc = "check"]

VapiNext == \/ TestConnect \/ TestSend \/ TestClose \/ VapiSend \/ VapiSimReset
            \/ VapiPoll \/ VapiHandler \/ VapiAccept

VapiSpec == VapiInit /\ [][VapiNext]_dev
-----------------------------------------------------------------------------
(* While SIGPIPE is not ignored, the descriptor of a handler is the open   *)
(* connection of a test that named that handler, and of no other handler:  *)
(* vapi_request() drops the number when it closes the socket, so that the  *)
(* kernel may give the number to the next test.                            *)
VapiOwnConnection ==
  Is("vapi") /\ ~dev.SigpipeIgnored =>
    \A i \in DOMAIN dev.handlers :
      LET h == dev.handlers[i]
      IN  h.fd # 0 => /\ dev.open[h.fd] # NoClient
                      /\ handler_fits_id(h, VapiTests[dev.open[h.fd]][1])

(* Whatever the order of connections, ends of tests, failed writes and     *)
(* resets, every open socket is some handler's: vapi_check() can still     *)
(* read it and close it.                                                   *)
VapiNoLeak ==
  Is("vapi") => \A f \in VapiFds : dev.open[f] # NoClient =>
                  \E i \in DOMAIN dev.handlers : dev.handlers[i].fd = f

(* A device is apart if its first id is not one of another device's, nor   *)
(* another's first id one of its own.                                      *)
Apart(i) ==
  \A j \in DOMAIN VapiDevices \ {i} :
    /\ ~handler_fits_id(VapiDevices[i], VapiDevices[j].base)
    /\ ~handler_fits_id(VapiDevices[j], VapiDevices[i].base)

(* A packet reaches the device that has its id, also when it came over     *)
(* another device's connection, and after any number of resets; a packet   *)
(* with an id that no device has reaches none.  Nothing is promised to     *)
(* devices that are not apart: the later one takes the handler of the      *)
(* earlier one over and gets packets with ids that it does not have        *)
(* (vapi_install_multi_handler).                                           *)
VapiHeard ==
  Is("vapi") =>
    \A k \in DOMAIN dev.heard :
      LET owners == {i \in DOMAIN VapiDevices :
                       handler_fits_id(VapiDevices[i], dev.heard[k][1])}
      IN  IF owners = {} THEN dev.heard[k][2] = 0
          ELSE (\A i \in owners : Apart(i)) => owners = {dev.heard[k][2]}

(* Connections, tests and devices belong together (server_request,         *)
(* vapi_request, vapi_send) in every order of connecting, closing and      *)
(* resetting.                                                              *)
VapiSound == VapiOwnConnection /\ VapiNoLeak /\ VapiHeard
=============================================================================
