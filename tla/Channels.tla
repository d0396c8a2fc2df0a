------------------------------ MODULE Channels ------------------------------
(***************************************************************************)
(* The channels a UART talks through (peripheral/channels/): a pair of     *)
(* descriptors "fd:", one or two files "file:", a TCP port "tcp:", a       *)
(* serial line "tty:" or a terminal window "xterm:".  uart_reset() makes   *)
(* the channel the first time and closes it afterwards, then opens it.     *)
(*                                                                         *)
(* "os" are the descriptors that the process has open for the channel.  A  *)
(* connection has a queue of what the peer sent; a character is the number *)
(* of its turn.  The peer of a TCP port connects, sends and closes.        *)
(* SIGPIPE is ignored once a debugger has been connected and not before.   *)
(*                                                                         *)
(* History: "terminals" counts the terminal windows that were opened,      *)
(* "since" is what was written before the peer connected.                  *)
(***************************************************************************)
EXTENDS Device

CONSTANTS
  CHANNEL_MAX_FD,    \* bound: descriptors
  CHANNEL_MAX_CHARS, \* bound: characters sent in each direction
  ChannelKinds       \* the descriptors' texts, abstracted: see ChannelTypes

ChannelTypes == {"fd", "file1", "file2", "tcp", "tty", "xterm"}

ASSUME ChannelsAssumption ==
  /\ CHANNEL_MAX_FD \in Nat /\ CHANNEL_MAX_CHARS \in Nat
  /\ ChannelKinds \subseteq ChannelTypes

(* "file1" is a file channel with one name, "file2" one with two.          *)
ChannelInit ==
  \E t \in ChannelKinds, ignored \in BOOLEAN :
    dev = [kind |-> "channel", type |-> t, made |-> FALSE, state |-> "up",
           fdin |-> -1, fdout |-> -1, sock |-> -1, argv |-> FALSE, pid |-> -1,
           os |-> {}, terminals |-> 0, SigpipeIgnored |-> ignored,
           peer |-> "none", since |-> 0, inq |-> << >>, sent |-> 0,
           written |-> 0, reached |-> << >>, got |-> << >>]

FreeFd(s) == CHOOSE f \in 1 .. CHANNEL_MAX_FD :
               f \notin s.os /\ \A g \in 1 .. (f - 1) : g \in s.os
Held(s) == {s.fdin, s.fdout, s.sock} \ {-1, 0}
CloseOs(s, fd) == [s EXCEPT !.os = @ \ {fd}]
ExitOne(s) == [s EXCEPT !.state = "exited"]
Opened(s, fd) == [s EXCEPT !.fdin = fd, !.fdout = fd, !.os = @ \cup {fd}]
-----------------------------------------------------------------------------
(* The init functions: fd_init() takes descriptors that the process was    *)
(* started with (0 stands for them), file_init() and xterm_init() only     *)
(* note their arguments, tcp_init() listens and tty_init() opens the       *)
(* device; a failure ends the simulator.                                   *)
fd_init(m) == {[m EXCEPT !.fdin = 0, !.fdout = 0]}
file_init(m) == {m}
xterm_init(m) == {[m EXCEPT !.argv = TRUE]}
tcp_init(m) ==
  {ExitOne(m), [m EXCEPT !.sock = FreeFd(m), !.os = @ \cup {FreeFd(m)}]}
tty_init(m) == {ExitOne(m), Opened(m, FreeFd(m))}
channel_init(s) ==
  LET m == [s EXCEPT !.made = TRUE]
  IN  CASE s.type = "fd" -> fd_init(m)
        [] s.type \in {"file1", "file2"} -> file_init(m)
        [] s.type = "xterm" -> xterm_init(m)
        [] s.type = "tcp" -> tcp_init(m)
        [] s.type = "tty" -> tty_init(m)

(* file_open(): when the second file cannot be opened the first stays      *)
(* open, and its number is kept.                                           *)
file_open(s) ==
  LET first == FreeFd(s)
      in == [s EXCEPT !.fdin = first, !.os = @ \cup {first}]
      out == FreeFd(in)
  IN  IF s.type = "file1" THEN {s, Opened(s, first)}
      ELSE {s, in, [in EXCEPT !.fdout = out, !.os = @ \cup {out}]}

(* xterm_open(): a pseudo terminal, of which the master side stays open in *)
(* no variable, and a child that becomes xterm.  The child of a channel    *)
(* that was closed before has no argument vector: it ends, and the         *)
(* simulator waits for its first line for ever.                            *)
xterm_open(s) ==
  LET m == [s EXCEPT !.os = @ \cup {FreeFd(s)}]
      o == [Opened(m, FreeFd(m)) EXCEPT !.terminals = @ + 1]
  IN  {s, IF s.argv THEN [o EXCEPT !.pid = 1] ELSE [o EXCEPT !.state = "hung"]}

(* A failed open is only a warning.                                        *)
channel_open(s) ==
  CASE s.type \in {"file1", "file2"} -> file_open(s)
    [] s.type = "xterm" -> xterm_open(s)
    [] OTHER -> {s}

FileCloseOne(s) == [CloseOs(s, s.fdout) EXCEPT !.fdin = -1, !.fdout = -1]
file_close(s) ==
  [CloseOs(CloseOs(s, s.fdin), s.fdout) EXCEPT !.fdin = -1, !.fdout = -1]

xterm_close(s) ==
  [CloseOs(s, s.fdin) EXCEPT !.fdin = -1, !.fdout = -1, !.pid = -1,
                             !.argv = FALSE]

channel_close(s) ==
  CASE s.type \in {"file1", "file2"} -> file_close(s)
    [] s.type = "xterm" -> xterm_close(s)
    [] OTHER -> s

(* uart_reset().                                                           *)
ChannelReset ==
  /\ Is("channel") /\ dev.state = "up"
  /\ Cardinality(dev.os) + 2 <= CHANNEL_MAX_FD
  /\ \E s \in IF dev.made THEN {channel_close(dev)} ELSE channel_init(dev) :
       IF s.state = "up" THEN dev' \in channel_open(s) ELSE dev' = s
-----------------------------------------------------------------------------
(* The peer of a TCP channel: the first one to connect; the listening      *)
(* socket takes one more into its backlog of 1, which nobody accepts.      *)
PeerConnect ==
  /\ Is("channel") /\ dev.state = "up" /\ dev.type = "tcp" /\ dev.sock # -1
  /\ dev.peer = "none"
  /\ dev' = [dev EXCEPT !.peer = "backlog", !.since = dev.written]

PeerSend ==
  /\ Is("channel") /\ dev.state = "up" /\ dev.type = "tcp"
  /\ dev.peer \in {"backlog", "accepted"} /\ dev.sent < CHANNEL_MAX_CHARS
  /\ dev' = [dev EXCEPT !.sent = @ + 1, !.inq = Append(@, dev.sent + 1)]

PeerClose ==
  /\ Is("channel") /\ dev.state = "up" /\ dev.type = "tcp"
  /\ dev.peer \in {"backlog", "accepted"}
  /\ dev' = [dev EXCEPT !.peer = "closed"]

(* Lazily connect to the TCP partner on read or write; one that has closed *)
(* is accepted too.                                                        *)
wait_for_tcp_connect(s) ==
  IF s.peer = "none" THEN s
  ELSE LET fd == FreeFd(s)
       IN  [CloseOs(Opened(s, fd), s.sock) EXCEPT !.sock = -1,
              !.peer = IF s.peer = "backlog" THEN "accepted" ELSE s.peer]

Connected(s) == s.sock = -1
TcpReady(s) == IF s.type = "tcp" /\ ~Connected(s) THEN wait_for_tcp_connect(s)
               ELSE s

(* fd_read() takes a character if there is one; the end of the stream is   *)
(* like no character.  FD_SET(-1), after an open that failed, is undefined *)
(* and ends the simulator in a hardened build.                             *)
fd_read(s) ==
  IF s.fdin = -1 THEN {s, ExitOne(s)}
  ELSE IF s.inq = << >> THEN {s}
  ELSE {[s EXCEPT !.got = Append(@, Head(s.inq)), !.inq = Tail(@)]}

tcp_read(s) == LET c == TcpReady(s) IN IF Connected(c) THEN fd_read(c) ELSE {c}

ChannelRead ==
  /\ Is("channel") /\ dev.state = "up" /\ dev.made
  /\ dev' \in IF dev.type = "tcp" THEN tcp_read(dev) ELSE fd_read(dev)

(* tcp_write() goes on without a partner; writing to -1 fails and nobody   *)
(* looks at the result.  A peer that has closed answers with a reset,      *)
(* after which what it sent may be lost and a write raises SIGPIPE.        *)
fd_write(s) ==
  LET w == [s EXCEPT !.written = @ + 1]
  IN  CASE s.peer = "closed" ->
             {w, [w EXCEPT !.peer = "reset"],
              [w EXCEPT !.peer = "reset", !.inq = << >>]}
        [] s.peer = "reset" -> {IF s.SigpipeIgnored THEN w ELSE ExitOne(w)}
        [] s.fdout = -1 -> {w}
        [] OTHER -> {[w EXCEPT !.reached = Append(@, s.written + 1)]}

ChannelWrite ==
  /\ Is("channel") /\ dev.state = "up" /\ dev.made
  /\ dev.written < CHANNEL_MAX_CHARS
  /\ dev' \in fd_write(TcpReady(dev))

ChannelNext == \/ ChannelReset \/ PeerConnect \/ PeerSend \/ PeerClose
               \/ ChannelRead \/ ChannelWrite

ChannelSpec == ChannelInit /\ [][ChannelNext]_dev
-----------------------------------------------------------------------------
(* However often the simulator is reset, and whichever step of an open     *)
(* fails, the descriptors open for a channel are the ones its structure    *)
(* holds, so that the next close closes them.  A terminal is the exception *)
(* the code makes: each window that was opened costs one descriptor, the   *)
(* master side, for good (xterm_close), and one only.                      *)
ChannelDescriptors ==
  Is("channel") =>
    /\ Held(dev) \subseteq dev.os
    /\ Cardinality(dev.os \ Held(dev)) =
         IF dev.type = "xterm" THEN dev.terminals ELSE 0

(* What the peer of a TCP port sees is what the program wrote from the     *)
(* connection on, all of it until the peer closes and nothing afterwards;  *)
(* the UART receives what the peer sent from its beginning without a gap,  *)
(* and loses nothing of it before a write to the closed peer was reset.    *)
(* Resets of the simulator in between change neither.                      *)
TcpContinuous ==
  Is("channel") /\ dev.type = "tcp" =>
    /\ dev.reached = [i \in 1 .. Len(dev.reached) |-> dev.since + i]
    /\ dev.peer \in {"backlog", "accepted"} =>
         Len(dev.reached) = dev.written - dev.since
    /\ dev.got = [i \in 1 .. Len(dev.got) |-> i]
    /\ dev.peer # "reset" => dev.got \o dev.inq = [i \in 1 .. dev.sent |-> i]

(* A channel survives resets of its UART (channel_close, channel_open) and *)
(* the end of its peer: every descriptor is accounted for, and a stream    *)
(* has no gap.                                                             *)
ChannelsSound == ChannelDescriptors /\ TcpContinuous
=============================================================================
