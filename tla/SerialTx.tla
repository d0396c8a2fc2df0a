----------------------------- MODULE SerialTx -----------------------------
(***************************************************************************)
(* What the transmitter of the UART promises: the characters that software *)
(* writes leave in the order in which they were written, each at most      *)
(* once.  A character is only lost when software resets the FIFO, sends a  *)
(* break, or resets the simulation.                                        *)
(***************************************************************************)
EXTENDS Sequences, SequencesExt

CONSTANTS Chars, Nothing, Break

VARIABLES
  queue,    \* accepted and not yet sent; the first one is being shifted out
            \* when busy
  busy,     \* the shift register holds Head(queue)
  wire      \* what was sent last

tvars == <<queue, busy, wire>>

Init == queue = <<>> /\ busy = FALSE /\ wire = Nothing

Accept ==
  /\ \E c \in Chars : queue' = Append(queue, c)
  /\ UNCHANGED <<busy, wire>>

Shift == ~busy /\ queue # <<>> /\ busy' = TRUE /\ UNCHANGED <<queue, wire>>

(* The character, or a break in its place, has left; the next one follows. *)
Send ==
  /\ busy
  /\ wire' \in {Head(queue), Break}
  /\ queue' = Tail(queue)
  /\ busy' = (queue' # <<>>)

Flush ==
  /\ queue' = IF busy THEN <<Head(queue)>> ELSE <<>>
  /\ UNCHANGED <<busy, wire>>

Reset == Init'

Next == Accept \/ Shift \/ Send \/ Flush \/ Reset
-----------------------------------------------------------------------------
(* No step of the line: a new character takes the place of the oldest one  *)
(* that waits, which is lost, and leaves before those written earlier.     *)
Misplace ==
  LET i == IF busy THEN 2 ELSE 1 IN
  /\ i <= Len(queue)
  /\ \E c \in Chars : queue' = [queue EXCEPT ![i] = c]
  /\ UNCHANGED <<busy, wire>>
=============================================================================
