------------------------------ MODULE Ps2Kbd ------------------------------
(***************************************************************************)
(* The PS/2 keyboard and its controller (peripheral/ps2kbd.c).  Characters *)
(* of the input file are decoded into scan codes, which wait in a ring of  *)
(* KBD_MAX_BUF entries.  Of the command byte only the bits EN and INT are  *)
(* kept; the controller commands that ask for a byte (read command byte    *)
(* and the two self tests) are one command "ask".  KBD_KCMD_ECHO has the   *)
(* value of KBD_KCMD_RST, so that an echo is answered as a reset.          *)
(*                                                                         *)
(* "held" (keys down, as the scan codes software has read tell it), "lost" *)
(* (a scan code was dropped) and "acked" (the last byte read was the       *)
(* acknowledgement of a reset) are history.                                *)
(***************************************************************************)
EXTENDS Device

CONSTANT KBD_MAX_BUF

ASSUME KbdAssumption == KBD_MAX_BUF \in Nat \ {0}

CcmdNames == {"ask", "DKI", "EKI", "WCB"}
KcmdNames == {"DK", "EK", "RST", "other"}

(* One character of each kind: without a scan code, without and with shift *)
ScanTable == [bell |-> [shift |-> FALSE, code |-> FALSE],
              a    |-> [shift |-> FALSE, code |-> TRUE],
              A    |-> [shift |-> TRUE,  code |-> TRUE]]

Make(k) == [key |-> k, down |-> TRUE]
Break(k) == [key |-> k, down |-> FALSE]

(* kbd_reset() leaves ccmd and kcmd as they are; at first they are what    *)
(* malloc() returned.                                                      *)
kbd_reset(ccmd, kcmd, open) ==
  [kind |-> "kbd", buf |-> <<>>, ccmd |-> ccmd, kcmd |-> kcmd, kresp |-> 0,
   en |-> FALSE, int |-> TRUE, irq |-> FALSE, open |-> open,
   held |-> {}, lost |-> FALSE, acked |-> FALSE]

KbdInit == \E c \in CcmdNames \union {"none"}, k \in KcmdNames \union {"none"},
              open \in BOOLEAN : dev = kbd_reset(c, k, open)
-----------------------------------------------------------------------------
kbd_put(s, c) ==
  IF Len(s.buf) >= KBD_MAX_BUF THEN [s EXCEPT !.lost = TRUE]
  ELSE [s EXCEPT !.buf = Append(@, c)]

PutKey(s) == kbd_put(kbd_put(s, Make("key")), Break("key"))

scan_decode(s, c) ==
  IF ~ScanTable[c].code THEN s
  ELSE IF ~ScanTable[c].shift THEN PutKey(s)
  ELSE kbd_put(PutKey(kbd_put(s, Make("shift"))), Break("shift"))

KbdWaiting(s) == s.kresp # 0 \/ s.buf # <<>>

WriteCtrl(s, v) ==
  [s EXCEPT !.ccmd = v,
            !.kresp = IF v = "ask" THEN 1 ELSE @,
            !.irq = @ /\ v # "DKI",
            !.en = IF v = "DKI" THEN TRUE ELSE IF v = "EKI" THEN FALSE ELSE @]

(* The command byte takes a value e, i; the test of kcmd that follows sees *)
(* the last keyboard command, even where the byte was for the controller.  *)
WriteData(s, v, e, i) ==
  LET t == IF s.ccmd = "WCB" THEN [s EXCEPT !.en = e, !.int = i]
           ELSE [s EXCEPT !.kcmd = v]
  IN  [t EXCEPT !.en = IF t.kcmd = "DK" THEN TRUE
                       ELSE IF t.kcmd = "EK" THEN FALSE ELSE @,
                !.kresp = 1, !.ccmd = "none"]

Response(s) ==
  LET rst == s.kresp = 1 /\ s.kcmd = "RST"
  IN  [s EXCEPT !.kresp = IF rst THEN 2 ELSE 0, !.kcmd = "none", !.acked = rst]

ReadCode(s) ==
  LET c == Head(s.buf)
  IN  [s EXCEPT !.buf = Tail(@), !.kresp = 0, !.acked = FALSE,
                !.held = IF c.down THEN @ \union {c.key} ELSE @ \ {c.key}]

CtrlAnswerOnly(s) == [s EXCEPT !.ccmd = "none", !.acked = FALSE]
CtrlAnswer(s) == [s EXCEPT !.ccmd = "none", !.kresp = 0, !.acked = FALSE]

ReadData(s) ==
  LET t == [s EXCEPT !.irq = FALSE]
  IN  IF t.ccmd # "none"
      THEN CtrlAnswer(t)
      ELSE IF t.kresp # 0 THEN Response(t)
      ELSE IF t.buf # <<>> THEN ReadCode(t)
      ELSE t

kbd_job(s, c) ==
  LET t == IF c = "EOF" THEN s ELSE scan_decode(s, c)
  IN  [t EXCEPT !.irq = @ \/ (KbdWaiting(t) /\ t.int)]
-----------------------------------------------------------------------------
KbdWriteCtrl == Is("kbd") /\ \E v \in CcmdNames : dev' = WriteCtrl(dev, v)
KbdWriteData == /\ Is("kbd")
                /\ \E v \in KcmdNames, e, i \in BOOLEAN :
                     dev' = WriteData(dev, v, e, i)
KbdReadData == Is("kbd") /\ dev' = ReadData(dev)
KbdJob == /\ Is("kbd") /\ dev.open
          /\ \E c \in DOMAIN ScanTable \union {"EOF"} : dev' = kbd_job(dev, c)
KbdReset == /\ Is("kbd")
            /\ \E open \in BOOLEAN : dev' = kbd_reset(dev.ccmd, dev.kcmd, open)

KbdNext == KbdWriteCtrl \/ KbdWriteData \/ KbdReadData \/ KbdJob \/ KbdReset

KbdSpec == KbdInit /\ [][KbdNext]_dev
-----------------------------------------------------------------------------
(* As long as the ring has never overflowed, software that has read all    *)
(* scan codes has seen every key that went down go up again: commands and  *)
(* their answers, which are read from the same register, take no scan code *)
(* away.                                                                   *)
KeysReleased ==
  Is("kbd") /\ ~dev.lost /\ dev.buf = <<>> => dev.held = {}

(* The second answer to a reset (RSTOK) is pending only directly after the *)
(* first (ACK) has been read: no other command's answer comes between.     *)
ResetAnswers == Is("kbd") /\ dev.kresp = 2 => dev.acked

(* The interrupt is never left behind: while the line is high there is     *)
(* something to read, in spite of a reset or of answers that commands      *)
(* replace.                                                                *)
KbdIrqReal == Is("kbd") /\ dev.irq => KbdWaiting(dev)

(* The keyboard, whose scan codes and answers share a register and an      *)
(* interrupt (kbd_read8, kbd_job), loses and invents nothing.              *)
KbdSound == KeysReleased /\ ResetAnswers /\ KbdIrqReal
=============================================================================
