------------------------------- MODULE Decode -------------------------------
(***************************************************************************)
(* Instruction decoding (cpu/or32/or32.c) and operands (or32.c and         *)
(* cpu/or32/execute.c).  A table of opcodes becomes an automaton that      *)
(* looks at a few bits at a time, and the arguments of an opcode become a  *)
(* list of runs of bits, from which an operand is put together when the    *)
(* instruction executes.  The disassembler reads the same fields by        *)
(* another way.                                                            *)
(*                                                                         *)
(* A word is the set of its bits that are 1.  An encoding gives the bits   *)
(* that must be 1 and those that must be 0.  An argument has a field (its  *)
(* letter's bits in the encoding), tells whether it is a register and      *)
(* whether its letter is signed, and "dis" if a register in parentheses    *)
(* follows: both are one operand.                                          *)
(***************************************************************************)
EXTENDS Device, FiniteSetsExt

CONSTANTS
  DecodeBits,     \* bits of an instruction
  MAX_LEN,        \* a run of the automaton has fewer bits
  DecodeTables,   \* tables: sequences of encodings
  DecodeFormats,  \* formats: sequences of arguments
  DecodeRegs      \* what the registers hold (a function from 0, which holds 0)

ASSUME DecodeAssumption ==
  /\ DecodeBits \in Nat \ {0} /\ MAX_LEN \in Nat \ {0, 1}
  /\ DecodeRegs[0] = 0

DPositions == 0 .. DecodeBits - 1
DWords == SUBSET DPositions
DNumber(bits) == MapThenSumSet(LAMBDA i : 2 ^ i, bits)

(* or1ksim_ti: what must be compared and what must be found.               *)
insn_mask(e) == e.ones \cup e.zeros
Fits(e, word) == insn_mask(e) \cap word = e.ones
-----------------------------------------------------------------------------
(* The first of the longest runs of bits that all these encodings give.    *)
RunsOf(bits) ==
  {r \in (DPositions \X (1 .. MAX_LEN - 1)) :
     r[1] .. (r[1] + r[2] - 1) \subseteq bits}
BestRun(bits) ==
  CHOOSE r \in RunsOf(bits) :
    \A q \in RunsOf(bits) : q[2] < r[2] \/ (q[2] = r[2] /\ r[1] <= q[1])

NoTree == [leaf |-> -1]
(* The automaton for the opcodes "set": a leaf for one, nothing for none,  *)
(* else a node with a subtree for every value of the run.  It is "exit"    *)
(* when no bit tells them apart.                                           *)
RECURSIVE cover_insn(_, _, _)
cover_insn(table, set, mask) ==
  LET common == {b \in mask : \A i \in set : b \in insn_mask(table[i])}
      run == BestRun(common)
      bits == run[1] .. (run[1] + run[2] - 1)
      next == [v \in SUBSET bits |->
                 cover_insn(table, {i \in set : table[i].ones \cap bits = v},
                            mask \ bits)]
  IN  IF set = {} THEN NoTree
      ELSE IF Cardinality(set) = 1 THEN [leaf |-> CHOOSE i \in set : TRUE]
      ELSE IF common = {} THEN [exit |-> TRUE]
      ELSE [bits |-> bits, next |-> next]

RECURSIVE Exits(_)
Exits(tree) ==
  \/ "exit" \in DOMAIN tree
  \/ "next" \in DOMAIN tree /\ \E v \in DOMAIN tree.next : Exits(tree.next[v])

or1ksim_build_automata(table) == cover_insn(table, DOMAIN table, DPositions)

RECURSIVE Walk(_, _)
Walk(tree, word) ==
  IF "leaf" \in DOMAIN tree THEN tree.leaf
  ELSE Walk(tree.next[word \cap tree.bits], word)
or1ksim_insn_decode(table, tree, word) ==
  LET i == Walk(tree, word)
  IN  IF i > 0 /\ Fits(table[i], word) THEN i ELSE -1
-----------------------------------------------------------------------------
(* The runs of a field, the lowest first: where each begins and its width. *)
FieldRuns(field) ==
  LET starts == {b \in field : b - 1 \notin field}
      width(b) == Min({n \in 1 .. DecodeBits : b + n \notin field})
  IN  [k \in 1 .. Cardinality(starts) |->
         LET b == SetToSortSeq(starts, LAMBDA x, y : x < y)[k]
         IN  <<b, width(b)>>]

(* The entries of an argument: OPTYPE_OP marks the last one.               *)
Entries(arg) ==
  LET runs == IF arg.field = {} THEN << <<0, 0>> >> ELSE FieldRuns(arg.field)
  IN  [k \in 1 .. Len(runs) |->
         [shr |-> runs[k][1], data |-> runs[k][2], reg |-> arg.reg,
          sig |-> arg.sig, sbit |-> Cardinality(arg.field) - 1,
          dis |-> arg.dis, op |-> k = Len(runs), last |-> FALSE]]
Dummy == [shr |-> 0, data |-> 0, reg |-> TRUE, sig |-> FALSE, sbit |-> 0,
          dis |-> FALSE, op |-> TRUE, last |-> TRUE]
parse_params(format) ==
  LET all == FlattenSeq([k \in 1 .. Len(format) |-> Entries(format[k])])
  IN  IF format = << >> THEN <<Dummy>>
      ELSE [all EXCEPT ![Len(all)].last = TRUE]

(* The value of the argument that begins at entry k: the runs are put      *)
(* together, and a signed value is extended from its upper bit.            *)
Field(word, e) ==
  DNumber({b - e.shr : b \in word \cap (e.shr .. (e.shr + e.data - 1))})
LastEntry(ops, k) == Min({m \in k .. Len(ops) : ops[m].op})
SignNever(operand, sbit) == operand
SignFrom(operand, sbit) ==
  IF (operand \div 2 ^ sbit) % 2 = 1
  THEN (operand % 2 ^ sbit) - 2 ^ sbit ELSE operand
eval_operand_val(word, ops, k) ==
  LET last == LastEntry(ops, k)
      nbits(m) == MapThenSumSet(LAMBDA j : ops[j].data, k .. (m - 1))
      operand == MapThenSumSet(LAMBDA m : Field(word, ops[m]) * 2 ^ nbits(m),
                               k .. last)
  IN  IF ops[last].sig THEN SignFrom(operand, ops[last].sbit) ELSE operand

(* The entry where operand n begins, counted from 0.                       *)
OperandStart(ops, n) ==
  LET ends == SetToSortSeq({k \in DOMAIN ops : ops[k].op /\ ~ ops[k].dis},
                           LAMBDA x, y : x < y)
  IN  IF n = 0 THEN 1 ELSE ends[n] + 1

eval_operand(word, ops, n) ==
  LET k == OperandStart(ops, n)
      val == eval_operand_val(word, ops, k)
  IN  IF ops[k].dis
      THEN val + DecodeRegs[eval_operand_val(word, ops, LastEntry(ops, k) + 1)]
      ELSE IF ops[k].reg THEN DecodeRegs[val] ELSE val

(* set_operand() with setsim_reg(): register 0 stays 0.                    *)
set_operand(regs, word, ops, n, value) ==
  LET r == eval_operand_val(word, ops, OperandStart(ops, n))
  IN  [regs EXCEPT ![r] = IF r = 0 THEN 0 ELSE value]

(* The disassembler: the bits of the field from the top down, then the     *)
(* extension of a signed letter.  A letter has as many bits in every       *)
(* opcode, but for K, which is not signed.                                 *)
or1ksim_or32_extract(word, field) ==
  MapThenSumSet(LAMBDA b : 2 ^ Cardinality({c \in field : c < b}), word \cap field)
or1ksim_extend_imm(imm, arg) ==
  LET n == Cardinality(arg.field)
  IN  IF arg.sig /\ imm \div 2 ^ (n - 1) = 1 THEN imm - 2 ^ n ELSE imm
-----------------------------------------------------------------------------
DecodeInit ==
  \/ \E t \in DecodeTables :
       dev = [kind |-> "decode", table |-> t, tree |-> NoTree, st |-> "start",
              word |-> {}, got |-> -1]
  \/ \E f \in DecodeFormats :
       dev = [kind |-> "operand", format |-> f, ops |-> parse_params(f),
              word |-> {}, n |-> 0, got |-> 0, regs |-> DecodeRegs, st |-> "start"]

DecodeBuild ==
  /\ Is("decode") /\ dev.st = "start"
  /\ LET tree == or1ksim_build_automata(dev.table)
     IN  dev' = [dev EXCEPT !.tree = IF Exits(tree) THEN NoTree ELSE tree,
                            !.st = IF Exits(tree) THEN "exit" ELSE "built"]
DecodeWord ==
  /\ Is("decode") /\ dev.st = "built"
  /\ \E w \in DWords :
       dev' = [dev EXCEPT !.word = w, !.st = "decoded",
                          !.got = or1ksim_insn_decode(dev.table, dev.tree, w)]

(* An operand of a word is read or, if it is a register, written.          *)
Operands(ops) == 0 .. Cardinality({k \in DOMAIN ops : ops[k].op /\ ~ ops[k].dis}) - 1
OperandRead ==
  /\ Is("operand") /\ dev.st = "start"
  /\ \E w \in DWords, n \in Operands(dev.ops) :
       dev' = [dev EXCEPT !.word = w, !.n = n, !.st = "read",
                          !.got = eval_operand(w, dev.ops, n)]
OperandWrite ==
  /\ Is("operand") /\ dev.st = "start"
  /\ \E w \in DWords, n \in Operands(dev.ops) :
       /\ dev.ops[OperandStart(dev.ops, n)].reg
       /\ dev' = [dev EXCEPT !.word = w, !.n = n, !.st = "written",
                             !.regs = set_operand(@, w, dev.ops, n, 9)]

DecodeNext == DecodeBuild \/ DecodeWord \/ OperandRead \/ OperandWrite
-----------------------------------------------------------------------------
(* Whatever table the automaton was built from, a word is decoded as the   *)
(* opcode whose encoding it fits, and as none if it fits none; and two     *)
(* encodings that one word fits stop the program when it is built.         *)
DecodeRight ==
  Is("decode") =>
    /\ dev.st = "decoded" =>
         /\ dev.got > 0 => Fits(dev.table[dev.got], dev.word)
         /\ dev.got = -1 =>
              \A i \in DOMAIN dev.table : ~ Fits(dev.table[i], dev.word)
    /\ dev.st \in {"built", "decoded"} =>
         \A i, j \in DOMAIN dev.table :
           i # j => \E b \in insn_mask(dev.table[i]) \cap insn_mask(dev.table[j]) :
                      (b \in dev.table[i].ones) # (b \in dev.table[j].ones)

(* The operand that an instruction reads is the argument of its format:    *)
(* its field as a number, extended if its letter is signed, the register   *)
(* of that number, or the sum for a displacement; the disassembler shows   *)
(* the same number; and a write changes that register, and never           *)
(* register 0.                                                             *)
OperandRight ==
  (Is("operand") /\ dev.format # << >>) =>
    LET firsts == {k \in DOMAIN dev.format : k = 1 \/ ~ dev.format[k - 1].dis}
        k == CHOOSE x \in firsts : Cardinality({y \in firsts : y < x}) = dev.n
        arg == dev.format[k]
        shown(a) == or1ksim_extend_imm(or1ksim_or32_extract(dev.word, a.field), a)
    IN  /\ dev.st = "read" =>
             dev.got = IF arg.dis
                       THEN shown(arg) + DecodeRegs[shown(dev.format[k + 1])]
                       ELSE IF arg.reg THEN DecodeRegs[shown(arg)]
                       ELSE shown(arg)
        /\ dev.st = "written" =>
             \A r \in DOMAIN DecodeRegs :
               dev.regs[r] = IF r # 0 /\ r = shown(arg) THEN 9 ELSE DecodeRegs[r]

(* A word is decoded as its opcode with its operands (or1ksim_insn_decode, *)
(* parse_params, eval_operand), whatever the tables.                       *)
DecodeSound == DecodeRight /\ OperandRight
=============================================================================
