------------------------------- MODULE Generic -------------------------------
(***************************************************************************)
(* The generic peripheral (peripheral/generic.c): accesses of 1, 2 and 4   *)
(* bytes are passed on to a program that has or1ksim as a library, as      *)
(* accesses to a word with a byte mask.  A value is the sequence of its    *)
(* bytes, the most significant one first.                                  *)
(*                                                                         *)
(* "mem" is the memory of the external program (external: it stores the    *)
(* bytes the mask selects), "ref" the memory that the processor means to   *)
(* address, and "got" and "want" are what the last read returned and what  *)
(* it should have returned.                                                *)
(***************************************************************************)
EXTENDS Device

CONSTANTS
  GenericSize,   \* the size parameter
  GenericBases,  \* the baseaddr parameter
  GenericBytes,  \* values of a byte
  GenericBig     \* the model is big endian (OR32_BIG_ENDIAN)

ASSUME GenericAssumption ==
  /\ GenericSize \in Nat /\ GenericSize % 4 = 0
  /\ \A b \in GenericBases : b \in Nat /\ b % 4 = 0
  /\ GenericBig \in BOOLEAN

GenericInit ==
  \E base \in GenericBases :
    LET zero == [a \in base .. base + GenericSize - 1 |-> 0] IN
      dev = [kind |-> "generic", base |-> base, mem |-> zero, ref |-> zero,
             got |-> <<>>, want |-> <<>>]
-----------------------------------------------------------------------------
LaneUpper(full, n, i) ==
  (IF n = 1 THEN full % 4 ELSE 0) + (IF GenericBig THEN i ELSE n - 1 - i)

(* The position in the word of byte i (counted from 0, most significant    *)
(* first) of a value of n bytes at this address.                           *)
Lane(full, n, i) ==
  LET first == CASE n = 1 -> full % 4
                 [] n = 2 -> 2 * ((full \div 2) % 2)
                 [] n = 4 -> 0
  IN  first + (IF GenericBig THEN i ELSE n - 1 - i)

WordAddr(full) == full - (full % 4)

Allowed(addr, n) == addr < GenericSize /\ addr % n = 0

(* generic_write_byte(), _hw() and _word(); the upcall may fail.           *)
GenericWrite(addr, v, ok) ==
  /\ Is("generic")
  /\ LET full == addr + dev.base
         n == Len(v)
         put == [i \in 0 .. n - 1 |-> WordAddr(full) + Lane(full, n, i)]
     IN  dev' = IF ~Allowed(addr, n) \/ ~ok THEN dev
                ELSE [dev EXCEPT
                  !.mem = [a \in DOMAIN @ |->
                             IF \E i \in DOMAIN put : put[i] = a
                             THEN v[1 + CHOOSE i \in DOMAIN put : put[i] = a]
                             ELSE @[a]],
                  !.ref = [a \in DOMAIN @ |->
                             IF a \in full .. full + n - 1
                             THEN v[IF GenericBig THEN a - full + 1
                                    ELSE n - (a - full)]
                             ELSE @[a]]]

(* generic_read_byte(), _hw() and _word(): a refused or failed read is 0.  *)
GenericRead(addr, n, ok) ==
  /\ Is("generic")
  /\ LET full == addr + dev.base
         fine == Allowed(addr, n) /\ ok
     IN  dev' = [dev EXCEPT
           !.got = [i \in 1 .. n |->
              IF fine THEN dev.mem[WordAddr(full) + Lane(full, n, i - 1)] ELSE 0],
           !.want = [i \in 1 .. n |->
              IF fine THEN dev.ref[full + (IF GenericBig THEN i - 1 ELSE n - i)]
              ELSE 0]]

GenericNext ==
  \E addr \in 0 .. GenericSize, n \in {1, 2, 4}, ok \in BOOLEAN :
    \/ GenericRead(addr, n, ok)
    \/ \E v \in [1 .. n -> GenericBytes] : GenericWrite(addr, v, ok)

GenericSpec == GenericInit /\ [][GenericNext]_dev
-----------------------------------------------------------------------------
(* Accesses of different sizes see one memory: every sequence of byte,     *)
(* half-word and word writes and reads, in the processor's byte order,     *)
(* finds what was written last at each address, and an access that is      *)
(* unaligned, out of range or refused changes nothing.                     *)
GenericOneMemory ==
  Is("generic") => dev.mem = dev.ref /\ dev.got = dev.want
=============================================================================
