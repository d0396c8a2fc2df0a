--------------------------- MODULE SequentialIsa ---------------------------
(***************************************************************************)
(* What a program of the simulated machine sees: instructions are executed *)
(* one after the other, and the target of a branch follows its delay slot. *)
(* There are no exceptions.                                                *)
(***************************************************************************)
EXTENDS Integers

CONSTANT LAST

VARIABLES
  prog,
  at,       \* the instruction to execute next
  target    \* where to go after it, -1 for the instruction behind it

Follow == IF target = -1 THEN at + 1 ELSE target

Init == at = 0 /\ target = -1

(* A system call is to the program an instruction like any other.          *)
Plain ==
  /\ prog[at].op \in {"alu", "sys"}
  /\ at' = Follow /\ target' = -1

Branch ==
  /\ prog[at].op = "branch"
  /\ target = -1
  /\ at' = at + 1
  /\ target' \in {prog[at].to, -1}

(* A branch may be executed again instead of its delay slot: branches have *)
(* no effect but the choice of the target.                                 *)
Again == target # -1 /\ at' = at - 1 /\ target' = -1

Next == (Plain \/ Branch \/ Again) /\ UNCHANGED prog

(* A step of the machine: the program's next, or one it does not see.      *)
Step == Next \/ UNCHANGED <<prog, at, target>>
=============================================================================
