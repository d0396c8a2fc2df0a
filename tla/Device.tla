------------------------------- MODULE Device -------------------------------
(***************************************************************************)
(* The peripherals of or1ksim share nothing but the scheduler and the      *)
(* interrupt controller.  Each one is therefore a component with a state   *)
(* of its own, and the variable "dev" holds the state of the component     *)
(* that a behaviour is about; its field "kind" names it.  A module that    *)
(* checks several components has behaviours of each, never of two at once. *)
(*                                                                         *)
(* The functions of a C file are operators from one state of dev to the    *)
(* next, so that a handler is the composition of the calls it makes.       *)
(***************************************************************************)
EXTENDS Integers, Sequences, SequencesExt, FiniteSets

VARIABLE dev

Is(kind) == dev.kind = kind

(* A C condition as the integer it is.                                     *)
Bit(b) == IF b THEN 1 ELSE 0
=============================================================================
