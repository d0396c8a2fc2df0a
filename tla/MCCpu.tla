------------------------------- MODULE MCCpu -------------------------------
(* Model-checking instances of Cpu.                                        *)
EXTENDS Cpu

MCTtmrs == {Ttmr("off", FALSE, 0)}
           \cup {Ttmr(m, TRUE, 2) : m \in {"off", "RT", "SR", "CR"}}
           \cup {Ttmr("RT", FALSE, 1), Ttmr("RT", TRUE, 0)}
TwoCycles == {1, 2}
NoExt == {{}}
AllExt == SUBSET Lines
DozeValues == {{}, {4}}
NoValues == {}
=============================================================================
