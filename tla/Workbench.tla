------------------------------ MODULE Workbench ------------------------------
(***************************************************************************)
(* The workbench an operator uses, from its two sides: the configuration   *)
(* of a merchant up to its publications (Management), and the simulator    *)
(* that runs sessions over one of them (Simulation).  They meet at the     *)
(* publication a simulation loads, which is immutable.  A behaviour        *)
(* follows one of the two, chosen at the start, so that their states add   *)
(* up and do not multiply.                                                 *)
(***************************************************************************)
EXTENDS Management, Simulation

VARIABLE desk

workbenchVars == <<desk, vars, simVars>>

WorkbenchInit ==
    /\ desk \in {"configuration", "simulator"}
    /\ Init /\ SimulationInit

WorkbenchNext ==
    /\ desk' = desk
    /\ \/ desk = "configuration" /\ Next /\ UNCHANGED simVars
       \/ desk = "simulator" /\ SimulationStep /\ UNCHANGED vars

WorkbenchSpec == WorkbenchInit /\ [][WorkbenchNext]_workbenchVars
=============================================================================
