------------------------------ MODULE FrontEnd ------------------------------
(***************************************************************************)
(* The parts of the sensor that meet the network, side by side: the TCP    *)
(* sessions, a UDP responder, the XDP program with its manager and pump,   *)
(* and the scan tracker.  They share no state in the code, and no property *)
(* relates two of them, so an instance explores them one at a time: focus  *)
(* says which one moves.                                                   *)
(***************************************************************************)
EXTENDS MCSessions, UdpResponder, Kernel, ScanTracker

VARIABLE focus

frontVars == <<focus, sessVars, udpVars, kernelVars, scanVars>>

FrontInit ==
    /\ focus \in {"sessions", "udp", "kernel", "scan"}
    /\ SessInit /\ UdpInit /\ KernelInit /\ ScanInit

FrontNext ==
    /\ UNCHANGED focus
    /\ \/ focus = "sessions" /\ MCSessNext /\ UNCHANGED <<udpVars, kernelVars, scanVars>>
       \/ focus = "udp" /\ UdpNext /\ UNCHANGED <<sessVars, kernelVars, scanVars>>
       \/ focus = "kernel" /\ KernelNext /\ UNCHANGED <<sessVars, udpVars, scanVars>>
       \/ focus = "scan" /\ ScanNext /\ UNCHANGED <<sessVars, udpVars, kernelVars>>

\* The fairness of each part, asked only of the part that moves.
FrontFairness ==
    /\ WF_sessVars(focus = "sessions" /\ Prompt)
    /\ WF_kernelVars(focus = "kernel" /\ KernelPrompt)

FrontSpec == FrontInit /\ [][FrontNext]_frontVars /\ FrontFairness

\* The packets of the kernel instance: one address at a port with a listener and at one
\* without.
MCPackets == {[id |-> 1, src |-> "a", port |-> "listened"], [id |-> 2, src |-> "a", port |-> "other"]}

=============================================================================
