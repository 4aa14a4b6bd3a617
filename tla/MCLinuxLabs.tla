----------------------------- MODULE MCLinuxLabs ----------------------------
(***************************************************************************)
(* The Linux labs on one board, one at a time: the character drivers, the  *)
(* profiling commands, the frame buffer player.                            *)
(***************************************************************************)
EXTENDS CharDrivers, Perfmon, VideoFrame, TLC

VARIABLE lab

Drivers_lab(A)  == lab = "drivers" /\ A /\ UNCHANGED <<lab, perfVars, frameVars>>
Perfmon_lab(A)  == lab = "perfmon" /\ A /\ UNCHANGED <<lab, drvVars, frameVars>>
Video_lab(A)    == lab = "video" /\ A /\ UNCHANGED <<lab, drvVars, perfVars>>

\* Of the labs that do not run one initial state is enough.
Init == /\ lab \in {"drivers", "perfmon", "video"}
        /\ DrvInit /\ PerfInit /\ VideoInit
        /\ lab # "drivers" => built = {"mydevice_ioctl"}
        /\ lab # "perfmon" => ccnt = 0
Next == Drivers_lab(DrvNext) \/ Perfmon_lab(PerfNext) \/ Video_lab(VideoNext)

Spec == Init /\ [][Next]_<<lab, drvVars, perfVars, frameVars>>

\* No property tells the processes apart, and all are invariants.
Symmetry == Permutations(Processes)
=============================================================================
