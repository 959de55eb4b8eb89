------------------------------ MODULE MCPlatform ------------------------------
(* The builds of Platform, and reports of up to three groups of processors *)
(* from none to more than the tables may have.                             *)
EXTENDS Platform

Build(p, d, n) == [platform |-> p, debug |-> d, numa |-> n]

MCUserBuilds == {Build("winuser", TRUE, FALSE), Build("winuser", FALSE, FALSE)}

MCBuilds == MCUserBuilds \cup
    {Build("posix", FALSE, FALSE), Build("posix", FALSE, TRUE), Build("winkernel", FALSE, FALSE)}

MCTopologies == {<<>>} \cup UNION {[1..n -> 0..2] : n \in 1..3}
=============================================================================
