------------------------------- MODULE MCAsync -------------------------------
(* Every build of the library.  *)
EXTENDS Async

Build(p, c, d, n) == [platform |-> p, custom |-> c, debug |-> d, numa |-> n]

\* Assertions about creation exist in kernel mode only.
MCBuilds ==
    {Build("linux", c, FALSE, n) : c, n \in BOOLEAN}
    \cup {Build("posix", FALSE, FALSE, FALSE)}
    \cup {Build("winuser", c, FALSE, FALSE) : c \in BOOLEAN}
    \cup {Build("winkernel", FALSE, d, FALSE) : d \in BOOLEAN}
=============================================================================
