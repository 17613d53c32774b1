------------------------------ MODULE MCLaunch ------------------------------
(* Instances of Launch for TLC.                                            *)
EXTENDS Launch

Program(exe, mapped, machine, libc) ==
    [exe |-> exe, mapped |-> mapped, machine |-> machine, libc |-> libc]

(* Two supported versions, an old one, a program that embeds another       *)
(* version than the one it is named after, a program that is not Python,   *)
(* musl and another architecture.                                          *)
MCImages ==
    {Program({"3.10"}, {"3.10"}, "host", "glibc"),
     Program({}, {"3.12"}, "host", "glibc"),
     Program({"3.9"}, {"3.9"}, "host", "glibc"),
     Program({"3.10"}, {"3.10", "3.12"}, "host", "glibc"),
     Program({}, {}, "host", "glibc"),
     Program({"3.10"}, {"3.10"}, "host", "musl"),
     Program({"3.12"}, {"3.12"}, "foreign", "glibc")}
=============================================================================
