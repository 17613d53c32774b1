-------------------------- MODULE MCCaptureSession --------------------------
(* Instances of CaptureSession for TLC.                                    *)
EXTENDS CaptureSession, TLC

CONSTANTS a, b, c, t, null

MCObj == {a, b, c, t}
MCWellKnown == {t}
AllT == [o \in MCObj |-> t]

(* A cycle of which one member is not a root, and an empty slot.           *)
Cyclic == [roots |-> {a, t}, type |-> AllT,
           refs |-> (a :> {b, null} @@ b :> {a} @@ c :> {} @@ t :> {})]

(* The same addresses reused: b is gone, c takes its place.                *)
Reused == [roots |-> {a, c, t}, type |-> AllT,
           refs |-> (a :> {c} @@ b :> {} @@ c :> {c} @@ t :> {})]

MCHeaps == {Cyclic, Reused}
=============================================================================
