------------------------------- MODULE Channel ------------------------------
(***************************************************************************)
(* What the framed connection promises the Collector, with no bytes, bulk  *)
(* batches or partial reads in it: the agent's records arrive in the order *)
(* in which it produced them, each once.  When the connection fails the    *)
(* rest is lost, and at most one more record arrives: the agent's ERROR    *)
(* notice, or the next record with a payload that is not the one sent.  A  *)
(* record that has no payload is never made up.                            *)
(***************************************************************************)
EXTENDS Naturals, Sequences

CONSTANTS
    Records,  \* the records an agent can produce
    Error     \* its ERROR record

VARIABLES
    sent,  \* the records the agent has produced
    got,   \* the records the Collector has received
    up     \* FALSE: nothing more will be received

vars == <<sent, got, up>>

Garble(r) == [r EXCEPT !.ok = FALSE]

Init == sent = <<>> /\ got = <<>> /\ up = TRUE

Put == /\ \E r \in Records : sent' = Append(sent, r)
       /\ UNCHANGED <<got, up>>

Get == /\ up = TRUE /\ Len(got) < Len(sent)
       /\ got' = Append(got, sent[Len(got) + 1])
       /\ UNCHANGED <<sent, up>>

Fail ==
    /\ up = TRUE /\ up' = FALSE
    /\ \/ got' = got
       \/ got' = Append(got, Error)
       \/ /\ Len(got) < Len(sent) /\ sent[Len(got) + 1].size > 0
          /\ got' = Append(got, Garble(sent[Len(got) + 1]))
    /\ UNCHANGED sent

Next == Put \/ Get \/ Fail

Spec == Init /\ [][Next]_vars
=============================================================================
