------------------------------ MODULE Publisher ------------------------------
(***************************************************************************)
(* What the transport promises a client of its socket, whatever the two    *)
(* threads behind it do.  The passes of the coherent thread come out in    *)
(* order; some are left out, when main is late.  A main that is two passes *)
(* late may publish a buffer that was written again: the pass after next,  *)
(* before it is handed over.  Such an early packet may be followed by the  *)
(* pass before it, and by its own pass under another number.  Otherwise    *)
(* the pass that came out last only comes out again as the same packet,    *)
(* number included, or spoilt.  A packet is only torn when a later pass    *)
(* was handed over before it went out.  Nothing is promised of the numbers *)
(* of two passes.                                                          *)
(***************************************************************************)
EXTENDS Integers

VARIABLES
  made,           \* passes handed over so far
  packet          \* the packet that went out last

vars == <<made, packet>>

Init ==
  /\ made = 0
  /\ packet = [seq |-> -1, pass |-> 0, kind |-> "whole"]

\* The coherent thread hands a pass over.
Make ==
  /\ made' = made + 1
  /\ UNCHANGED packet

\* A packet goes out under some number.
GoesOut(pass, kind) ==
  packet' = [seq |-> packet'.seq, pass |-> pass, kind |-> kind]

\* The first pass that may go out next, as one handed over.
NextPass == IF packet.kind = "early" THEN packet.pass - 1 ELSE packet.pass + 1

\* A pass that was handed over goes out.
PublishMade ==
  /\ \E p \in NextPass .. made :
       GoesOut(p, "whole") \/ (p < made /\ GoesOut(p, "torn"))
  /\ UNCHANGED made

\* The next pass to be handed over goes out before it is.
PublishEarly ==
  /\ packet.pass <= made
  /\ GoesOut(made + 1, "early")
  /\ UNCHANGED made

\* The pass that was whole goes out again, torn.
PublishSpoilt ==
  /\ packet.kind = "whole" /\ packet.pass < made
  /\ GoesOut(packet.pass, "torn")
  /\ UNCHANGED made

Next == Make \/ PublishMade \/ PublishEarly \/ PublishSpoilt

Spec == Init /\ [][Next]_vars
=============================================================================
