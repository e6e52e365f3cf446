--------------------------- MODULE MCInboundSheet ---------------------------
(* Small instances of InboundSheet for TLC: two inquiries of one company   *)
(* or of two, the second of which a person may type.                       *)
EXTENDS InboundSheet

CONSTANTS i1, i2, c1, c2

Together == {[i \in Inquiries |-> c1]}
Either == Together \cup {[i \in Inquiries |-> IF i = i1 THEN c1 ELSE c2]}
OnlyTickets == {{}}
TicketsOrTyped == {{}, {i2}}
=============================================================================
