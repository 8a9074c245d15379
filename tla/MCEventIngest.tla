--------------------------- MODULE MCEventIngest ---------------------------
(* One newsletter e-mail and one system mail with an event each, and one   *)
(* message that is no event.                                               *)
EXTENDS EventIngest

CONSTANTS news, sys, delivery, bounce, sysEvent, garbage

MCMails == {news, sys}
MCNewsletter == {news}
MCEvents == {delivery, sysEvent, garbage}
MCMailOf == [e \in MCEvents |-> IF e = sysEvent THEN sys ELSE news]
MCMalformed == {garbage}
MCSesType == [e \in MCEvents |-> "Delivery"]

\* Two events of the same newsletter e-mail.
PairMails == {news}
PairEvents == {delivery, bounce}
PairMailOf == [e \in PairEvents |-> news]
PairSesType == [e \in PairEvents |-> IF e = bounce THEN "Bounce" ELSE "Delivery"]
NoEvents == {}

=============================================================================
