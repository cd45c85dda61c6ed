-------------------------- MODULE WebhookDelivery --------------------------
(***************************************************************************)
(* What the inbox promises about a webhook it took: Paymanager is asked to *)
(* carry it out only while it is open, it is reported done only after it   *)
(* took effect, and being done or given up is final.  A request may be     *)
(* carried out long after it was made, so a webhook can take effect after  *)
(* it was given up.  It takes effect once, unless it is of a kind that     *)
(* Paymanager does not protect from two overlapping requests.  IngestInbox *)
(* implements it.                                                          *)
(***************************************************************************)
CONSTANTS
  Hooks,
  Unprotected   \* webhooks that two overlapping requests can apply twice

VARIABLES
  box,     \* each webhook: not taken, open, done or given up
  asked,   \* webhooks with a request that may yet be carried out
  effect,  \* webhooks that took effect at Paymanager
  again    \* webhooks that took effect a second time

vars == <<box, asked, effect, again>>

Init ==
  /\ box = [h \in Hooks |-> "none"]
  /\ asked = {}
  /\ effect = {}
  /\ again = {}

Move(h, from, to) ==
  /\ box[h] = from
  /\ box' = [box EXCEPT ![h] = to]
  /\ UNCHANGED <<asked, effect, again>>

Take(h) == Move(h, "none", "open")

Ask(h) ==
  /\ box[h] = "open"
  /\ asked' = asked \cup {h}
  /\ UNCHANGED <<box, effect, again>>

\* A request is over; others about the webhook may go on.
Answered(h) == asked' \in {asked, asked \ {h}} /\ UNCHANGED box

Lose(h) == Answered(h) /\ UNCHANGED <<effect, again>>

TakeEffect(h) ==
  /\ box[h] = "open" \/ h \in asked
  /\ h \notin effect
  /\ effect' = effect \cup {h}
  /\ Answered(h)
  /\ UNCHANGED again

TakeEffectAgain(h) ==
  /\ h \in Unprotected \cap asked \cap effect
  /\ again' = again \cup {h}
  /\ Answered(h)
  /\ UNCHANGED effect

Finish(h) == h \in effect /\ Move(h, "open", "done")

GiveUp(h) == Move(h, "open", "given_up")

Next ==
  \E h \in Hooks :
    \/ Take(h) \/ Ask(h) \/ Lose(h)
    \/ TakeEffect(h) \/ TakeEffectAgain(h)
    \/ Finish(h) \/ GiveUp(h)

Spec == Init /\ [][Next]_vars
=============================================================================
