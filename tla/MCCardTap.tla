----------------------------- MODULE MCCardTap -----------------------------
(* CardTap for TLC: one card, two taps, two callbacks; c1 pays a hold       *)
(* invoice of this server, c2 somebody else's invoice.                      *)
EXTENDS CardTap

CONSTANTS c1, c2

MCCalls == {c1, c2}
MCOwn == {c1}

\* Bound: once every callback has begun, nobody taps the card and its owner lets it be.
CardRests ==
  (\A c \in Calls : call[c] # "idle") /\ call' = call => UNCHANGED cardVars

MCSpec == Init /\ [][Next /\ CardRests]_vars

=============================================================================
