-------------------------- MODULE MCPartnerPayouts --------------------------
(* PartnerPayouts for TLC: two payouts, two jobs.                           *)
EXTENDS PartnerPayouts

CONSTANTS p1, p2, kick, tick

MCPayouts == {p1, p2}
MCJobs == {kick, tick}

=============================================================================
