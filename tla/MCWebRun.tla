------------------------------- MODULE MCWebRun -------------------------------
(***************************************************************************)
(* A small instance of WebRun for TLC: GDPR, and a reviewed package whose  *)
(* repair of a transfer leaves no browser action.                          *)
(***************************************************************************)
EXTENDS WebRun

Reviewed ==
    [id |-> "REVIEWED", rules |-> <<
        Rule("REVIEWED_TRANSFER", "TRANSFER", {"EXTERNAL_TRANSFER"},
             {Predicate(Fact("recipient_type"), "IN", {"external"})},
             {Predicate(Fact("transfer_reviewed"), "TRUTHY", None)}, "LOW", "AGGREGATE")>>]

GdprAndReviewed == <<GDPR, Reviewed>>

Candidate(kind, body) == [kind |-> kind, body |-> body]

BrowserActions ==
    {Candidate("unknown", "plain"), Candidate("fill", "plain"), Candidate("fill", "contact"),
     Candidate("message", "plain"), Candidate("message", "contact"),
     Candidate("submit", "plain")}

\* Bound: no run reads what is left of an earlier handoff, so one history stands for all.  A
\* run is entered with nothing expired, no superseded script (its steps touch nothing that a run
\* touches) and no file but that of the handoff it goes on from.
SettledBeforeRun ==
    console.at \in {"running", "ended"} =>
        /\ superseded = NoScript
        /\ expired = {}
        /\ resumed = <<>> => files = {}

ASSUME RunIsRegulated == RegulatedRun
=============================================================================
