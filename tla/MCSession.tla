------------------------------ MODULE MCSession ------------------------------
(***************************************************************************)
(* Small instances of Session for TLC, with the bundled packages and a     *)
(* package of the kind an organisation may load beside them.               *)
(***************************************************************************)
EXTENDS SessionProperties

CONSTANTS Rows, Pages   \* what a customer read and a page read may return

\* The requirement of its first rule can never be met: a repair that does not help.
Reviewed ==
    [id |-> "REVIEWED", rules |-> <<
        Rule("REVIEWED_TRANSFER", "TRANSFER", {"EXTERNAL_TRANSFER"},
             {Predicate(Fact("recipient_type"), "IN", {"external"})},
             {Predicate(Fact("transfer_reviewed"), "TRUTHY", None)}, "LOW", "AGGREGATE"),
        Rule("REVIEWED_SENSITIVE", "SENSITIVE", {"RESPONSE_GENERATED", "MEMORY_WRITE"},
             {Is(Sensitive, "true")}, {Is(Fact("is_minimized"), "true")}, "HIGH", "REDACT"),
        Rule("REVIEWED_INGESTION", "INGESTION", {"TOOL_RESULT"},
             {Is(Sensitive, "true")}, {Is(Fact("source_reviewed"), "true")},
             "HIGH", "REQUIRE_APPROVAL")>>]

AllPackages == {GDPR, PIPL, Reviewed}

AllSelections == {<<"GDPR">>, <<"PIPL">>, <<"GDPR", "PIPL">>, <<"REVIEWED">>}
GdprOnly == {<<"GDPR">>}
PiplOnly == {<<"PIPL">>}

ASSUME PackagesAreSound == SoundPackages /\ BundledPackages

ReadBodies == [p \in {"rows", "page"} |-> IF p = "rows" THEN Rows ELSE Pages]
=============================================================================
