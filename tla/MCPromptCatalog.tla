--------------------------- MODULE MCPromptCatalog ---------------------------
(* The catalog with the types that the seed has templates for. *)
EXTENDS PromptCatalog

MCDataTypes == {"propositions", "meetings", "representatives",
                "campaign_finance", "lobbying", "default"}

MCDocumentTypes ==
    {"generic", "petition", "representative-bio",
     "representative-committees-summary", "representative-activity-summary",
     "committee-activity-summary", "minutes-summary",
     "legislative-committee-description", "proposition",
     "proposition-analysis", "contract", "form", "base-instructions"}

\* Bound: a request is answered, refused or fails, and then another service
\* starts.
OneRequest == stage \notin {"refused", "failed", "answered"}
==============================================================================
