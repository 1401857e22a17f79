---------------------------- MODULE SeededPrompts ----------------------------
(***************************************************************************)
(* The templates that the seed puts into the store (prompts[] of           *)
(* src/prisma/seed.ts), as far as a composed prompt tells them apart.      *)
(*                                                                         *)
(* Of a text there remain its placeholders, in order and as often as they  *)
(* occur, and the place of its SECURITY NOTICE, below which everything is  *)
(* declared to be untrusted.  Next to it stands what the seed declares as  *)
(* the template's variables.                                               *)
(***************************************************************************)
EXTENDS Sequences

Prompt(text, variables) == [text |-> text, variables |-> variables]

\* The SECURITY NOTICE, among the names of placeholders.
Notice == "SECURITY NOTICE"

\* A text without placeholders.
Plain == Prompt(<< >>, {})

(* Structural analysis *)

StructuralAnalysis ==
    Prompt(<< "DATA_TYPE", "CATEGORY", "CONTENT_GOAL", "HINTS_SECTION",
              "SCHEMA_DESCRIPTION", "HTML" >>,
           {"DATA_TYPE", "CONTENT_GOAL", "CATEGORY", "HINTS_SECTION",
            "SCHEMA_DESCRIPTION", "HTML"})

SchemaPropositions == Plain
SchemaMeetings == Plain
SchemaRepresentatives == Plain
SchemaDefault == Plain
SchemaCampaignFinance == Plain
SchemaLobbying == Plain

PdfTextRules ==
    Prompt(<< "CONTENT_GOAL", "DATA_TYPE", "HINTS_SECTION", "DATA_TYPE",
              "REQUIRED_FIELDS", "TEXT" >>,
           {"CONTENT_GOAL", "DATA_TYPE", "HINTS_SECTION", "REQUIRED_FIELDS",
            "TEXT"})

PdfFieldsMeetings == Plain
PdfFieldsPropositions == Plain
PdfFieldsRepresentatives == Plain
PdfFieldsDefault == Prompt(<< "DATA_TYPE" >>, {"DATA_TYPE"})

(* Document analysis: some of the texts have a notice. *)

BaseInstructions == Plain

Generic == Prompt(<< Notice, "TEXT" >>, {"TEXT"})
Petition == Prompt(<< Notice, "TEXT" >>, {"TEXT"})
RepresentativeBio == Prompt(<< "TEXT" >>, {"TEXT"})
RepresentativeCommitteesSummary == Prompt(<< "TEXT" >>, {"TEXT"})
RepresentativeActivitySummary == Prompt(<< "TEXT" >>, {"TEXT"})
CommitteeActivitySummary == Prompt(<< "TEXT" >>, {"TEXT"})
MinutesSummary == Prompt(<< Notice, "TEXT" >>, {"TEXT"})
LegislativeCommitteeDescription == Prompt(<< "TEXT" >>, {"TEXT"})
Proposition == Prompt(<< Notice, "TEXT" >>, {"TEXT"})
\* Its rules are replaced when the file is loaded; no placeholder is concerned.
PropositionAnalysis == Prompt(<< "TEXT" >>, {"TEXT"})
Contract == Prompt(<< Notice, "TEXT" >>, {"TEXT"})
Form == Prompt(<< Notice, "TEXT" >>, {"TEXT"})

Rag == Prompt(<< "CONTEXT", "QUERY" >>, {"CONTEXT", "QUERY"})

(* Extraction *)

BillExtraction ==
    Prompt(<< "REGION_ID", "SOURCE_URL", "SESSION_YEAR", Notice, "HTML",
              "SESSION_YEAR", "SESSION_YEAR" >>,
           {"REGION_ID", "SOURCE_URL", "SESSION_YEAR", "HTML"})

BillVotesExtraction ==
    Prompt(<< "REGION_ID", "SOURCE_URL", "SESSION_YEAR", "BILL_ID", Notice,
              "HTML", "BILL_ID", "BILL_ID" >>,
           {"REGION_ID", "SOURCE_URL", "SESSION_YEAR", "BILL_ID", "HTML"})

\* Mistake: the hints under the name that structural analysis has for them.
CivicsExtractionHintsSection ==
    Prompt(<< "REGION_ID", "SOURCE_URL", "CONTENT_GOAL", "CATEGORY",
              "HINTS_SECTION", Notice, "HTML", "SOURCE_URL", "SOURCE_URL",
              "SOURCE_URL" >>,
           {"REGION_ID", "SOURCE_URL", "CONTENT_GOAL", "CATEGORY", "HINTS",
            "HTML"})

CivicsExtraction ==
    Prompt(<< "REGION_ID", "SOURCE_URL", "CONTENT_GOAL", "CATEGORY", "HINTS",
              Notice, "HTML", "SOURCE_URL", "SOURCE_URL", "SOURCE_URL" >>,
           {"REGION_ID", "SOURCE_URL", "CONTENT_GOAL", "CATEGORY", "HINTS",
            "HTML"})

CivicsExtractionCompact ==
    Prompt(<< "REGION_ID", "SOURCE_URL", "CONTENT_GOAL", "CATEGORY", "HINTS",
              Notice, "HTML", "SOURCE_URL", "SOURCE_URL", "SOURCE_URL" >>,
           {"REGION_ID", "SOURCE_URL", "CONTENT_GOAL", "CATEGORY", "HINTS",
            "HTML"})

(* Bills *)

\* Mistake: the official summary stands among the metadata.
BillAnalysisHoisted ==
    Prompt(<< "REGION_ID", "BILL_NUMBER", "SESSION_YEAR", "TITLE", "SUBJECT",
              "STATUS", "AUTHOR", "OFFICIAL_SUMMARY_BLOCK", Notice,
              "FISCAL_IMPACT_BLOCK", "FULL_TEXT" >>,
           {"REGION_ID", "BILL_NUMBER", "SESSION_YEAR", "TITLE", "SUBJECT",
            "STATUS", "AUTHOR", "OFFICIAL_SUMMARY_BLOCK",
            "FISCAL_IMPACT_BLOCK", "FULL_TEXT"})

BillAnalysis ==
    Prompt(<< "REGION_ID", "BILL_NUMBER", "SESSION_YEAR", "TITLE", "SUBJECT",
              "STATUS", "AUTHOR", Notice, "OFFICIAL_SUMMARY_BLOCK",
              "FISCAL_IMPACT_BLOCK", "FULL_TEXT" >>,
           {"REGION_ID", "BILL_NUMBER", "SESSION_YEAR", "TITLE", "SUBJECT",
            "STATUS", "AUTHOR", "OFFICIAL_SUMMARY_BLOCK",
            "FISCAL_IMPACT_BLOCK", "FULL_TEXT"})

BillRelevanceExplanation ==
    Prompt(<< "REGION_ID", "BILL_NUMBER", "SESSION_YEAR", "TITLE",
              "BILL_TOPICS", "BILL_WHO_IT_AFFECTS", "FISCAL_IMPACT_LINE",
              "STAKEHOLDER_IMPACT_LINE", "BILL_SECTION_HINT_LINE",
              "USER_INTEREST_TAGS", "USER_RANKING_FLAGS", "USER_REGION_LINE",
              Notice, "PLAIN_ENGLISH_SUMMARY_BLOCK" >>,
           {"REGION_ID", "BILL_NUMBER", "SESSION_YEAR", "TITLE",
            "BILL_TOPICS", "BILL_WHO_IT_AFFECTS", "FISCAL_IMPACT_LINE",
            "STAKEHOLDER_IMPACT_LINE", "BILL_SECTION_HINT_LINE",
            "USER_INTEREST_TAGS", "USER_RANKING_FLAGS", "USER_REGION_LINE",
            "PLAIN_ENGLISH_SUMMARY_BLOCK"})

BillStatusSummary ==
    Prompt(<< "REGION_ID", "BILL_NUMBER", "SESSION_YEAR", "TITLE",
              "PRIOR_STATUS_LINE", "PRIOR_STAGE_LINE", "REGION_ID",
              "LIFECYCLE_STAGES_BLOCK", Notice, "HTML" >>,
           {"REGION_ID", "BILL_NUMBER", "SESSION_YEAR", "TITLE",
            "PRIOR_STATUS_LINE", "PRIOR_STAGE_LINE",
            "LIFECYCLE_STAGES_BLOCK", "HTML"})

(* Relevance to a user *)

PropositionRelevanceExplanation ==
    Prompt(<< "REGION_ID", "PROPOSITION_NUMBER", "ELECTION_DATE", "TITLE",
              "PROP_TOPICS", "PROP_WHO_IT_AFFECTS", "FISCAL_IMPACT_LINE",
              "STAKEHOLDER_IMPACT_LINE", "PROVISION_HINT_LINE",
              "USER_INTEREST_TAGS", "USER_RANKING_FLAGS", "USER_REGION_LINE",
              Notice, "PLAIN_ENGLISH_SUMMARY_BLOCK" >>,
           {"REGION_ID", "PROPOSITION_NUMBER", "ELECTION_DATE", "TITLE",
            "PROP_TOPICS", "PROP_WHO_IT_AFFECTS", "FISCAL_IMPACT_LINE",
            "STAKEHOLDER_IMPACT_LINE", "PROVISION_HINT_LINE",
            "USER_INTEREST_TAGS", "USER_RANKING_FLAGS", "USER_REGION_LINE",
            "PLAIN_ENGLISH_SUMMARY_BLOCK"})

RepresentativeRelevanceExplanation ==
    Prompt(<< "REGION_ID", "REP_NAME", "OFFICE_TITLE", "JURISDICTION",
              "PARTY_LINE", "TOPICS_OF_FOCUS", "COMMITTEE_MEMBERSHIPS",
              "RECENT_ACTION_LINE", "UPCOMING_EVENT_LINE",
              "USER_INTEREST_TAGS", "USER_RANKING_FLAGS", "USER_REGION_LINE",
              Notice, "MANDATE_SUMMARY_BLOCK" >>,
           {"REGION_ID", "REP_NAME", "OFFICE_TITLE", "JURISDICTION",
            "PARTY_LINE", "TOPICS_OF_FOCUS", "COMMITTEE_MEMBERSHIPS",
            "RECENT_ACTION_LINE", "UPCOMING_EVENT_LINE",
            "USER_INTEREST_TAGS", "USER_RANKING_FLAGS", "USER_REGION_LINE",
            "MANDATE_SUMMARY_BLOCK"})

CommitteeRelevanceExplanation ==
    Prompt(<< "REGION_ID", "COMMITTEE_NAME", "JURISDICTION",
              "COMMITTEE_TYPE_LINE", "COMMITTEE_TOPICS",
              "MEMBERS_ON_USER_SLATE", "RECENT_TOPICS_LINE",
              "UPCOMING_HEARINGS_BLOCK", "USER_INTEREST_TAGS",
              "USER_RANKING_FLAGS", "USER_REGION_LINE", Notice,
              "MANDATE_SUMMARY_BLOCK" >>,
           {"REGION_ID", "COMMITTEE_NAME", "JURISDICTION",
            "COMMITTEE_TYPE_LINE", "COMMITTEE_TOPICS",
            "MEMBERS_ON_USER_SLATE", "RECENT_TOPICS_LINE",
            "UPCOMING_HEARINGS_BLOCK", "USER_INTEREST_TAGS",
            "USER_RANKING_FLAGS", "USER_REGION_LINE",
            "MANDATE_SUMMARY_BLOCK"})

BriefingSummary ==
    Prompt(<< "LANGUAGE", "FIRST_NAME_AVAILABILITY_LINE", "BILL_COUNT",
              "REP_COUNT", "COMMITTEE_COUNT", "PROPOSITION_COUNT",
              "URGENT_BILL_COUNT", "TOP_BILL_TOP_AXIS", Notice,
              "FIRST_NAME_BLOCK", "LANGUAGE", "LANGUAGE_CODE",
              "URGENT_BILL_COUNT", "TOP_BILL_TOP_AXIS", "LANGUAGE",
              "LANGUAGE_CODE" >>,
           {"LANGUAGE", "LANGUAGE_CODE", "FIRST_NAME_AVAILABILITY_LINE",
            "FIRST_NAME_BLOCK", "BILL_COUNT", "REP_COUNT", "COMMITTEE_COUNT",
            "PROPOSITION_COUNT", "URGENT_BILL_COUNT", "TOP_BILL_TOP_AXIS"})

PersonalizedImpact ==
    Prompt(<< "DOCUMENT_TYPE", "DOCUMENT_TYPE", "MATCHED_MEASURE_LINE",
              "USER_INTEREST_TAGS", "USER_RANKING_FLAGS", "USER_REGION_LINE",
              Notice, "ACTUAL_EFFECT_LINE", "BENEFICIARIES",
              "POTENTIALLY_HARMED", "SUMMARY_BLOCK" >>,
           {"DOCUMENT_TYPE", "ACTUAL_EFFECT_LINE", "BENEFICIARIES",
            "POTENTIALLY_HARMED", "MATCHED_MEASURE_LINE",
            "USER_INTEREST_TAGS", "USER_RANKING_FLAGS", "USER_REGION_LINE",
            "SUMMARY_BLOCK"})

(* Transcription *)

OcrTranscription == Plain
OcrTranscriptionDocument == Plain

(* The table, by name *)

\* The templates whose names a request completes with what it names itself.
SchemaTemplates ==
    {"structural-schema-propositions", "structural-schema-meetings",
     "structural-schema-representatives", "structural-schema-default",
     "structural-schema-campaign_finance", "structural-schema-lobbying"}

DocumentTemplates ==
    {"document-analysis-base-instructions", "document-analysis-generic",
     "document-analysis-petition", "document-analysis-representative-bio",
     "document-analysis-representative-committees-summary",
     "document-analysis-representative-activity-summary",
     "document-analysis-committee-activity-summary",
     "document-analysis-minutes-summary",
     "document-analysis-legislative-committee-description",
     "document-analysis-proposition",
     "document-analysis-proposition-analysis", "document-analysis-contract",
     "document-analysis-form"}

PromptNames ==
    SchemaTemplates \cup DocumentTemplates \cup
    {"structural-analysis", "pdf-text-rules",
     "pdf-text-rules-fields-meetings", "pdf-text-rules-fields-propositions",
     "pdf-text-rules-fields-representatives", "pdf-text-rules-fields-default",
     "rag", "bill-extraction", "bill-votes-extraction", "civics-extraction",
     "civics-extraction-compact", "bill-analysis",
     "bill-relevance-explanation", "bill-status-summary",
     "proposition-relevance-explanation",
     "representative-relevance-explanation",
     "committee-relevance-explanation", "briefing-summary",
     "personalized-impact", "ocr-transcription", "ocr-transcription-document"}

prompts ==
    [name \in PromptNames |->
        CASE name = "structural-analysis" -> StructuralAnalysis
          [] name = "structural-schema-propositions" -> SchemaPropositions
          [] name = "structural-schema-meetings" -> SchemaMeetings
          [] name = "structural-schema-representatives" ->
                 SchemaRepresentatives
          [] name = "structural-schema-default" -> SchemaDefault
          [] name = "structural-schema-campaign_finance" ->
                 SchemaCampaignFinance
          [] name = "structural-schema-lobbying" -> SchemaLobbying
          [] name = "pdf-text-rules" -> PdfTextRules
          [] name = "pdf-text-rules-fields-meetings" -> PdfFieldsMeetings
          [] name = "pdf-text-rules-fields-propositions" ->
                 PdfFieldsPropositions
          [] name = "pdf-text-rules-fields-representatives" ->
                 PdfFieldsRepresentatives
          [] name = "pdf-text-rules-fields-default" -> PdfFieldsDefault
          [] name = "document-analysis-base-instructions" -> BaseInstructions
          [] name = "document-analysis-generic" -> Generic
          [] name = "document-analysis-petition" -> Petition
          [] name = "document-analysis-representative-bio" -> RepresentativeBio
          [] name = "document-analysis-representative-committees-summary" ->
                 RepresentativeCommitteesSummary
          [] name = "document-analysis-representative-activity-summary" ->
                 RepresentativeActivitySummary
          [] name = "document-analysis-committee-activity-summary" ->
                 CommitteeActivitySummary
          [] name = "document-analysis-minutes-summary" -> MinutesSummary
          [] name = "document-analysis-legislative-committee-description" ->
                 LegislativeCommitteeDescription
          [] name = "document-analysis-proposition" -> Proposition
          [] name = "document-analysis-proposition-analysis" ->
                 PropositionAnalysis
          [] name = "document-analysis-contract" -> Contract
          [] name = "document-analysis-form" -> Form
          [] name = "rag" -> Rag
          [] name = "bill-extraction" -> BillExtraction
          [] name = "bill-votes-extraction" -> BillVotesExtraction
          [] name = "civics-extraction" -> CivicsExtraction
          [] name = "civics-extraction-compact" -> CivicsExtractionCompact
          [] name = "bill-analysis" -> BillAnalysis
          [] name = "bill-relevance-explanation" -> BillRelevanceExplanation
          [] name = "bill-status-summary" -> BillStatusSummary
          [] name = "proposition-relevance-explanation" ->
                 PropositionRelevanceExplanation
          [] name = "representative-relevance-explanation" ->
                 RepresentativeRelevanceExplanation
          [] name = "committee-relevance-explanation" ->
                 CommitteeRelevanceExplanation
          [] name = "briefing-summary" -> BriefingSummary
          [] name = "personalized-impact" -> PersonalizedImpact
          [] name = "ocr-transcription" -> OcrTranscription
          [] name = "ocr-transcription-document" -> OcrTranscriptionDocument]
==============================================================================
