---------------------------- MODULE PromptRequests ---------------------------
(***************************************************************************)
(* What the endpoints for prompts accept (the DTOs of src/src/prompts/dto) *)
(* and what they make of it (the descriptors of                            *)
(* src/src/prompts/prompts.service.ts).                                    *)
(*                                                                         *)
(* A request r is a record: its endpoint, its body (field -> what sort of  *)
(* value it has), the type of data or document it names, and the           *)
(* placeholder that those of its values quote that contain one.  A prompt  *)
(* is a sequence of tokens: placeholders, the value of a field, words of   *)
(* the service's own, the notice.                                          *)
(***************************************************************************)
EXTENDS Sequences

(* Values.  A flag that is false is empty, as is a list without entries; a  *)
(* bad value has a wrong type or form.  A list of objects may have an entry *)
(* that is null, or one that is a list itself.                              *)
Sorts == {"absent", "empty", "spaces", "given", "quoting", "bad",
          "nullEntry", "listEntry"}

\* The sorts that a field's decorators let pass.  IsNotEmpty refuses the empty
\* string only, IsOptional lets null and undefined pass.
Text == {"empty", "spaces", "given", "quoting"}
NonEmptyText == {"spaces", "given", "quoting"}
OptionalText == Text \cup {"absent"}
Choice == {"given"}
OptionalChoice == {"absent", "given"}
OptionalFlag == {"absent", "empty", "given"}
List == {"empty", "given", "quoting"}
OptionalList == List \cup {"absent"}
NonEmptyList == {"given", "quoting"}

\* ValidateNested looks at the fields of objects: it passes over an entry that
\* is null, and of an entry that is a list it looks at the entries.
Unchecked == {"nullEntry", "listEntry"}
NestedList == List \cup Unchecked
NonEmptyNestedList == NonEmptyList \cup Unchecked

StructuralAnalysisDto ==
    [dataType |-> Text, contentGoal |-> Text, html |-> Text,
     category |-> OptionalText, hints |-> OptionalList]

DocumentAnalysisDto ==
    [documentType |-> Text, text |-> Text]

RagDto ==
    [context |-> Text, query |-> Text]

CivicsExtractionDto ==
    [regionId |-> Text, sourceUrl |-> Text, contentGoal |-> Text,
     html |-> Text, category |-> OptionalText, hints |-> OptionalList,
     compact |-> OptionalFlag]

BillExtractionDto ==
    [regionId |-> NonEmptyText, sourceUrl |-> NonEmptyText,
     html |-> NonEmptyText, sessionYear |-> Choice]

BillVotesExtractionDto ==
    [regionId |-> NonEmptyText, sourceUrl |-> NonEmptyText,
     billId |-> NonEmptyText, html |-> NonEmptyText, sessionYear |-> Choice]

BillAnalysisDto ==
    [regionId |-> NonEmptyText, billNumber |-> NonEmptyText,
     title |-> NonEmptyText, fullText |-> NonEmptyText,
     sessionYear |-> Choice, subject |-> OptionalText,
     status |-> OptionalText, authorName |-> OptionalText,
     officialSummary |-> OptionalText, fiscalImpactSummary |-> OptionalText]

BillRelevanceExplanationDto ==
    [regionId |-> NonEmptyText, billNumber |-> NonEmptyText,
     title |-> NonEmptyText, plainEnglishSummary |-> NonEmptyText,
     sessionYear |-> Choice, topics |-> List, whoItAffects |-> List,
     userInterestTags |-> List, userRankingFlags |-> List,
     fiscalImpactLevel |-> OptionalChoice,
     fiscalImpactSummary |-> OptionalText, stakeholderImpact |-> OptionalText,
     billSectionHint |-> OptionalText, userRegionLabel |-> OptionalText]

\* The entries of lifecycleStages have three fields, none of them empty.
BillStatusSummaryDto ==
    [regionId |-> NonEmptyText, billNumber |-> NonEmptyText,
     title |-> NonEmptyText, html |-> NonEmptyText, sessionYear |-> Choice,
     lifecycleStages |-> NonEmptyNestedList, priorStatus |-> OptionalText,
     priorStage |-> OptionalText]

BriefingSummaryDto ==
    [language |-> Choice, billCount |-> Choice, repCount |-> Choice,
     committeeCount |-> Choice, propositionCount |-> Choice,
     urgentBillCount |-> Choice, firstName |-> OptionalText,
     topBillTopAxis |-> OptionalChoice]

PropositionRelevanceExplanationDto ==
    [regionId |-> NonEmptyText, propositionNumber |-> NonEmptyText,
     title |-> NonEmptyText, plainEnglishSummary |-> NonEmptyText,
     electionDate |-> Choice, topics |-> List, whoItAffects |-> List,
     userInterestTags |-> List, userRankingFlags |-> List,
     fiscalImpactLevel |-> OptionalChoice,
     fiscalImpactSummary |-> OptionalText, stakeholderImpact |-> OptionalText,
     provisionHint |-> OptionalText, userRegionLabel |-> OptionalText]

RepresentativeRelevanceExplanationDto ==
    [regionId |-> NonEmptyText, repName |-> NonEmptyText,
     officeTitle |-> NonEmptyText, mandateSummary |-> NonEmptyText,
     jurisdiction |-> Choice, party |-> OptionalChoice,
     topicsOfFocus |-> List, committeeMemberships |-> List,
     userInterestTags |-> List, userRankingFlags |-> List,
     recentLegislativeAction |-> OptionalText, upcomingEvent |-> OptionalText,
     userRegionLabel |-> OptionalText]

CommitteeRelevanceExplanationDto ==
    [regionId |-> NonEmptyText, committeeName |-> NonEmptyText,
     mandateSummary |-> NonEmptyText, jurisdiction |-> Choice,
     committeeType |-> OptionalChoice, topics |-> List,
     membersOnUserSlate |-> List, recentBillTopicsTouched |-> List,
     upcomingHearings |-> NestedList, userInterestTags |-> List,
     userRankingFlags |-> List, userRegionLabel |-> OptionalText]

PersonalizedImpactDto ==
    [summary |-> NonEmptyText, documentType |-> Choice,
     actualEffect |-> OptionalText, matchedMeasureTitle |-> OptionalText,
     userRegionLabel |-> OptionalText, beneficiaries |-> List,
     potentiallyHarmed |-> List, userInterestTags |-> List,
     userRankingFlags |-> List]

\* The body that each endpoint takes.
Endpoints ==
    {"structural-analysis", "document-analysis", "rag", "civics-extraction",
     "bill-extraction", "bill-votes-extraction", "bill-analysis",
     "bill-relevance-explanation", "personalized-impact",
     "bill-status-summary", "briefing-summary",
     "proposition-relevance-explanation",
     "representative-relevance-explanation",
     "committee-relevance-explanation"}

Dto ==
    [endpoint \in Endpoints |->
        CASE endpoint = "structural-analysis" -> StructuralAnalysisDto
          [] endpoint = "document-analysis" -> DocumentAnalysisDto
          [] endpoint = "rag" -> RagDto
          [] endpoint = "civics-extraction" -> CivicsExtractionDto
          [] endpoint = "bill-extraction" -> BillExtractionDto
          [] endpoint = "bill-votes-extraction" -> BillVotesExtractionDto
          [] endpoint = "bill-analysis" -> BillAnalysisDto
          [] endpoint = "bill-relevance-explanation" ->
                 BillRelevanceExplanationDto
          [] endpoint = "personalized-impact" -> PersonalizedImpactDto
          [] endpoint = "bill-status-summary" -> BillStatusSummaryDto
          [] endpoint = "briefing-summary" -> BriefingSummaryDto
          [] endpoint = "proposition-relevance-explanation" ->
                 PropositionRelevanceExplanationDto
          [] endpoint = "representative-relevance-explanation" ->
                 RepresentativeRelevanceExplanationDto
          [] endpoint = "committee-relevance-explanation" ->
                 CommitteeRelevanceExplanationDto]

\* The ValidationPipe: every field has a sort its decorators let pass.
Valid(r) == \A f \in DOMAIN r.body : r.body[f] \in Dto[r.endpoint][f]

------------------------------------------------------------------------------
(* Tokens *)

Hole(v) == << "placeholder", v >>
Value(f) == << "value", f >>
Words == << "words" >>           \* "none declared" and the like
Undefined == << "undefined" >>   \* a missing value, put into a text
Failed == << "failed" >>         \* building the variables throws

\* A value as it stands in a template string.
Bare(r, f) ==
    CASE r.body[f] = "absent" -> << Undefined >>
      [] r.body[f] = "empty" -> << >>
      [] r.body[f] = "quoting" -> << Value(f), Hole(r.quote) >>
      [] OTHER -> << Value(f) >>

\* x ? `...${x}...` : ''
IfGiven(r, f) == IF r.body[f] \in {"absent", "empty"} THEN << >> ELSE Bare(r, f)

\* x.join(', '), which fails where there is no list
Joined(r, f) == IF r.body[f] = "absent" THEN << Failed >> ELSE Bare(r, f)

\* x.length > 0 ? x.join(', ') : words, or ''
JoinedOr(r, f, otherwise) ==
    IF r.body[f] = "empty" THEN otherwise ELSE Joined(r, f)

\* x.map(...), as in renderLifecycleStagesBlock: it fails at an entry that is
\* null and writes the missing fields of one that is a list
Mapped(r, f) ==
    CASE r.body[f] = "nullEntry" -> << Failed >>
      [] r.body[f] = "listEntry" -> << Undefined >>
      [] OTHER -> Joined(r, f)

\* renderHintsSection
Hints(r) == IfGiven(r, "hints")

------------------------------------------------------------------------------
(* The variables that each descriptor builds *)

StructuralAnalysisVariables(r) ==
    [DATA_TYPE |-> Bare(r, "dataType"),
     CONTENT_GOAL |-> Bare(r, "contentGoal"),
     CATEGORY |-> IfGiven(r, "category"),
     HINTS_SECTION |-> Hints(r),
     HTML |-> Bare(r, "html")]

RagVariables(r) == [CONTEXT |-> Bare(r, "context"), QUERY |-> Bare(r, "query")]

\* Mistake: the category, which may be missing, is taken as it is.
CivicsExtractionVariablesBare(r) ==
    [REGION_ID |-> Bare(r, "regionId"),
     SOURCE_URL |-> Bare(r, "sourceUrl"),
     CONTENT_GOAL |-> Bare(r, "contentGoal"),
     CATEGORY |-> Bare(r, "category"),
     HINTS |-> Hints(r),
     HTML |-> Bare(r, "html")]

CivicsExtractionVariables(r) ==
    [REGION_ID |-> Bare(r, "regionId"),
     SOURCE_URL |-> Bare(r, "sourceUrl"),
     CONTENT_GOAL |-> Bare(r, "contentGoal"),
     CATEGORY |-> IfGiven(r, "category"),
     HINTS |-> Hints(r),
     HTML |-> Bare(r, "html")]

BillExtractionVariables(r) ==
    [REGION_ID |-> Bare(r, "regionId"),
     SOURCE_URL |-> Bare(r, "sourceUrl"),
     SESSION_YEAR |-> Bare(r, "sessionYear"),
     HTML |-> Bare(r, "html")]

BillVotesExtractionVariables(r) ==
    [REGION_ID |-> Bare(r, "regionId"),
     SOURCE_URL |-> Bare(r, "sourceUrl"),
     SESSION_YEAR |-> Bare(r, "sessionYear"),
     BILL_ID |-> Bare(r, "billId"),
     HTML |-> Bare(r, "html")]

BillAnalysisVariables(r) ==
    [REGION_ID |-> Bare(r, "regionId"),
     BILL_NUMBER |-> Bare(r, "billNumber"),
     SESSION_YEAR |-> Bare(r, "sessionYear"),
     TITLE |-> Bare(r, "title"),
     SUBJECT |-> IfGiven(r, "subject"),
     STATUS |-> IfGiven(r, "status"),
     AUTHOR |-> IfGiven(r, "authorName"),
     OFFICIAL_SUMMARY_BLOCK |-> IfGiven(r, "officialSummary"),
     FISCAL_IMPACT_BLOCK |-> IfGiven(r, "fiscalImpactSummary"),
     FULL_TEXT |-> Bare(r, "fullText")]

\* The declared signals of a user, which five descriptors render alike.
UserTags(r) == JoinedOr(r, "userInterestTags", << Words >>)
UserFlags(r) == JoinedOr(r, "userRankingFlags", << Words >>)
UserRegion(r) == IfGiven(r, "userRegionLabel")

\* The summary of a fiscal impact is shown only beside its level.
FiscalImpactLine(r) ==
    IF r.body["fiscalImpactLevel"] \in {"absent", "empty"} THEN << >>
    ELSE Bare(r, "fiscalImpactLevel") \o IfGiven(r, "fiscalImpactSummary")

\* The topics have no words for an empty list.
BillRelevanceExplanationVariables(r) ==
    [REGION_ID |-> Bare(r, "regionId"),
     BILL_NUMBER |-> Bare(r, "billNumber"),
     SESSION_YEAR |-> Bare(r, "sessionYear"),
     TITLE |-> Bare(r, "title"),
     BILL_TOPICS |-> Joined(r, "topics"),
     BILL_WHO_IT_AFFECTS |-> JoinedOr(r, "whoItAffects", << Words >>),
     FISCAL_IMPACT_LINE |-> FiscalImpactLine(r),
     STAKEHOLDER_IMPACT_LINE |-> IfGiven(r, "stakeholderImpact"),
     BILL_SECTION_HINT_LINE |-> IfGiven(r, "billSectionHint"),
     PLAIN_ENGLISH_SUMMARY_BLOCK |-> Bare(r, "plainEnglishSummary"),
     USER_INTEREST_TAGS |-> UserTags(r),
     USER_RANKING_FLAGS |-> UserFlags(r),
     USER_REGION_LINE |-> UserRegion(r)]

PersonalizedImpactVariables(r) ==
    [DOCUMENT_TYPE |-> Bare(r, "documentType"),
     ACTUAL_EFFECT_LINE |-> IfGiven(r, "actualEffect"),
     BENEFICIARIES |-> JoinedOr(r, "beneficiaries", << Words >>),
     POTENTIALLY_HARMED |-> JoinedOr(r, "potentiallyHarmed", << Words >>),
     MATCHED_MEASURE_LINE |-> IfGiven(r, "matchedMeasureTitle"),
     SUMMARY_BLOCK |-> Bare(r, "summary"),
     USER_INTEREST_TAGS |-> UserTags(r),
     USER_RANKING_FLAGS |-> UserFlags(r),
     USER_REGION_LINE |-> UserRegion(r)]

BillStatusSummaryVariables(r) ==
    [REGION_ID |-> Bare(r, "regionId"),
     BILL_NUMBER |-> Bare(r, "billNumber"),
     SESSION_YEAR |-> Bare(r, "sessionYear"),
     TITLE |-> Bare(r, "title"),
     PRIOR_STATUS_LINE |-> IfGiven(r, "priorStatus"),
     PRIOR_STAGE_LINE |-> IfGiven(r, "priorStage"),
     LIFECYCLE_STAGES_BLOCK |-> Mapped(r, "lifecycleStages"),
     HTML |-> Bare(r, "html")]

\* The first name is trimmed before it is looked at.
FirstName(r) ==
    IF r.body["firstName"] = "spaces" THEN << >> ELSE IfGiven(r, "firstName")

BriefingSummaryVariables(r) ==
    [LANGUAGE |-> Bare(r, "language"),
     LANGUAGE_CODE |-> Bare(r, "language"),
     FIRST_NAME_AVAILABILITY_LINE |-> << Words >>,
     FIRST_NAME_BLOCK |-> FirstName(r),
     BILL_COUNT |-> Bare(r, "billCount"),
     REP_COUNT |-> Bare(r, "repCount"),
     COMMITTEE_COUNT |-> Bare(r, "committeeCount"),
     PROPOSITION_COUNT |-> Bare(r, "propositionCount"),
     URGENT_BILL_COUNT |-> Bare(r, "urgentBillCount"),
     TOP_BILL_TOP_AXIS |-> IF r.body["topBillTopAxis"] = "absent"
                           THEN << Words >> ELSE Bare(r, "topBillTopAxis")]

PropositionRelevanceExplanationVariables(r) ==
    [REGION_ID |-> Bare(r, "regionId"),
     PROPOSITION_NUMBER |-> Bare(r, "propositionNumber"),
     ELECTION_DATE |-> Bare(r, "electionDate"),
     TITLE |-> Bare(r, "title"),
     PROP_TOPICS |-> Joined(r, "topics"),
     PROP_WHO_IT_AFFECTS |-> JoinedOr(r, "whoItAffects", << Words >>),
     FISCAL_IMPACT_LINE |-> FiscalImpactLine(r),
     STAKEHOLDER_IMPACT_LINE |-> IfGiven(r, "stakeholderImpact"),
     PROVISION_HINT_LINE |-> IfGiven(r, "provisionHint"),
     PLAIN_ENGLISH_SUMMARY_BLOCK |-> Bare(r, "plainEnglishSummary"),
     USER_INTEREST_TAGS |-> UserTags(r),
     USER_RANKING_FLAGS |-> UserFlags(r),
     USER_REGION_LINE |-> UserRegion(r)]

RepresentativeRelevanceExplanationVariables(r) ==
    [REGION_ID |-> Bare(r, "regionId"),
     REP_NAME |-> Bare(r, "repName"),
     OFFICE_TITLE |-> Bare(r, "officeTitle"),
     JURISDICTION |-> Bare(r, "jurisdiction"),
     PARTY_LINE |-> IfGiven(r, "party"),
     TOPICS_OF_FOCUS |-> JoinedOr(r, "topicsOfFocus", << Words >>),
     COMMITTEE_MEMBERSHIPS |->
         JoinedOr(r, "committeeMemberships", << Words >>),
     RECENT_ACTION_LINE |-> IfGiven(r, "recentLegislativeAction"),
     UPCOMING_EVENT_LINE |-> IfGiven(r, "upcomingEvent"),
     MANDATE_SUMMARY_BLOCK |-> Bare(r, "mandateSummary"),
     USER_INTEREST_TAGS |-> UserTags(r),
     USER_RANKING_FLAGS |-> UserFlags(r),
     USER_REGION_LINE |-> UserRegion(r)]

\* Mistake: the hearings are not rendered.
CommitteeRelevanceExplanationVariablesFew(r) ==
    [REGION_ID |-> Bare(r, "regionId"),
     COMMITTEE_NAME |-> Bare(r, "committeeName"),
     JURISDICTION |-> Bare(r, "jurisdiction"),
     COMMITTEE_TYPE_LINE |-> IfGiven(r, "committeeType"),
     COMMITTEE_TOPICS |-> JoinedOr(r, "topics", << Words >>),
     MEMBERS_ON_USER_SLATE |->
         JoinedOr(r, "membersOnUserSlate", << Words >>),
     RECENT_TOPICS_LINE |-> JoinedOr(r, "recentBillTopicsTouched", << >>),
     UPCOMING_HEARINGS_BLOCK |-> << Words >>,
     MANDATE_SUMMARY_BLOCK |-> Bare(r, "mandateSummary"),
     USER_INTEREST_TAGS |-> UserTags(r),
     USER_RANKING_FLAGS |-> UserFlags(r),
     USER_REGION_LINE |-> UserRegion(r)]

CommitteeRelevanceExplanationVariables(r) ==
    [REGION_ID |-> Bare(r, "regionId"),
     COMMITTEE_NAME |-> Bare(r, "committeeName"),
     JURISDICTION |-> Bare(r, "jurisdiction"),
     COMMITTEE_TYPE_LINE |-> IfGiven(r, "committeeType"),
     COMMITTEE_TOPICS |-> JoinedOr(r, "topics", << Words >>),
     MEMBERS_ON_USER_SLATE |->
         JoinedOr(r, "membersOnUserSlate", << Words >>),
     RECENT_TOPICS_LINE |-> JoinedOr(r, "recentBillTopicsTouched", << >>),
     UPCOMING_HEARINGS_BLOCK |-> Mapped(r, "upcomingHearings"),
     MANDATE_SUMMARY_BLOCK |-> Bare(r, "mandateSummary"),
     USER_INTEREST_TAGS |-> UserTags(r),
     USER_RANKING_FLAGS |-> UserFlags(r),
     USER_REGION_LINE |-> UserRegion(r)]

buildVariables(r) ==
    CASE r.endpoint = "structural-analysis" -> StructuralAnalysisVariables(r)
      [] r.endpoint = "document-analysis" -> [TEXT |-> Bare(r, "text")]
      [] r.endpoint = "rag" -> RagVariables(r)
      [] r.endpoint = "civics-extraction" -> CivicsExtractionVariables(r)
      [] r.endpoint = "bill-extraction" -> BillExtractionVariables(r)
      [] r.endpoint = "bill-votes-extraction" ->
             BillVotesExtractionVariables(r)
      [] r.endpoint = "bill-analysis" -> BillAnalysisVariables(r)
      [] r.endpoint = "bill-relevance-explanation" ->
             BillRelevanceExplanationVariables(r)
      [] r.endpoint = "personalized-impact" -> PersonalizedImpactVariables(r)
      [] r.endpoint = "bill-status-summary" -> BillStatusSummaryVariables(r)
      [] r.endpoint = "briefing-summary" -> BriefingSummaryVariables(r)
      [] r.endpoint = "proposition-relevance-explanation" ->
             PropositionRelevanceExplanationVariables(r)
      [] r.endpoint = "representative-relevance-explanation" ->
             RepresentativeRelevanceExplanationVariables(r)
      [] r.endpoint = "committee-relevance-explanation" ->
             CommitteeRelevanceExplanationVariables(r)

(* The template that each descriptor resolves, and its auxiliary one.  What  *)
(* a request names itself (r.suffix) may be no template's name.              *)
DocumentTemplate(documentType) == "document-analysis-" \o documentType
SchemaTemplate(dataType) == "structural-schema-" \o dataType

resolveTemplateName(r) ==
    CASE r.endpoint = "document-analysis" -> DocumentTemplate(r.suffix)
      [] r.endpoint = "civics-extraction" ->
             IF r.body["compact"] = "given" THEN "civics-extraction-compact"
             ELSE "civics-extraction"
      [] OTHER -> r.endpoint

auxiliaryName(r) == SchemaTemplate(r.suffix)
==============================================================================
