---------------------------- MODULE PromptCatalog ----------------------------
(***************************************************************************)
(* The service as it comes: the templates of the seed, the drift check it  *)
(* makes at start, and requests for prompts from the body that comes in to *)
(* the text that goes out (src/src/prompts/prompts.service.ts).            *)
(*                                                                         *)
(* The templates are in service and unedited here, so that what a prompt   *)
(* is made of is decided by the request alone.  What happens when they are *)
(* edited, withdrawn or under experiment is the matter of PromptServing.   *)
(***************************************************************************)
EXTENDS SeededPrompts, PromptRequests, FiniteSets, SequencesExt

CONSTANTS
    DataTypes,      \* what a structural analysis may ask for
    DocumentTypes,  \* what a document analysis may ask for
    MaxOdd          \* bound: fields of a body that are not like the others

\* A type that no template is named after.
Unlisted == "unlisted"

\* What is true of all strings, of which provers know nothing: a name that
\* begins like those of a family is that of one of the family or of none, and
\* what completes it is told by it.
ASSUME CatalogAssumption ==
    /\ MaxOdd \in Nat
    /\ \A dataType \in DataTypes \cup {Unlisted} :
          SchemaTemplate(dataType) \in PromptNames =>
              SchemaTemplate(dataType) \in SchemaTemplates
    /\ \A documentType \in DocumentTypes \cup {Unlisted} :
          /\ DocumentTemplate(documentType) \in PromptNames =>
                 DocumentTemplate(documentType) \in DocumentTemplates
          /\ DocumentTemplate(documentType) =
                 "document-analysis-base-instructions" =>
                     documentType = "base-instructions"

VARIABLES
    warnings,   \* what the drift check found
    request,    \* the request at hand
    stage,      \* where the start of the service or the request is
    prompt      \* its answer, a sequence of tokens

catalogVars == << warnings, request, stage, prompt >>

------------------------------------------------------------------------------
(* The drift check *)

\* extractPlaceholders
extractPlaceholders(text) == ToSet(text) \ {Notice}

\* warnOnVariableDrift: declared and not used, or used and not declared.
Drift(name) ==
    LET inText == extractPlaceholders(prompts[name].text)
        declared == prompts[name].variables
    IN  (declared \ inText) \cup (inText \ declared)

Warnings ==
    UNION {{<< name, v >> : v \in Drift(name)} : name \in DOMAIN prompts}

\* onModuleInit
runVariableDriftCheck ==
    /\ stage = "starting"
    /\ warnings' = Warnings
    /\ stage' = "idle"
    /\ UNCHANGED << request, prompt >>

------------------------------------------------------------------------------
(* Requests *)

\* The type that a body names.
Types(endpoint) ==
    CASE endpoint = "structural-analysis" -> DataTypes \cup {Unlisted}
      [] endpoint = "document-analysis" -> DocumentTypes \cup {Unlisted}
      [] OTHER -> {Unlisted}

Selector(endpoint) ==
    CASE endpoint = "structural-analysis" -> {"dataType"}
      [] endpoint = "document-analysis" -> {"documentType"}
      [] OTHER -> {}

Full(dto) == [f \in DOMAIN dto |-> "given"]

\* As little as is accepted.
Sparse(dto) ==
    [f \in DOMAIN dto |-> CASE "absent" \in dto[f] -> "absent"
                            [] "empty" \in dto[f] -> "empty"
                            [] OTHER -> "given"]

\* A full or a sparse body, with a few fields of any other sort.
Bodies(dto) ==
    LET Variants(body) ==
            {[f \in DOMAIN dto |-> IF f \in DOMAIN odd THEN odd[f] ELSE body[f]] :
                odd \in UNION {[S -> Sorts] :
                           S \in {T \in SUBSET DOMAIN dto :
                                      Cardinality(T) <= MaxOdd}}}
    IN  Variants(Full(dto)) \cup Variants(Sparse(dto))

Quoting(r) == {f \in DOMAIN r.body : r.body[f] = "quoting"}

\* A query that finds the template, or the fallback if it does not.
Find(name, fallback) == IF name \in DOMAIN prompts THEN name ELSE fallback

MainTemplate(r) == Find(resolveTemplateName(r), "document-analysis-generic")

\* A request comes in.  Of the placeholders of its own template, its values
\* may quote any.
Receive ==
    /\ stage \in {"idle", "refused", "failed", "answered"}
    /\ \E endpoint \in DOMAIN Dto :
       \E body \in Bodies(Dto[endpoint]), suffix \in Types(endpoint) :
          LET r == [endpoint |-> endpoint, body |-> body, suffix |-> suffix,
                    quote |-> Unlisted]
              holes == extractPlaceholders(prompts[MainTemplate(r)].text)
          IN  /\ \A f \in Selector(endpoint) :
                     body[f] # "given" => suffix = Unlisted
              /\ \E quote \in IF Quoting(r) = {} \/ holes = {} THEN {Unlisted}
                              ELSE holes :
                     request' = [r EXCEPT !.quote = quote]
    /\ stage' = "received"
    /\ prompt' = << >>
    /\ UNCHANGED warnings

\* The pipe refuses a body with 400, before any handler runs.
Validate ==
    /\ stage = "received"
    /\ stage' = IF Valid(request) THEN "accepted" ELSE "refused"
    /\ UNCHANGED << warnings, request, prompt >>

Tokens(text) ==
    [i \in DOMAIN text |-> IF text[i] = Notice THEN << Notice >>
                           ELSE Hole(text[i])]

FillIn(tokens, variables) ==
    FlattenSeq([i \in DOMAIN tokens |->
        IF tokens[i][1] = "placeholder" /\ tokens[i][2] \in DOMAIN variables
        THEN variables[tokens[i][2]] ELSE << tokens[i] >>])

\* Mistake: values are looked at for placeholders as well.
interpolateTwice(tokens, variables) ==
    FillIn(FillIn(tokens, variables), variables)

\* One pass over the text of the template; what has no variable stays.
interpolate(tokens, variables) == FillIn(tokens, variables)

\* What is put in for SCHEMA_DESCRIPTION.
SchemaDescription(r) ==
    Tokens(prompts[Find(auxiliaryName(r), "structural-schema-default")].text)

\* A descriptor throws.
buildFails(r) ==
    \E v \in DOMAIN buildVariables(r) : Failed \in ToSet(buildVariables(r)[v])

\* composePrompt: the variables, the auxiliary template among them or after
\* the text, and the interpolation.
composed(r) ==
    LET main == Tokens(prompts[MainTemplate(r)].text)
        variables == buildVariables(r)
    IN  CASE r.endpoint = "structural-analysis" ->
                interpolate(main,
                    [v \in DOMAIN variables \cup {"SCHEMA_DESCRIPTION"} |->
                        IF v = "SCHEMA_DESCRIPTION" THEN SchemaDescription(r)
                        ELSE variables[v]])
          [] r.endpoint = "document-analysis" ->
                interpolate(main, variables) \o Tokens(BaseInstructions.text)
          [] OTHER -> interpolate(main, variables)

\* What a descriptor throws is answered with 500.
composePrompt ==
    /\ stage = "accepted"
    /\ \/ /\ buildFails(request)
          /\ stage' = "failed"
          /\ UNCHANGED prompt
       \/ /\ ~buildFails(request)
          /\ stage' = "answered"
          /\ prompt' = composed(request)
    /\ UNCHANGED << warnings, request >>

CatalogInit ==
    /\ warnings = {}
    /\ request = [endpoint |-> "none"]
    /\ stage = "starting"
    /\ prompt = << >>

CatalogNext == runVariableDriftCheck \/ Receive \/ Validate \/ composePrompt

CatalogSpec == CatalogInit /\ [][CatalogNext]_catalogVars

------------------------------------------------------------------------------
(* Properties *)

Answered == stage = "answered"
InPrompt(token) == \E i \in DOMAIN prompt : prompt[i] = token
Says(f) == request.body[f] \in {"spaces", "given", "quoting"}

\* The seed is in step with itself: the check at start finds nothing.
DriftSilent == warnings = {}

\* Descriptors, request bodies and seeded templates, kept in three places,
\* fit together: of the bodies that are accepted, building the prompt fails
\* for those alone whose stages or hearings have a null among them, a missing
\* value is written as "undefined" for those alone where a list is among them,
\* and no placeholder is left open but those that a value quotes.
HasEntry(sort) == \E f \in DOMAIN request.body : request.body[f] = sort

WellFormed ==
    /\ stage = "failed" => HasEntry("nullEntry")
    /\ Answered =>
          /\ InPrompt(Undefined) => HasEntry("listEntry")
          /\ \A i \in DOMAIN prompt :
                prompt[i][1] = "placeholder" =>
                    /\ i > 1
                    /\ \E f \in Quoting(request) : prompt[i - 1] = Value(f)

\* What a request says reaches the prompt.  The exceptions: what only selects
\* the template, a first name of blanks, the summary of a fiscal impact whose
\* level is not given, and a document whose type is "base-instructions", the
\* name of a text that has no place for a document.
Selects(f) ==
    \/ f = "compact"
    \/ f = "documentType" /\ request.endpoint = "document-analysis"

Dropped(f) ==
    \/ f = "firstName" /\ request.body[f] = "spaces"
    \/ /\ f = "fiscalImpactSummary"
       /\ "fiscalImpactLevel" \in DOMAIN request.body
       /\ ~Says("fiscalImpactLevel")
    \/ f = "text" /\ request.suffix = "base-instructions"

NothingLost ==
    Answered =>
        \A f \in DOMAIN request.body :
            Says(f) /\ ~Selects(f) /\ ~Dropped(f) => InPrompt(Value(f))

\* "A value containing {{OTHER_VAR}} cannot hoist another variable's content"
\* (the comment of interpolate): but for the quotations themselves, a prompt is
\* the same as if its values quoted nothing.
Plainly(r) ==
    [r EXCEPT !.body = [f \in DOMAIN r.body |->
                            IF r.body[f] = "quoting" THEN "given" ELSE r.body[f]]]

Unquoted(tokens) ==
    FlattenSeq([i \in DOMAIN tokens |->
        IF tokens[i][1] = "placeholder" THEN << >> ELSE << tokens[i] >>])

QuotesInert == Answered => Unquoted(prompt) = Unquoted(composed(Plainly(request)))

\* What was scraped, extracted by a model or typed by a user: what the comments
\* of the descriptors call untrusted, wherever it comes from the same place.
Untrusted(endpoint) ==
    CASE endpoint = "document-analysis" -> {"text"}
      [] endpoint \in {"civics-extraction", "bill-extraction",
                       "bill-votes-extraction", "bill-status-summary"} ->
             {"html"}
      [] endpoint = "bill-analysis" ->
             {"officialSummary", "fiscalImpactSummary", "fullText"}
      [] endpoint \in {"bill-relevance-explanation",
                       "proposition-relevance-explanation"} ->
             {"plainEnglishSummary", "fiscalImpactSummary", "stakeholderImpact"}
      [] endpoint \in {"representative-relevance-explanation",
                       "committee-relevance-explanation"} ->
             {"mandateSummary"}
      [] endpoint = "briefing-summary" -> {"firstName"}
      [] endpoint = "personalized-impact" ->
             {"actualEffect", "beneficiaries", "potentiallyHarmed", "summary"}
      [] OTHER -> {}

\* Of these, what the code itself puts above the notice: the lines on fiscal
\* and stakeholder impact of the two prompts on relevance.
Exposed(endpoint) ==
    IF endpoint \in {"bill-relevance-explanation",
                     "proposition-relevance-explanation"}
    THEN {"fiscalImpactSummary", "stakeholderImpact"} ELSE {}

\* "Below the SECURITY NOTICE so the LLM treats it as untrusted content" (the
\* comments of the descriptors): but for these lines, what is untrusted stands
\* below the template's notice, and only there, also where another value
\* quotes its placeholder.
BelowNotice ==
    Answered /\ InPrompt(<< Notice >>) =>
        \A i \in DOMAIN prompt, f \in Untrusted(request.endpoint) :
            prompt[i] = Value(f) =>
                \/ \E j \in 1 .. (i - 1) : prompt[j] = << Notice >>
                \/ f \in Exposed(request.endpoint)
==============================================================================
