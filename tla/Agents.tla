-------------------------------- MODULE Agents --------------------------------
(***************************************************************************)
(* What the four agents tell the LLM and each other about one incident,    *)
(* and what the offline client (MockAIClient) makes of it.  The client     *)
(* reads keywords, and a line "Category: <name>" before all keywords.  A   *)
(* text is abstracted to the categories it has a keyword of and, if it may *)
(* have several lines, to the name on the first such line, its hint; the   *)
(* fixed wording of the prompts has no keyword.  Calls, retries and the    *)
(* audit of each call are those of module Triage.                          *)
(***************************************************************************)
EXTENDS Integers, Sequences, FiniteSetsExt, SequencesExt

CONSTANTS RunbookCount,   \* runbooks are numbered in the order of their slugs
          Excerpts,       \* Excerpts[r]: what the prompt's excerpt of r says
          TopK,           \* rag_top_k
          MinSimilarity,  \* rag_min_similarity
          MaxSimilarity,  \* similarities are cut into a few grades
          Titles,         \* what the title and service of an incident may say
          Anomalies,      \* what the signature and the count of an anomaly mention
          MaxAnomalies,   \* bound: anomalies of the incident
          FieldLimit,     \* how many signatures sanitize leaves in the summary
          None

Runbooks == 1..RunbookCount
Modes == {"offline", "gemini"}  \* ai_mode
Grades == 0..MaxSimilarity

\* IncidentCategory; the categories the offline client has keywords of, in the
\* order it tries them; and those it has actions for.
Categories == {"database", "authentication", "network", "infrastructure",
               "application", "unknown"}
KeywordOrder == <<"database", "authentication", "network", "infrastructure">>
ActionCategories == Categories \ {"unknown"}

\* The hint of a text: the name on its first Category line, which need not be one of a
\* category, or None.
Hints == Categories \cup {"no_category", None}
Texts == [mentions : SUBSET Range(KeywordOrder), hint : Hints]

ASSUME NoneAssumption == None \notin Categories

ASSUME RetrievalAssumption ==
  /\ RunbookCount \in Nat /\ TopK \in Nat
  /\ MinSimilarity \in Int /\ MaxSimilarity \in Nat
  /\ Excerpts \in [Runbooks -> Texts]

\* A service's name may have line breaks (EventCreate), a signature has none.  A count
\* of 401 or 403 reads like an HTTP status.
ASSUME TextAssumption ==
  /\ FieldLimit \in Nat
  /\ Titles \subseteq Texts
  /\ Anomalies \subseteq [signature : SUBSET Range(KeywordOrder),
                          count : SUBSET {"authentication"}]

VARIABLES
  client,            \* of the running process, by its mode
  title, anomalies,  \* of the incident; its anomalies in the order of their ids
  pc,
  draft,             \* what the running triage was asked and has found so far
  saved              \* the verdict, None while the incident has no category

vars == <<client, title, anomalies, pc, draft, saved>>

\* asked is the description of the incident the triage works from; similarity,
\* that of each runbook to the query.  Of a saved verdict they are ghosts.
Blank == [asked |-> None, category |-> None, cause |-> None, similarity |-> None,
          cited |-> <<>>, actions |-> None, summary |-> None]

Init ==
  /\ client \in Modes
  /\ title \in Titles
  /\ \E a \in Anomalies : anomalies = <<a>>
  /\ pc = "gate"
  /\ draft = Blank
  /\ saved = None

\* Another request files an anomaly, which may be older than some already filed.
Absorb(a, i) ==
  /\ Len(anomalies) < MaxAnomalies
  /\ anomalies' = InsertAt(anomalies, i, a)
  /\ UNCHANGED <<client, title, pc, draft, saved>>

(***************************************************************************)
(* What a prompt says.  The summary is one field and cut as a whole, past  *)
(* the title and the service; each event has a line of its own.            *)
(***************************************************************************)
Take(s, n) == SubSeq(s, 1, Min({n, Len(s)}))
Sanitize(signatures) == Take(signatures, FieldLimit)
EventLines == UNION {a.signature \cup a.count : a \in Range(anomalies)}
Description ==
  LET signatures == [i \in DOMAIN anomalies |-> anomalies[i].signature]
  IN  [summary |-> title.mentions \cup UNION Range(Sanitize(signatures)),
       events |-> EventLines,
       hint |-> title.hint]

\* Only these names of categories are keywords themselves: the offline client's
\* "Probable <category> subsystem degradation" mentions them.
Named(category) == {category} \cap {"database", "authentication", "network"}

(***************************************************************************)
(* MockAIClient.                                                           *)
(***************************************************************************)
\* The categories whose keywords are looked for before those of c.
TriedBefore(c) ==
  {KeywordOrder[i] : i \in {j \in DOMAIN KeywordOrder : \A k \in 1..j : KeywordOrder[k] # c}}

FirstMentioned(prompt, default) ==
  LET mentioned == prompt \cap Range(KeywordOrder)
  IN  IF mentioned = {} THEN default
      ELSE CHOOSE c \in mentioned : TriedBefore(c) \cap prompt = {}

KeywordsOnly(prompt, hint) == FirstMentioned(prompt, "application")  \* Mutant: no hint
DefaultUnknown(prompt, hint) ==  \* Mutant: no keyword, no category
  IF hint \in Categories THEN hint ELSE FirstMentioned(prompt, "unknown")

\* The category hint of the prompt, if it has one, else the first keyword's.
OfflineCategory(prompt, hint) ==
  IF hint \in Categories THEN hint ELSE FirstMentioned(prompt, "application")

\* What an agent returns: by whom, and the category it is about (None if the text
\* is the LLM's own or does not depend on one).
Returned(prompt, hint, llm, fallback) ==
  IF client = "offline"
  THEN {[by |-> "offline", about |-> OfflineCategory(prompt, hint)]}
  ELSE {[by |-> "llm", about |-> c] : c \in llm} \cup {[by |-> "fallback", about |-> fallback]}

(***************************************************************************)
(* TriageService.triage.  Each agent takes time; others absorb meanwhile.  *)
(***************************************************************************)
Step(from, to) == pc = from /\ pc' = to

\* The gate of the pipeline, and the description every agent will be given.
Begin ==
  /\ saved = None
  /\ Step("gate", "classify")
  /\ draft' = [Blank EXCEPT !.asked = Description]
  /\ UNCHANGED <<client, title, anomalies, saved>>

\* What the first two prompts mention.
Told == draft.asked.summary \cup draft.asked.events

Classify ==
  /\ Step("classify", "root_cause")
  /\ \E c \in Returned(Told, draft.asked.hint, Categories, "unknown") :
       draft' = [draft EXCEPT !.category = c]
  /\ UNCHANGED <<client, title, anomalies, saved>>

\* The prompt begins with the category, so no other line is read for it.
AnalyzeRootCause ==
  /\ Step("root_cause", "retrieve")
  /\ \E c \in Returned(Told, draft.category.about, {None}, None) :
       draft' = [draft EXCEPT !.cause = c]
  /\ UNCHANGED <<client, title, anomalies, saved>>

Similar(s) == {r \in Runbooks : s[r] >= MinSimilarity}

Farther(s) == {p \in Runbooks \X Runbooks :  \* Mutant: the key lacks its minus sign
                 s[p[1]] < s[p[2]] \/ (s[p[1]] = s[p[2]] /\ p[1] < p[2])}

\* The sort key: the most similar first, by slug when equally similar.
Nearer(s) == {p \in Runbooks \X Runbooks :
                s[p[1]] > s[p[2]] \/ (s[p[1]] = s[p[2]] /\ p[1] < p[2])}

Sorted(S, order) ==
  CHOOSE f \in SetToSeqs(S) : \A i, j \in DOMAIN f : i < j => <<f[i], f[j]>> \in order

Best(s) == Take(Sorted(Similar(s), Nearer(s)), TopK)

\* The embedder compares words, which keywords do not determine.
Retrieve ==
  /\ Step("retrieve", "remediate")
  /\ \E s \in [Runbooks -> Grades] :
       draft' = [draft EXCEPT !.similarity = s, !.cited = Best(s)]
  /\ UNCHANGED <<client, title, anomalies, saved>>

\* The remediation prompt has neither the category nor the events.
RemediationPrompt(summary) ==
  (summary \cup (UNION {Excerpts[r].mentions : r \in Range(draft.cited)}))
    \cup (IF draft.cause.by = "offline" THEN Named(draft.cause.about) ELSE {})

\* Its first Category line is the summary's, or that of a runbook.
RemediationHint(hint) ==
  LET runbook(n) == Excerpts[draft.cited[n]].hint
      hinting == {n \in DOMAIN draft.cited : runbook(n) # None}
  IN  IF hint # None \/ hinting = {} THEN hint
      ELSE runbook(Min(hinting))

\* The offline client has no actions for the category "unknown" and fails on it.
Remediate(asked) ==
  /\ pc = "remediate"
  /\ \E c \in Returned(RemediationPrompt(asked.summary), RemediationHint(asked.hint), {None}, None) :
       /\ draft' = [draft EXCEPT !.actions = c]
       /\ pc' = IF c.by = "offline" /\ c.about \notin ActionCategories
                THEN "key_error" ELSE "summarize"
  /\ UNCHANGED <<client, title, anomalies, saved>>

RecommendAnew == Remediate(Description)  \* Mutant: the incident is described anew
Recommend == Remediate(draft.asked)

Summarize ==
  /\ Step("summarize", "save")
  /\ \E c \in Returned(draft.asked.summary, draft.category.about, {None}, draft.category.about) :
       draft' = [draft EXCEPT !.summary = c]
  /\ UNCHANGED <<client, title, anomalies, saved>>

Save ==
  /\ Step("save", "gate")
  /\ saved' = draft
  /\ draft' = Blank
  /\ UNCHANGED <<client, title, anomalies>>

\* The request fails, or the process restarts, perhaps with an API key added or
\* removed.  A later request may triage the incident again.
Interrupt(c) ==
  /\ client' = c
  /\ pc' = "gate"
  /\ draft' = Blank
  /\ UNCHANGED <<title, anomalies, saved>>

Next ==
  \/ \E a \in Anomalies, i \in 1..(Len(anomalies) + 1) : Absorb(a, i)
  \/ Begin \/ Classify \/ AnalyzeRootCause \/ Retrieve \/ Recommend \/ Summarize \/ Save
  \/ \E c \in Modes : Interrupt(c)

Spec == Init /\ [][Next]_vars

(***************************************************************************)
(* Properties.                                                             *)
(***************************************************************************)
\* The summary an operator reads names the category the incident is filed under,
\* unless the LLM wrote it, although an offline answer is found from keywords
\* and the summary's prompt mentions other things than the classifier's.
SummaryAgrees ==
  saved # None /\ saved.summary.by # "llm" => saved.summary.about = saved.category.about

\* Offline, the recommended actions are for the incident's category, though their
\* prompt does not name it.  There are three exceptions, none if the category was a hint
\* of the service's name: a cited runbook has a Category line, or mentions a category
\* that is tried earlier; or "infrastructure", which the root cause does not pass on,
\* was only mentioned past the cut of the summary.
ActionsSuitCategory ==
  saved # None /\ saved.category.by = "offline" =>
    LET c == saved.category.about
    IN  \/ saved.actions.about = c
        \/ /\ saved.asked.hint \notin Categories
           /\ \/ saved.asked.hint = None /\ \E r \in Range(saved.cited) : Excerpts[r].hint # None
              \/ \E r \in Range(saved.cited) : Excerpts[r].mentions \cap TriedBefore(c) # {}
              \/ c = "infrastructure" /\ c \notin saved.asked.summary

\* The runbooks a verdict cites are above the threshold, best first, by slug when
\* equally good, and none that is left out is better than one that is cited.
RetrievalIsBest ==
  saved # None =>
    LET cited == saved.cited
        Better(r, q) == saved.similarity[r] > saved.similarity[q]
                        \/ (saved.similarity[r] = saved.similarity[q] /\ r < q)
    IN  /\ Range(cited) \subseteq Similar(saved.similarity)
        /\ \A i, j \in DOMAIN cited : i < j => Better(cited[i], cited[j])
        /\ \A r \in Similar(saved.similarity) \ Range(cited) :
             Len(cited) = TopK /\ \A i \in DOMAIN cited : Better(cited[i], r)

\* The offline client fails, with an error that no agent turns into a fallback, only if
\* the name of the incident's service, or without a hint there a cited runbook, has a
\* line "Category: unknown".  It always does on such a service, which the classifier
\* accepts two agents earlier: offline no such incident gets a verdict.
FailsOnlyOnUnknown ==
  /\ pc = "key_error" =>
       \/ title.hint = "unknown"
       \/ title.hint = None /\ \E r \in Range(draft.cited) : Excerpts[r].hint = "unknown"
  /\ saved # None /\ saved.category.by = "offline" =>
       /\ title.hint # "unknown"
       /\ {saved.category.about, saved.actions.about} \subseteq ActionCategories
=============================================================================
