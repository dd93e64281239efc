----------------------------- MODULE AgentsProofs -----------------------------
(***************************************************************************)
(* Proofs about the content of a triage, for any runbooks, texts, limits   *)
(* and lengths.                                                            *)
(***************************************************************************)
EXTENDS Agents, Counting

Keywords == Range(KeywordOrder)

\* What the order of the keyword table comes to.
LEMMA Order ==
  /\ Keywords = {"database", "authentication", "network", "infrastructure"}
  /\ TriedBefore("database") = {}
  /\ TriedBefore("authentication") = {"database"}
  /\ TriedBefore("network") = {"database", "authentication"}
  /\ TriedBefore("infrastructure") = {"database", "authentication", "network"}
  /\ \A c : c \notin Keywords => TriedBefore(c) = Keywords
<1>1. /\ DOMAIN KeywordOrder = {1, 2, 3, 4}
      /\ KeywordOrder[1] = "database" /\ KeywordOrder[2] = "authentication"
      /\ KeywordOrder[3] = "network" /\ KeywordOrder[4] = "infrastructure"
  BY DEF KeywordOrder
<1>2. 1..1 = {1} /\ 1..2 = {1, 2} /\ 1..3 = {1, 2, 3} /\ 1..4 = {1, 2, 3, 4}
  OBVIOUS
<1>3. Keywords = {KeywordOrder[1], KeywordOrder[2], KeywordOrder[3], KeywordOrder[4]}
  BY <1>1 DEF Keywords, Range
<1>4. ASSUME NEW c
      PROVE  TriedBefore(c) = {KeywordOrder[i] : i \in
               {j \in {1, 2, 3, 4} : \A k \in 1..j : KeywordOrder[k] # c}}
  BY <1>1 DEF TriedBefore
<1> QED BY <1>1, <1>2, <1>3, <1>4

\* The keyword heuristic finds the first category that is mentioned.
LEMMA Heuristic ==
  ASSUME NEW prompt, NEW default
  PROVE  /\ prompt \cap Keywords = {} => FirstMentioned(prompt, default) = default
         /\ prompt \cap Keywords # {} =>
              LET c == FirstMentioned(prompt, default)
              IN  c \in prompt \cap Keywords /\ TriedBefore(c) \cap prompt = {}
<1>1. CASE prompt \cap Keywords = {}
  BY <1>1 DEF FirstMentioned, Keywords
<1>2. CASE prompt \cap Keywords # {}
  <2>1. \E c \in prompt \cap Keywords : TriedBefore(c) \cap prompt = {}
    BY <1>2, Order
  <2> QED BY <2>1, <1>2 DEF FirstMentioned, Keywords
<1> QED BY <1>1, <1>2

\* Nothing else is the first category that is mentioned.
LEMMA HeuristicUnique ==
  ASSUME NEW prompt, NEW default, NEW c \in prompt \cap Keywords,
         TriedBefore(c) \cap prompt = {}
  PROVE  FirstMentioned(prompt, default) = c
BY Heuristic, Order

\* Two prompts get the same answer if the second mentions the first's category
\* and, of those tried earlier, none that the first does not mention.
LEMMA SameAnswer ==
  ASSUME NEW told, NEW prompt, NEW c,
         c = FirstMentioned(told, "application"),
         \A k \in TriedBefore(c) : k \in prompt => k \in told,
         c # "application" => c \in prompt
  PROVE  FirstMentioned(prompt, "application") = c
<1>1. CASE told \cap Keywords = {}
  <2>1. c = "application" /\ TriedBefore(c) = Keywords
    BY <1>1, Heuristic, Order
  <2>2. prompt \cap Keywords = {}
    BY <1>1, <2>1
  <2> QED BY <2>1, <2>2, Heuristic
<1>2. CASE told \cap Keywords # {}
  <2>1. c \in Keywords /\ TriedBefore(c) \cap told = {}
    BY <1>2, Heuristic
  <2>2. c \in prompt /\ TriedBefore(c) \cap prompt = {}
    BY <2>1, Order
  <2> QED BY <2>1, <2>2, HeuristicUnique
<1> QED BY <1>1, <1>2

(***************************************************************************)
(* Retrieval.  For any similarities the sort has a result, since "nearer"  *)
(* is an order without ties, and it lists every runbook that is similar    *)
(* enough; the first of them are then no worse than the rest.              *)
(***************************************************************************)
LEMMA NearerOrders ==
  ASSUME NEW s \in [Runbooks -> Grades]
  PROVE  /\ IsFiniteSet(Similar(s)) /\ Similar(s) \in SUBSET Runbooks
         /\ Orders(Nearer(s), Similar(s))
<1>1. Similar(s) \in SUBSET Runbooks /\ IsFiniteSet(Runbooks)
  BY RetrievalAssumption, FS_Interval DEF Similar, Runbooks
<1>2. \A r \in Runbooks : r \in Int /\ s[r] \in Int
  BY RetrievalAssumption DEF Runbooks, Grades
<1>3. \A r, q \in Runbooks :
        <<r, q>> \in Nearer(s) <=> s[r] > s[q] \/ (s[r] = s[q] /\ r < q)
  BY DEF Nearer
<1> HIDE DEF Runbooks
<1>4. \A r \in Runbooks : <<r, r>> \notin Nearer(s)
  BY <1>2, <1>3
<1>5. ASSUME NEW r \in Runbooks, NEW q \in Runbooks
      PROVE  r = q \/ <<r, q>> \in Nearer(s) \/ <<q, r>> \in Nearer(s)
  <2>1. s[r] > s[q] \/ s[q] > s[r] \/ (s[r] = s[q] /\ (r < q \/ q < r \/ r = q))
    BY <1>2
  <2> QED BY <1>3, <2>1
<1>6. \A r, q, p \in Runbooks :
        <<r, q>> \in Nearer(s) /\ <<q, p>> \in Nearer(s) => <<r, p>> \in Nearer(s)
  BY <1>2, <1>3
<1>7. Orders(Nearer(s), Similar(s))
  BY <1>1, <1>4, <1>5, <1>6 DEF Orders
<1> QED BY <1>1, <1>7, FS_Subset

\* What is sorted is a list of the whole set.
LEMMA SortedLists ==
  ASSUME NEW S, IsFiniteSet(S), NEW order, Orders(order, S),
         NEW f, f = Sorted(S, order)
  PROVE  /\ f \in [1..Cardinality(S) -> S] /\ Cardinality(S) \in Nat
         /\ \A i, j \in 1..Cardinality(S) : i < j => <<f[i], f[j]>> \in order
         /\ \A x \in S : \E i \in 1..Cardinality(S) : f[i] = x
<1> DEFINE N == Cardinality(S)
<1>1. N \in Nat
  BY FS_CardinalityType
<1>2. \E g \in SetToSeqs(S) : \A i, j \in DOMAIN g : i < j => <<g[i], g[j]>> \in order
  <2>1. PICK g \in [1..N -> S] : \A i, j \in 1..N : i < j => <<g[i], g[j]>> \in order
    BY Listed
  <2>2. \A i, j \in 1..N : i # j => g[i] # g[j]
    <3>1. \A i, j \in 1..N : i < j => g[i] # g[j]
      BY <2>1 DEF Orders
    <3>2. \A i, j \in 1..N : i # j => i < j \/ j < i
      BY <1>1
    <3> QED BY <3>1, <3>2
  <2>3. g \in SetToSeqs(S) /\ DOMAIN g = 1..N
    BY <2>1, <2>2 DEF SetToSeqs
  <2> QED BY <2>1, <2>3
<1>3. f \in SetToSeqs(S) /\ \A i, j \in DOMAIN f : i < j => <<f[i], f[j]>> \in order
  BY <1>2 DEF Sorted
<1>4. f \in [1..N -> S] /\ \A i, j \in 1..N : i # j => f[i] # f[j]
  BY <1>3 DEF SetToSeqs
<1>5. f \in Injection(1..N, S)
  BY <1>4 DEF Injection, IsInjective
<1>6. IsFiniteSet(1..N) /\ Cardinality(1..N) = N
  BY <1>1, FS_Interval
<1>7. f \in Surjection(1..N, S)
  BY <1>5, <1>6, FS_Injection
<1> QED BY <1>1, <1>3, <1>4, <1>7 DEF Surjection

\* What RetrievalIsBest says of a verdict, of any list of runbooks.
IsBest(s, cited) ==
  LET Better(r, q) == s[r] > s[q] \/ (s[r] = s[q] /\ r < q)
  IN  /\ Range(cited) \subseteq Similar(s)
      /\ \A i, j \in DOMAIN cited : i < j => Better(cited[i], cited[j])
      /\ \A r \in Similar(s) \ Range(cited) :
           Len(cited) = TopK /\ \A i \in DOMAIN cited : Better(cited[i], r)

LEMMA BestIsBest ==
  ASSUME NEW s \in [Runbooks -> Grades]
  PROVE  IsBest(s, Best(s)) /\ DOMAIN Best(s) \in SUBSET Nat
<1> DEFINE S == Similar(s)
           N == Cardinality(S)
           f == Sorted(S, Nearer(s))
           k == Min({TopK, Len(f)})
           cited == Best(s)
<1>1. /\ f \in [1..N -> S] /\ N \in Nat
      /\ \A i, j \in 1..N : i < j => <<f[i], f[j]>> \in Nearer(s)
      /\ \A r \in S : \E i \in 1..N : f[i] = r
  BY NearerOrders, SortedLists
<1>2. f \in Seq(S) /\ Len(f) = N
  BY <1>1
<1>3. k \in 0..N /\ (k = TopK \/ k = N)
  <2>1. TopK \in Nat /\ \E x \in {TopK, N} : \A y \in {TopK, N} : x <= y
    BY <1>1, RetrievalAssumption
  <2>2. k \in {TopK, N} /\ \A y \in {TopK, N} : k <= y
    BY <1>2, <2>1 DEF Min
  <2> QED BY <1>1, <2>1, <2>2
<1> HIDE DEF k, f, S
<1>4. cited = SubSeq(f, 1, k)
  BY DEF Best, Take, k, f, S
<1>5. DOMAIN cited = 1..k /\ Len(cited) = k /\ \A i \in 1..k : cited[i] = f[i] /\ i \in 1..N
  <2>1. \A i \in 1..k : f[i] \in S /\ i \in 1..N
    BY <1>1, <1>3
  <2>2. /\ cited \in Seq(S) /\ Len(cited) = IF 1 <= k THEN k - 1 + 1 ELSE 0
        /\ \A i \in 1..(k - 1 + 1) : cited[i] = f[1 + i - 1]
    BY <1>3, <1>4, <2>1, SubSeqProperties
  <2>3. Len(cited) = k /\ k - 1 + 1 = k /\ \A i \in 1..k : 1 + i - 1 = i
    BY <1>3, <2>2
  <2>4. DOMAIN cited = 1..Len(cited)
    BY <2>2, LenProperties
  <2> QED BY <2>1, <2>2, <2>3, <2>4
<1>6. \A r, q : <<r, q>> \in Nearer(s) => s[r] > s[q] \/ (s[r] = s[q] /\ r < q)
  BY DEF Nearer
<1> HIDE DEF cited
<1>7. Range(cited) \subseteq S
  BY <1>1, <1>5 DEF Range
<1>8. \A i, j \in 1..k : i < j => <<cited[i], cited[j]>> \in Nearer(s)
  BY <1>1, <1>5
<1>9. ASSUME NEW r \in S \ Range(cited)
      PROVE  Len(cited) = TopK /\ \A i \in 1..k : <<cited[i], r>> \in Nearer(s)
  <2>1. PICK j \in 1..N : f[j] = r
    BY <1>1
  <2>2. j \notin 1..k
    BY <1>5, <1>9, <2>1 DEF Range
  <2>3. k # N /\ \A i \in 1..k : i < j
    BY <1>3, <2>2
  <2> QED BY <1>1, <1>3, <1>5, <2>1, <2>3
<1>10. DOMAIN cited \in SUBSET Nat
  BY <1>1, <1>3, <1>5
<1> QED BY <1>5, <1>6, <1>7, <1>8, <1>9, <1>10 DEF IsBest, S, cited

(***************************************************************************)
(* Hints.                                                                  *)
(***************************************************************************)
\* The offline client answers the hint if it is a category, whether it has actions for
\* it or not, and else finds a category it has actions for.
LEMMA OfflineAnswer ==
  ASSUME NEW prompt
  PROVE  /\ \A hint \in Categories : OfflineCategory(prompt, hint) = hint
         /\ \A hint : hint \notin Categories =>
              /\ OfflineCategory(prompt, hint) = FirstMentioned(prompt, "application")
              /\ OfflineCategory(prompt, hint) \in ActionCategories
<1>1. FirstMentioned(prompt, "application") \in Keywords \cup {"application"}
  BY Heuristic
<1>2. Keywords \cup {"application"} \subseteq ActionCategories
  BY Order DEF ActionCategories, Categories
<1> QED BY <1>1, <1>2 DEF OfflineCategory

\* The hint of the remediation prompt is that of the summary, if it has one, or else
\* that of a cited runbook, if one has any.
LEMMA HintOfRemediation ==
  ASSUME DOMAIN draft.cited \in SUBSET Nat, NEW hint
  PROVE  /\ hint # None => RemediationHint(hint) = hint
         /\ hint = None => \/ RemediationHint(hint) = None
                           \/ \E r \in Range(draft.cited) :
                                Excerpts[r].hint = RemediationHint(hint) /\ Excerpts[r].hint # None
<1> DEFINE hinting == {n \in DOMAIN draft.cited : Excerpts[draft.cited[n]].hint # None}
<1>1. hinting # {} => Min(hinting) \in hinting
  BY Minimum DEF Min
<1>2. RemediationHint(hint)
        = IF hint # None \/ hinting = {} THEN hint ELSE Excerpts[draft.cited[Min(hinting)]].hint
  BY DEF RemediationHint
<1>3. \A n \in DOMAIN draft.cited : draft.cited[n] \in Range(draft.cited)
  BY DEF Range
<1> HIDE DEF hinting
<1>4. CASE hint # None \/ hinting = {}
  BY <1>2, <1>4
<1>5. CASE hint = None /\ hinting # {}
  <2>1. Min(hinting) \in DOMAIN draft.cited /\ Excerpts[draft.cited[Min(hinting)]].hint # None
    BY <1>1, <1>5 DEF hinting
  <2> QED BY <1>2, <1>3, <1>5, <2>1
<1> QED BY <1>4, <1>5

(***************************************************************************)
(* The inductive invariant: what each agent has found is kept until the    *)
(* verdict is saved, and offline it is what the client makes of the prompt *)
(* and its hint.                                                           *)
(***************************************************************************)
Drafted ==
  draft \in [asked : {draft.asked}, category : {draft.category}, cause : {draft.cause},
             similarity : {draft.similarity}, cited : {draft.cited},
             actions : {draft.actions}, summary : {draft.summary}]

Running ==
  /\ client \in Modes
  /\ pc \in {"gate", "classify", "root_cause", "retrieve", "remediate", "summarize", "save",
            "key_error"}

\* The title and the service of an incident never change.
Described == pc # "gate" => draft.asked.hint = title.hint

Classified ==
  pc \in {"root_cause", "retrieve", "remediate", "summarize", "save"} =>
    /\ draft.category.about \in Categories
    /\ draft.category.by = "offline" <=> client = "offline"
    /\ client = "offline" => draft.category.about = OfflineCategory(Told, draft.asked.hint)

Explained ==
  pc \in {"retrieve", "remediate", "summarize", "save"} /\ client = "offline" =>
    draft.cause.by = "offline" /\ draft.cause.about = draft.category.about

Retrieved ==
  pc \in {"remediate", "summarize", "save", "key_error"} =>
    IsBest(draft.similarity, draft.cited) /\ DOMAIN draft.cited \in SUBSET Nat

Advised ==
  pc \in {"summarize", "save"} /\ client = "offline" =>
    /\ draft.actions.about
         = OfflineCategory(RemediationPrompt(draft.asked.summary), RemediationHint(draft.asked.hint))
    /\ draft.actions.about \in ActionCategories

Summarized ==
  pc = "save" /\ draft.summary.by # "llm" => draft.summary.about = draft.category.about

IInv ==
  /\ Drafted /\ Running /\ Described /\ Classified /\ Explained /\ Retrieved /\ Advised /\ Summarized
  /\ SummaryAgrees /\ ActionsSuitCategory /\ RetrievalIsBest /\ FailsOnlyOnUnknown

\* No triage runs at first.
LEMMA Initial == Init => IInv
<1> SUFFICES ASSUME Init PROVE IInv
  OBVIOUS
<1>1. Drafted
  BY DEF Init, Drafted, Blank
<1>2. Running /\ pc = "gate" /\ saved = None
  BY DEF Init, Running
<1> QED
  BY <1>1, <1>2 DEF IInv, Described, Classified, Explained, Retrieved, Advised, Summarized,
                    SummaryAgrees, ActionsSuitCategory, RetrievalIsBest, FailsOnlyOnUnknown

\* What the offline client says to the remediation prompt is an action, unless a line
\* there names "unknown".
LEMMA Remediation ==
  ASSUME IInv, Recommend, draft.asked.hint = title.hint
  PROVE  /\ pc = "remediate" /\ pc' \in {"summarize", "key_error"}
         /\ UNCHANGED <<client, title, saved>>
         /\ draft' = [draft EXCEPT !.actions = draft'.actions]
         /\ pc' = "key_error" =>
              \/ title.hint = "unknown"
              \/ title.hint = None /\ \E r \in Range(draft.cited) : Excerpts[r].hint = "unknown"
         /\ pc' = "summarize" /\ client = "offline" =>
              /\ draft'.actions.about
                   = OfflineCategory(RemediationPrompt(draft.asked.summary),
                                     RemediationHint(draft.asked.hint))
              /\ draft'.actions.about \in ActionCategories
<1> DEFINE prompt == RemediationPrompt(draft.asked.summary)
           hint == RemediationHint(draft.asked.hint)
<1>1. PICK c \in Returned(prompt, hint, {None}, None) :
        /\ draft' = [draft EXCEPT !.actions = c]
        /\ pc' = IF c.by = "offline" /\ c.about \notin ActionCategories
                 THEN "key_error" ELSE "summarize"
  BY DEF Recommend, Remediate
<1>2. pc = "remediate" /\ UNCHANGED <<client, title, saved>>
  BY DEF Recommend, Remediate
<1>3. draft'.actions = c
  BY <1>1 DEF IInv, Drafted
<1>4. /\ client = "offline" => c.by = "offline" /\ c.about = OfflineCategory(prompt, hint)
      /\ client # "offline" => c.by # "offline"
  BY DEF Returned
<1>5. ASSUME pc' = "key_error"
      PROVE  \/ title.hint = "unknown"
             \/ title.hint = None /\ \E r \in Range(draft.cited) : Excerpts[r].hint = "unknown"
  <2>1. OfflineCategory(prompt, hint) \notin ActionCategories
    BY <1>1, <1>4, <1>5
  <2>2. hint = "unknown"
    BY <2>1, OfflineAnswer DEF ActionCategories
  <2>3. DOMAIN draft.cited \in SUBSET Nat
    BY <1>2 DEF IInv, Retrieved
  <2>4. hint # None
    BY <2>2, NoneAssumption DEF Categories
  <2> HIDE DEF hint
  <2>5. /\ title.hint # None => hint = title.hint
        /\ title.hint = None => \/ hint = None
                                \/ \E r \in Range(draft.cited) : Excerpts[r].hint = hint
    BY <2>3, HintOfRemediation DEF hint
  <2> QED BY <2>2, <2>4, <2>5
<1>6. pc' = "summarize" /\ client = "offline" =>
        c.about = OfflineCategory(prompt, hint) /\ c.about \in ActionCategories
  BY <1>1, <1>4
<1> QED BY <1>1, <1>2, <1>3, <1>5, <1>6

\* Every step of the triage, of other requests and of restarts keeps the invariant.
LEMMA Inductive == IInv /\ [Next]_vars => IInv'
<1> SUFFICES ASSUME IInv, [Next]_vars PROVE IInv'
  OBVIOUS
<1> USE DEF IInv
\* A step back to the gate leaves nothing to say of the draft.
<1>1. ASSUME pc' = "gate", draft' = Blank, client' \in Modes,
             SummaryAgrees', ActionsSuitCategory', RetrievalIsBest', FailsOnlyOnUnknown'
      PROVE  IInv'
  BY <1>1 DEF Drafted, Blank, Running, Described, Classified, Explained, Retrieved, Advised,
              Summarized
\* What is said of the verdict needs a proof only when one is saved.
<1>2. ASSUME UNCHANGED <<title, saved>>
      PROVE  /\ SummaryAgrees' /\ ActionsSuitCategory' /\ RetrievalIsBest'
             /\ pc' # "key_error" => FailsOnlyOnUnknown'
  BY <1>2 DEF SummaryAgrees, ActionsSuitCategory, RetrievalIsBest, FailsOnlyOnUnknown
<1>3. ASSUME UNCHANGED <<client, title, pc, draft, saved>> PROVE IInv'
  <2>1. FailsOnlyOnUnknown'
    BY <1>3 DEF FailsOnlyOnUnknown
  <2> QED BY <1>2, <1>3, <2>1 DEF Drafted, Running, Described, Classified, Explained, Retrieved,
        Advised, Summarized, Told, RemediationPrompt, RemediationHint
<1>4. ASSUME NEW a \in Anomalies, NEW i \in 1..(Len(anomalies) + 1), Absorb(a, i)
      PROVE  IInv'
  BY <1>3, <1>4 DEF Absorb
<1>5. CASE Begin
  <2>1. pc' = "classify" /\ UNCHANGED <<client, title, saved>> /\ Drafted'
    BY <1>5 DEF Begin, Step, Blank, Drafted
  <2>2. Described'
    BY <2>1, <1>5 DEF Begin, Blank, Description, Described
  <2> QED BY <2>1, <2>2, <1>2 DEF Running, Classified, Explained, Retrieved, Advised, Summarized
<1>6. CASE Classify
  <2>1. pc = "classify" /\ pc' = "root_cause" /\ UNCHANGED <<client, title, saved>>
    BY <1>6 DEF Classify, Step
  <2>2. PICK c \in Returned(Told, draft.asked.hint, Categories, "unknown") :
          draft' = [draft EXCEPT !.category = c]
    BY <1>6 DEF Classify
  <2>3. Drafted' /\ draft'.category = c /\ draft'.asked = draft.asked
    BY <2>2 DEF Drafted
  <2>4. /\ c.about \in Categories
        /\ c.by = "offline" <=> client = "offline"
        /\ client = "offline" => c.about = OfflineCategory(Told, draft.asked.hint)
    BY OfflineAnswer DEF Returned, Categories, ActionCategories
  <2>5. Told' = Told /\ Described'
    BY <2>1, <2>3 DEF Told, Described
  <2>6. Classified'
    BY <2>1, <2>3, <2>4, <2>5 DEF Classified
  <2> QED BY <2>1, <2>3, <2>5, <2>6, <1>2 DEF Running, Explained, Retrieved, Advised, Summarized
<1>7. CASE AnalyzeRootCause
  <2>1. pc = "root_cause" /\ pc' = "retrieve" /\ UNCHANGED <<client, title, saved>>
    BY <1>7 DEF AnalyzeRootCause, Step
  <2>2. PICK c \in Returned(Told, draft.category.about, {None}, None) :
          draft' = [draft EXCEPT !.cause = c]
    BY <1>7 DEF AnalyzeRootCause
  <2>3. /\ Drafted' /\ draft'.cause = c
        /\ draft'.category = draft.category /\ draft'.asked = draft.asked
    BY <2>2 DEF Drafted
  <2>4. client = "offline" => c.by = "offline" /\ c.about = draft.category.about
    BY <2>1, OfflineAnswer DEF Returned, Classified
  <2>5. Told' = Told /\ Described'
    BY <2>1, <2>3 DEF Told, Described
  <2>6. Classified' /\ Explained'
    BY <2>1, <2>3, <2>4, <2>5 DEF Classified, Explained
  <2> QED BY <2>1, <2>3, <2>5, <2>6, <1>2 DEF Running, Retrieved, Advised, Summarized
<1>8. CASE Retrieve
  <2>1. pc = "retrieve" /\ pc' = "remediate" /\ UNCHANGED <<client, title, saved>>
    BY <1>8 DEF Retrieve, Step
  <2>2. PICK s \in [Runbooks -> Grades] :
          draft' = [draft EXCEPT !.similarity = s, !.cited = Best(s)]
    BY <1>8 DEF Retrieve
  <2>3. /\ Drafted' /\ draft'.category = draft.category
        /\ draft'.cause = draft.cause /\ draft'.asked = draft.asked
        /\ draft'.similarity = s /\ draft'.cited = Best(s)
    BY <2>2 DEF Drafted
  <2>4. Told' = Told /\ Described'
    BY <2>1, <2>3 DEF Told, Described
  <2>5. Classified' /\ Explained'
    BY <2>1, <2>3, <2>4 DEF Classified, Explained
  <2>6. Retrieved'
    BY <2>3, BestIsBest DEF Retrieved, IsBest
  <2> QED BY <2>1, <2>3, <2>4, <2>5, <2>6, <1>2 DEF Running, Advised, Summarized
<1>9. CASE Recommend
  <2> DEFINE prompt == RemediationPrompt(draft.asked.summary)
             hint == RemediationHint(draft.asked.hint)
  <2>1. pc = "remediate" /\ draft.asked.hint = title.hint
    BY <1>9 DEF Recommend, Remediate, Described
  <2>2. /\ pc' \in {"summarize", "key_error"} /\ UNCHANGED <<client, title, saved>>
        /\ draft' = [draft EXCEPT !.actions = draft'.actions]
    BY <1>9, <2>1, Remediation
  <2>3. /\ Drafted' /\ draft'.category = draft.category
        /\ draft'.cause = draft.cause /\ draft'.asked = draft.asked
        /\ draft'.cited = draft.cited /\ draft'.similarity = draft.similarity
    BY <2>2 DEF Drafted
  <2>4. /\ Told' = Told /\ Described'
        /\ RemediationPrompt(draft.asked.summary)' = prompt
        /\ RemediationHint(draft.asked.hint)' = hint
    BY <2>1, <2>2, <2>3 DEF Told, Described, RemediationPrompt, RemediationHint
  <2>5. Classified' /\ Explained' /\ Retrieved'
    BY <2>1, <2>2, <2>3, <2>4 DEF Classified, Explained, Retrieved, IsBest
  <2>6. Advised'
    BY <1>9, <2>1, <2>2, <2>3, <2>4, Remediation DEF Advised
  <2>7. FailsOnlyOnUnknown'
    <3>1. CASE pc' = "key_error"
      BY <1>9, <2>1, <2>2, <2>3, <3>1, Remediation DEF FailsOnlyOnUnknown
    <3> QED BY <1>2, <2>2, <3>1
  <2> QED BY <2>2, <2>3, <2>4, <2>5, <2>6, <2>7, <1>2 DEF Running, Summarized
<1>10. CASE Summarize
  <2>1. pc = "summarize" /\ pc' = "save" /\ UNCHANGED <<client, title, saved>>
    BY <1>10 DEF Summarize, Step
  <2>2. PICK c \in Returned(draft.asked.summary, draft.category.about, {None},
                            draft.category.about) :
          draft' = [draft EXCEPT !.summary = c]
    BY <1>10 DEF Summarize
  <2>3. /\ Drafted' /\ draft'.summary = c /\ draft'.category = draft.category
        /\ draft'.cause = draft.cause /\ draft'.asked = draft.asked
        /\ draft'.cited = draft.cited /\ draft'.actions = draft.actions
        /\ draft'.similarity = draft.similarity
    BY <2>2 DEF Drafted
  <2>4. c.by # "llm" => c.about = draft.category.about
    BY <2>1, OfflineAnswer DEF Returned, Classified
  <2>5. /\ Told' = Told /\ Described'
        /\ RemediationPrompt(draft.asked.summary)' = RemediationPrompt(draft.asked.summary)
        /\ RemediationHint(draft.asked.hint)' = RemediationHint(draft.asked.hint)
    BY <2>1, <2>3 DEF Told, Described, RemediationPrompt, RemediationHint
  <2>6. Classified' /\ Explained' /\ Summarized' /\ Retrieved'
    BY <2>1, <2>3, <2>4, <2>5 DEF Classified, Explained, Summarized, Retrieved, IsBest
  <2>7. Advised'
    BY <2>1, <2>3, <2>5 DEF Advised
  <2> QED BY <2>1, <2>3, <2>5, <2>6, <2>7, <1>2 DEF Running
<1>11. CASE Save
  <2> DEFINE c == draft.category.about
             hint == draft.asked.hint
             prompt == RemediationPrompt(draft.asked.summary)
             passed == RemediationHint(hint)
  <2>1. /\ pc = "save" /\ pc' = "gate" /\ saved' = draft /\ draft' = Blank
        /\ UNCHANGED <<client, title>>
    BY <1>11 DEF Save, Step
  <2>2. SummaryAgrees'
    BY <2>1 DEF SummaryAgrees, Summarized
  <2>3. RetrievalIsBest'
    BY <2>1 DEF RetrievalIsBest, Retrieved, IsBest
  <2>4. ASSUME draft.category.by = "offline"
        PROVE  /\ c = OfflineCategory(Told, hint) /\ hint = title.hint
               /\ draft.actions.about = OfflineCategory(prompt, passed)
               /\ draft.actions.about \in ActionCategories
               /\ draft.cause.by = "offline" /\ draft.cause.about = c
               /\ hint # None => passed = hint
               /\ hint = None => \/ passed = None
                                 \/ \E r \in Range(draft.cited) : Excerpts[r].hint # None
    <3>1. client = "offline" /\ c = OfflineCategory(Told, hint)
      BY <2>1, <2>4 DEF Classified
    <3>2. DOMAIN draft.cited \in SUBSET Nat
      BY <2>1 DEF Retrieved
    <3>3. /\ hint # None => passed = hint
          /\ hint = None => \/ passed = None
                            \/ \E r \in Range(draft.cited) : Excerpts[r].hint # None
      BY <3>2, HintOfRemediation
    <3>4. hint = title.hint
      BY <2>1 DEF Described
    <3> QED BY <2>1, <3>1, <3>3, <3>4 DEF Advised, Explained
  <2>5. ASSUME draft.category.by = "offline", hint \in Categories
        PROVE  c = hint /\ draft.actions.about = c
    <3>1. hint # None /\ passed = hint
      BY <2>4, <2>5, NoneAssumption
    <3> HIDE DEF passed, prompt, hint, c
    <3> QED BY <2>4, <2>5, <3>1, OfflineAnswer
  \* Without a hint both agents search their prompts for keywords.
  <2>6. ASSUME draft.category.by = "offline", hint \notin Categories,
               ~ (hint = None /\ \E r \in Range(draft.cited) : Excerpts[r].hint # None),
               \A r \in Range(draft.cited) : Excerpts[r].mentions \cap TriedBefore(c) = {},
               c = "infrastructure" => c \in draft.asked.summary
        PROVE  draft.actions.about = c
    <3> DEFINE excerpts == UNION {Excerpts[r].mentions : r \in Range(draft.cited)}
    <3>1. passed \notin Categories
      BY <2>4, <2>6, NoneAssumption
    <3>2. /\ c = FirstMentioned(Told, "application")
          /\ draft.actions.about = FirstMentioned(prompt, "application")
      <4> HIDE DEF c, prompt, passed, hint
      <4> QED BY <2>4, <2>6, <3>1, OfflineAnswer
    <3>3. prompt = (draft.asked.summary \cup excerpts) \cup Named(c)
      BY <2>4, <2>6 DEF RemediationPrompt
    <3>4. Named(c) \cap TriedBefore(c) = {} /\ c \in Keywords \cup {"application"}
      BY <3>2, Heuristic, Order DEF Named
    <3>5. \A k \in TriedBefore(c) : k \in prompt => k \in Told
      BY <2>6, <3>3, <3>4 DEF Told
    <3>6. c # "application" => c \in prompt
      BY <2>6, <3>3, <3>4, Order DEF Named
    <3> HIDE DEF prompt, c
    <3> QED BY <3>2, <3>5, <3>6, SameAnswer
  <2>7. ActionsSuitCategory'
    <3> SUFFICES ASSUME draft.category.by = "offline", draft.actions.about # c
                 PROVE  /\ hint \notin Categories
                        /\ \/ hint = None /\ \E r \in Range(draft.cited) : Excerpts[r].hint # None
                           \/ \E r \in Range(draft.cited) :
                                Excerpts[r].mentions \cap TriedBefore(c) # {}
                           \/ c = "infrastructure" /\ c \notin draft.asked.summary
      BY <2>1 DEF ActionsSuitCategory
    <3> HIDE DEF c, hint
    <3> QED BY <2>5, <2>6
  <2>8. FailsOnlyOnUnknown'
    <3>1. ASSUME draft.category.by = "offline"
          PROVE  title.hint # "unknown" /\ c \in ActionCategories
                 /\ draft.actions.about \in ActionCategories
      <4>1. CASE hint \in Categories
        BY <2>4, <2>5, <3>1, <4>1 DEF ActionCategories
      <4>2. CASE hint \notin Categories
        BY <2>4, <3>1, <4>2, OfflineAnswer DEF Categories
      <4> QED BY <4>1, <4>2
    <3> QED BY <2>1, <3>1 DEF FailsOnlyOnUnknown
  <2> QED BY <2>1, <2>2, <2>3, <2>7, <2>8, <1>1 DEF Running
<1>12. ASSUME NEW c \in Modes, Interrupt(c) PROVE IInv'
  BY <1>12, <1>1, <1>2 DEF Interrupt
<1>13. CASE UNCHANGED vars
  BY <1>3, <1>13 DEF vars
<1> QED
  BY <1>4, <1>5, <1>6, <1>7, <1>8, <1>9, <1>10, <1>11, <1>12, <1>13 DEF Next

\* What each agent returns is kept for the next ones and for the verdict
\* (TriageService.triage), whatever is absorbed meanwhile; offline it is the hint of the
\* prompt, if that is a category, and else what its keywords say (MockAIClient._classify).
THEOREM Content == Spec => []IInv
BY Initial, Inductive, PTL DEF Spec

\* Whatever the runbooks and the incident's texts, a summary that no LLM wrote
\* names the category the incident is filed under (executive_summary_agent).
THEOREM SummaryNamesCategory == Spec => []SummaryAgrees
<1>1. IInv => SummaryAgrees
  BY DEF IInv
<1> QED BY <1>1, Content, PTL

\* Offline actions suit the category, save for the three exceptions (mock_ai_client).
THEOREM ActionsFollow == Spec => []ActionsSuitCategory
<1>1. IInv => ActionsSuitCategory
  BY DEF IInv
<1> QED BY <1>1, Content, PTL

\* Whatever the similarities, a verdict cites the most similar runbooks
\* (RunbookRetriever.retrieve).
THEOREM RetrievalBest == Spec => []RetrievalIsBest
<1>1. IInv => RetrievalIsBest
  BY DEF IInv
<1> QED BY <1>1, Content, PTL

\* The offline client fails on nothing but a line that names "unknown", and offline an
\* incident whose service has one gets no verdict (MockAIClient.complete_structured).
THEOREM FailsOnUnknown == Spec => []FailsOnlyOnUnknown
<1>1. IInv => FailsOnlyOnUnknown
  BY DEF IInv
<1> QED BY <1>1, Content, PTL
=============================================================================
