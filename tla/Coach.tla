---------------------------------- MODULE Coach ----------------------------------
(***************************************************************************)
(* The writing coach (ai/): a student asks for titles, a story or texts to *)
(* share; a provider writes variants, which are cleaned and ranked; the    *)
(* tokens are charged to the student's budget.  A text is a sequence of    *)
(* words, of which only those that the cleaning looks at are told apart.   *)
(***************************************************************************)
EXTENDS Integers, Sequences, FiniteSets, FiniteSetsExt

CONSTANTS
    Request, User,
    Kind, Locale,   \* of {"TITLE", "STORY", "SHARE"} and {"de", "en"}
    Hints,          \* sets of words of a student that the mock provider reacts to
    Template,       \* Template[kind]: the texts of the mock provider
    Reply,          \* what Claude may answer
    Window,         \* Window[kind]: LENGTH_TARGETS
    InputLength,    \* lengths of what students type
    CharsPerToken, MinTokens, TokenLimit,
    MaxGenerations  \* bound

CoachAssumption ==
    /\ IsFiniteSet(Request)
    /\ {CharsPerToken, MinTokens, TokenLimit, MaxGenerations} \subseteq Nat /\ CharsPerToken > 0
    /\ InputLength \subseteq Nat
    /\ Kind \subseteq {"TITLE", "STORY", "SHARE"}
    /\ \A kind \in {"TITLE", "STORY", "SHARE"} : Template[kind] \in Seq(Seq(STRING))
    /\ Reply \subseteq Seq(STRING)
    /\ \A kind \in Kind : Window[kind] \in [min : Nat, max : Nat]

VARIABLES
    provider,       \* the provider that the environment selects
    budget,         \* budget[u]: the row of user u, or NoBudget
    log,            \* the rows of AiGeneration
    request         \* what each request holds

vars == <<provider, budget, log, request>>

NoBudget == [used |-> -1, generations |-> -1]
Idle == [step |-> "idle"]
NewBudget == [used |-> 0, generations |-> 0]
Budgets == [used : 0..TokenLimit, generations : Nat]

TypeOK ==
    /\ provider \in {"mock", "claude"}
    /\ budget \in [User -> Budgets \cup {NoBudget}]
    /\ \A i \in DOMAIN log : log[i].user \in User /\ log[i].tokens \in Nat
    /\ \A r \in Request : request[r].step \in {"idle", "generate", "charge", "log"}

\* shouldUseClaude: only when asked for, and with a key.
ProviderFor(wanted, key) == IF wanted = "claude" /\ key THEN "claude" ELSE "mock"

Init ==
    /\ \E wanted \in {"mock", "claude"}, key \in BOOLEAN : provider = ProviderFor(wanted, key)
    /\ budget = [u \in User |-> NoBudget]
    /\ log = <<>>
    /\ request = [r \in Request |-> Idle]

Continue(r, next) == request' = [request EXCEPT ![r] = next]
-----------------------------------------------------------------------------
(* Texts.                                                                  *)

\* The words of s whose positions are in keep.
Kept(s, keep) ==
    LET kept[i \in 0..Len(s)] ==
            IF i = 0 THEN <<>> ELSE IF i \in keep THEN Append(kept[i - 1], s[i]) ELSE kept[i - 1]
    IN  kept[Len(s)]

\* normalizeDashes
NormalizeDashes(t) == [i \in DOMAIN t |-> IF t[i] = "dash" THEN "hyphen" ELSE t[i]]
\* stripAiSlop: the phrases ("slop", "phrase"), then the intensifiers ("hype").
InPhrase(t, i) ==
    \/ t[i] = "slop" /\ i < Len(t) /\ t[i + 1] = "phrase"
    \/ t[i] = "phrase" /\ i > 1 /\ t[i - 1] = "slop"
StripAiSlop(t) ==
    LET phrases == Kept(t, {i \in DOMAIN t : ~InPhrase(t, i)})
    IN  Kept(phrases, {i \in DOMAIN phrases : phrases[i] # "hype"})
\* enforceGermanUmlauts
EnforceUmlauts(t) == [i \in DOMAIN t |-> IF t[i] = "fuer" THEN "umlaut" ELSE t[i]]
\* applyTone
ApplyTone(t, locale) ==
    LET stripped == StripAiSlop(NormalizeDashes(t))
    IN  IF locale = "de" THEN EnforceUmlauts(stripped) ELSE stripped

\* windowDistance
Distance(length, w) == Max({w.min - length, length - w.max, 0})
\* dedupeTrimmed
Dedupe(texts) ==
    Kept(texts, {i \in DOMAIN texts : texts[i] # <<>> /\ \A j \in 1..(i - 1) : texts[j] # texts[i]})
\* rankVariants: the first of those closest to the window.
Closest(texts, w) ==
    {i \in DOMAIN texts : \A j \in DOMAIN texts : Distance(Len(texts[i]), w) <= Distance(Len(texts[j]), w)}
Rank(texts, w) ==
    LET cleaned == Dedupe(texts)
    IN  [variants |-> cleaned,
         recommended |-> IF cleaned = <<>> THEN 0 ELSE Min(Closest(cleaned, w))]

\* splitStory: paragraphs; what is missing is empty.
Paragraphs(t) ==
    LET Breaks == {0, Len(t) + 1} \cup {i \in DOMAIN t : t[i] = "break"}
        From(b) == SubSeq(t, b + 1, Min({c \in Breaks : c > b}) - 1)
        parts == [i \in 1..(Len(t) + 1) |-> IF i - 1 \in Breaks THEN From(i - 1) ELSE <<>>]
    IN  Kept(parts, {i \in DOMAIN parts : parts[i] # <<>>})
SplitStory(t) ==
    [i \in 1..3 |-> IF i <= Len(Paragraphs(t)) THEN Paragraphs(t)[i] ELSE IF i = 1 THEN t ELSE <<>>]

\* buildTitlePrompt, buildStoryPrompt, buildSharePrompt: what is asked for, and
\* the words of the student.
BuildPrompt(kind, locale, hints) ==
    [words |-> hints \cup (CASE kind = "STORY" -> {"funding gap"} [] kind = "SHARE" -> {"social-share"}
                             [] OTHER -> {}),
     variants |-> IF kind = "STORY" THEN 2 ELSE 3, locale |-> locale]

\* detectKind, of the mock provider, which looks for words of the prompt.
DetectKind(prompt) ==
    IF "funding gap" \in prompt.words THEN "STORY"
    ELSE IF "social-share" \in prompt.words THEN "SHARE" ELSE "TITLE"
\* The mock provider takes its texts from one of them on, again and again (pick).
MockVariants(prompt) ==
    LET all == Template[DetectKind(prompt)]
    IN  {[i \in 1..prompt.variants |-> all[((offset + i) % Len(all)) + 1]] : offset \in 0..(Len(all) - 1)}
\* Claude's lines are its variants.
ClaudeVariants(prompt) ==
    {SubSeq(Paragraphs(t), 1, Min({prompt.variants, Len(Paragraphs(t))})) : t \in Reply}
-----------------------------------------------------------------------------
(* The budget.                                                             *)

CharsOf(texts) == MapThenSumSet(LAMBDA i : Len(texts[i]), DOMAIN texts)
\* estimateTokens
EstimateTokens(input, output) ==
    Max({MinTokens, (input + output + CharsPerToken - 1) \div CharsPerToken})
\* isExhausted, remaining
Exhausted(b) == TokenLimit - b.used < MinTokens
\* Mutant: what was used before is forgotten.
OnlyThis(b, tokens) == [used |-> Min({TokenLimit, tokens}), generations |-> b.generations + 1]
\* applyUsage
ApplyUsage(b, tokens) == [used |-> Min({TokenLimit, b.used + tokens}), generations |-> b.generations + 1]

Running == Cardinality({r \in Request : request[r].step # "idle"})

\* guardBudget: the row is read, or made, and must not be used up.
Ask(r, u, kind, locale, hints, input) ==
    LET b == IF budget[u] = NoBudget THEN NewBudget ELSE budget[u]
    IN  /\ request[r] = Idle
        /\ Len(log) + Running < MaxGenerations
        /\ budget' = [budget EXCEPT ![u] = b]
        /\ IF Exhausted(b) THEN UNCHANGED request
           ELSE Continue(r, [step |-> "generate", user |-> u, kind |-> kind, input |-> input,
                             state |-> b, prompt |-> BuildPrompt(kind, locale, hints)])
        /\ UNCHANGED <<provider, log>>

\* provider.generate, process
Generate(r) ==
    /\ request[r].step = "generate"
    /\ \E raw \in IF provider = "mock" THEN MockVariants(request[r].prompt)
                   ELSE ClaudeVariants(request[r].prompt) :
          LET toned == [i \in DOMAIN raw |-> ApplyTone(raw[i], request[r].prompt.locale)]
              ranked == Rank(toned, Window[request[r].kind])
          IN  Continue(r, [step |-> "charge", user |-> request[r].user, kind |-> request[r].kind,
                           state |-> request[r].state, ranked |-> ranked,
                           parts |-> IF request[r].kind = "STORY"
                                     THEN {SplitStory(ranked.variants[i]) : i \in DOMAIN ranked.variants}
                                     ELSE {},
                           tokens |-> EstimateTokens(request[r].input, CharsOf(ranked.variants))])
    /\ UNCHANGED <<provider, budget, log>>

\* Claude does not answer: an error, and nothing is charged.
GenerateFails(r) ==
    /\ request[r].step = "generate"
    /\ provider = "claude"
    /\ Continue(r, Idle)
    /\ UNCHANGED <<provider, budget, log>>

\* charge: the budget that was read at the start is written back, with the usage ...
Charge(r) ==
    /\ request[r].step = "charge"
    /\ budget' = [budget EXCEPT ![request[r].user] = ApplyUsage(request[r].state, request[r].tokens)]
    /\ Continue(r, [request[r] EXCEPT !.step = "log"])
    /\ UNCHANGED <<provider, log>>

\* ... and the generation is logged.
LogGeneration(r) ==
    /\ request[r].step = "log"
    /\ log' = Append(log, [user |-> request[r].user, kind |-> request[r].kind,
                           tokens |-> request[r].tokens, variants |-> Len(request[r].ranked.variants)])
    /\ Continue(r, Idle)
    /\ UNCHANGED <<provider, budget>>

\* The routes of the coach.
CoachStep(r) ==
    \/ \E u \in User, kind \in Kind, locale \in Locale, hints \in Hints, input \in InputLength :
          Ask(r, u, kind, locale, hints, input)
    \/ Generate(r)
    \/ GenerateFails(r)
    \/ Charge(r)
    \/ LogGeneration(r)

Next == \E r \in Request : CoachStep(r)

Spec == Init /\ [][Next]_vars
-----------------------------------------------------------------------------
(* What the checks are for.                                                *)

Generations(u) == {i \in DOMAIN log : log[i].user = u}
Unlogged(u) == {r \in Request : request[r].step = "log" /\ request[r].user = u}

Spent(u) == MapThenSumSet(LAMBDA i : log[i].tokens, Generations(u))
OnItsWay(u) == MapThenSumSet(LAMBDA r : request[r].tokens, Unlogged(u))

\* What the budget says was used is what the generations cost, up to the limit:
\* nothing is charged for a generation that failed, and none is free.  True as
\* long as a student waits for one answer before asking again (charge writes back
\* what guardBudget read).
UsedIsWhatWasGenerated ==
    \A u \in User : budget[u] # NoBudget =>
        budget[u].used = Min({TokenLimit, Spent(u) + OnItsWay(u)})

\* What a student is shown: the variants differ, and none of them is closer to the
\* length that is wanted than the one that is recommended (rankVariants).
TheBestIsRecommended ==
    \A r \in Request : request[r].step \in {"charge", "log"} =>
        LET ranked == request[r].ranked
            w == Window[request[r].kind]
        IN  /\ \A i, j \in DOMAIN ranked.variants : ranked.variants[i] = ranked.variants[j] => i = j
            /\ \A i \in DOMAIN ranked.variants :
                  Distance(Len(ranked.variants[ranked.recommended]), w) <= Distance(Len(ranked.variants[i]), w)

=============================================================================
