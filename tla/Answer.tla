------------------------------- MODULE Answer -------------------------------
(* One question on its way through the answer pipeline: analysis, search,    *)
(* generation, rendering (pipeline/answer.py, knowledge/search.py), review   *)
(* (pipeline/review.py) and the gate that decides whether the draft goes out *)
(* by itself (pipeline/gating.py, operations/intake.py process).             *)
(*                                                                           *)
(* A text is the set of its words, some of which are numbers.  What the      *)
(* language model says is any member of a set; each call of it may fail.     *)

EXTENDS Naturals, FiniteSets

CONSTANTS
  Words,
  Numbers,     \* the words that are numbers
  Alike,       \* pairs of words one of which is a prefix of the other
  Entries,     \* knowledge items
  Limit,       \* how many items the search returns at most
  Questions,   \* what may be asked
  Bases,       \* the knowledge bases to be considered
  Pasts,       \* what may have been asked, and answered, before
  Sayings,     \* the statements the model may make
  Texts        \* the texts the model may render, the empty one among them

ASSUME AnswerAssumption ==
  /\ Numbers \subseteq Words
  /\ Limit \in Nat \ {0}
  /\ Questions \subseteq SUBSET Words
  /\ Texts \subseteq SUBSET Words
  /\ IsFiniteSet(Words)
  /\ \A b \in Bases : \A i \in Entries : b[i].near \in Nat

VARIABLES
  question,
  base,        \* the items: title, body, called, near, stale, due
  past,        \* earlier questions and the groundings of their answers
  up,          \* is there a model?
  pc,
  similar,     \* earlier questions like this one
  hits,        \* what the search found
  statements,  \* the draft
  rendered,    \* the draft as the asker will read it
  verdict,     \* of the review
  route,       \* of the gate: "auto", "human" or "not publishing"
  halted       \* why no answer was made

asked  == <<question, base, past, up>>
made   == <<statements, rendered>>
exit   == <<verdict, route>>
answerVars == <<asked, pc, similar, hits, made, exit, halted>>

AnswerInit ==
  /\ question \in Questions
  /\ base \in Bases
  /\ past \in Pasts
  /\ up \in BOOLEAN
  /\ pc = "analyze"
  /\ similar = {}
  /\ hits = {}
  /\ statements = {}
  /\ rendered = {}
  /\ verdict = "none"
  /\ route = "none"
  /\ halted = "no"

-----------------------------------------------------------------------------
(* The search *)

Matches(w, text) ==
  w \in text \/ \E d \in text : <<w, d>> \in Alike \/ <<d, w>> \in Alike

\* In the title a word of the question counts three, in the body one.
ByKeyword(i) ==
  LET inTitle == {w \in question : Matches(w, base[i].title)}
      inBody  == {w \in question : Matches(w, base[i].body)}
  IN  3 * Cardinality(inTitle) + Cardinality(inBody \ inTitle)

\* The words askers have for an item, without those that are said of more
\* than half of the items.
Distinct(i) ==
  LET named == {j \in Entries : base[j].called # {}}
      Of(w) == {j \in named : w \in base[j].called}
  IN  {w \in base[i].called : \/ Cardinality(named) < 2
                              \/ 2 * Cardinality(Of(w)) <= Cardinality(named)}

\* One such word is no evidence, two are.
ByVocabulary(i) ==
  LET matched == Cardinality({w \in question : Matches(w, Distinct(i))})
  IN  IF matched >= 2 THEN 2 * matched ELSE 0

Score(i, embedded) ==
  ByKeyword(i) + ByVocabulary(i) + IF embedded THEN base[i].near ELSE 0

\* The Limit best ones; how ties are broken, by the title, is left out.
IsBest(found, embedded) ==
  LET scored == {i \in Entries : Score(i, embedded) > 0}
  IN  /\ found \subseteq scored
      /\ Cardinality(found) <= Limit
      /\ found # scored => Cardinality(found) = Limit
      /\ \A i \in found, j \in scored \ found :
           Score(i, embedded) >= Score(j, embedded)

\* A fault: what the model did not name is lost.
RerankedOnly(named) == hits \intersect named

\* What it names comes first, the rest after it; an id it makes up is nothing.
Reranked(named) == (hits \intersect named) \union hits

-----------------------------------------------------------------------------
(* The stages *)

\* Earlier questions that share a word.  One with the very same text is taken
\* for the question itself.
Analyze ==
  /\ pc = "analyze"
  /\ similar' = {a \in past : a.text # question
                              /\ a.text \intersect question # {}}
  /\ pc' = "find"
  /\ UNCHANGED <<asked, hits, made, exit, halted>>

\* The embeddings may be missing, then the words decide alone.
Find ==
  /\ pc = "find"
  /\ hits' \in {h \in SUBSET Entries : \E embedded \in BOOLEAN :
                  IsBest(h, embedded /\ question # {})}
  /\ pc' = "rerank"
  /\ UNCHANGED <<asked, similar, made, exit, halted>>

\* With one hit or no model there is nothing to rank.
Rerank ==
  /\ pc = "rerank"
  /\ \/ UNCHANGED hits
     \/ /\ up /\ Cardinality(hits) > 1
        /\ \E named \in SUBSET Entries : hits' = Reranked(named)
  /\ IF hits' = {}
       THEN halted' = "no grounding" /\ pc' = "done"
       ELSE pc' = "generate" /\ UNCHANGED halted
  /\ UNCHANGED <<asked, similar, made, exit>>

SourceOf(grounding) == UNION {base[g].title \union base[g].body : g \in grounding}

\* Three fifths of its words are in the sources it names.
Covered(s, grounding) ==
  5 * Cardinality({w \in s.words : Matches(w, SourceOf(grounding))})
    >= 3 * Cardinality(s.words)

\* A statement as it is taken over: grounding that was not found is dropped,
\* and "confirmed" must be borne out.
Taken(s) ==
  LET g == s.grounding \intersect hits
      borneOut == /\ g # {}
                  /\ \A k \in g : ~base[k].stale
                  /\ Covered(s, g)
  IN  [words |-> s.words, grounding |-> g,
       mark |-> IF s.mark # "confirmed" \/ borneOut THEN s.mark
                ELSE IF g = {} THEN "thin" ELSE "inferred"]

Grounding == UNION {s.grounding : s \in statements}

\* The model answers in statements, at most two of them here; if none rests on
\* anything there is no draft.
Generate ==
  /\ pc = "generate"
  /\ up
  /\ \E s \in Sayings, t \in Sayings :
       LET taken == {Taken(s), Taken(t)}
       IN  IF \A r \in taken : r.grounding = {}
             THEN /\ halted' = "core unknown" /\ pc' = "done"
                  /\ UNCHANGED statements
             ELSE /\ statements' = taken /\ pc' = "render"
                  /\ UNCHANGED halted
  /\ UNCHANGED <<asked, similar, hits, rendered, exit>>

\* It says that it cannot answer; or it fails, or there is none.
GenerateNothing ==
  /\ pc = "generate"
  /\ halted' \in {"generation failed"} \union (IF up THEN {"core unknown"} ELSE {})
  /\ pc' = "done"
  /\ UNCHANGED <<asked, similar, hits, made, exit>>

\* A failure or an empty text leaves the statements as they are.
Render ==
  /\ pc = "render"
  /\ rendered' \in Texts \union {{}}
  /\ pc' = "review"
  /\ UNCHANGED <<asked, similar, hits, statements, exit, halted>>

\* What goes out.
Body == IF rendered = {} THEN UNION {s.words : s \in statements} ELSE rendered

\* A fault: the review sees the draft as it was before the rendering.
ReviewedDraft == UNION {s.words : s \in statements}

\* What the reviewer gets to see, with the sources, and nothing else.
Reviewed == Body

Ungrounded(text) == (text \intersect Numbers) \ SourceOf(Grounding)

\* The two mechanical checks come first; then the model judges, or fails to.
Review ==
  /\ pc = "review"
  /\ verdict' \in
       IF \E g \in Grounding : base[g].stale THEN {"P4"}
       ELSE IF Ungrounded(Reviewed) # {} THEN {"P1"}
       ELSE {"passed", "rejected", "not judged"}
  /\ pc' = "gate"
  /\ UNCHANGED <<asked, similar, hits, made, route, halted>>

\* Has a similar question answers, and none with just this grounding?
Divergent ==
  LET answers == UNION {a.grounds : a \in similar}
  IN  answers # {} /\ Grounding \notin answers

Signals ==
  {s \in {"thin", "stale", "expiring", "facts", "novel", "divergent", "unreviewed"} :
     \/ s = "thin"       /\ Cardinality(Grounding) <= 1
     \/ s = "stale"      /\ \E g \in Grounding : base[g].stale
     \/ s = "expiring"   /\ \E g \in Grounding : base[g].due
     \/ s = "facts"      /\ Ungrounded(Body) # {}
     \/ s = "novel"      /\ similar = {}
     \/ s = "divergent"  /\ Divergent
     \/ s = "unreviewed" /\ verdict # "passed"}

\* In the third phase only the review and the sample send a draft to a person.
ByItself(phase, sampled) ==
  IF phase >= 3 THEN verdict = "passed" /\ ~sampled ELSE Signals = {}

Gate(stage, phase, sampled) ==
  /\ pc = "gate"
  /\ route' = IF ~stage THEN "not publishing"
              ELSE IF ByItself(phase, sampled) THEN "auto" ELSE "human"
  /\ pc' = "done"
  /\ UNCHANGED <<asked, similar, hits, made, verdict, halted>>

AnswerNext ==
  \/ Analyze \/ Find \/ Rerank
  \/ Generate \/ GenerateNothing
  \/ Render \/ Review
  \/ \E stage, sampled \in BOOLEAN, phase \in 1 .. 3 : Gate(stage, phase, sampled)

AnswerSpec == AnswerInit /\ [][AnswerNext]_answerVars

-----------------------------------------------------------------------------
(* Properties *)

\* What goes out by itself, in whichever phase, says no number its grounding
\* does not contain, rests on items that were found and are fresh, and was
\* passed: whatever the model made of it on the way, the rendering included
\* (answer.py: "the text that goes out is the text the review sees").
AutoIsBacked ==
  route = "auto" =>
    /\ Body \intersect Numbers \subseteq SourceOf(Grounding)
    /\ Grounding # {} /\ Grounding \subseteq hits
    /\ \A g \in Grounding : ~base[g].stale
    /\ verdict = "passed"

\* A question ends for want of grounding only if no item shares a word with
\* it: the search returns the best ones and the model cannot discard them
\* (search.py rerank: else there is grounding and it is said that there is none).
SilenceIsJustified ==
  halted = "no grounding" =>
    \A i \in Entries, w \in question :
      ~Matches(w, base[i].title \union base[i].body)

=============================================================================
