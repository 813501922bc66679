----------------------------- MODULE MCServices -----------------------------
(* Three parts that share no state, for TLC: a behaviour exercises the one   *)
(* named by `part`, the other two rest in a state of their own.              *)
EXTENDS Alerts, Endpoint, Answer

CONSTANTS f1, f2,
          seed, here, outside, blank,
          w1, w2,
          k1, k2, k3, ghost, term, terms, how, n1, n2

VARIABLE part

(* The endpoints *)

ScreenEndpoints == {seed, here, outside, blank}

MCAlike == {<<term, terms>>}

(* The knowledge, the questions and what a model may say *)

Item(title, body, called, near, stale, due) ==
  [title |-> title, body |-> body, called |-> called, near |-> near,
   stale |-> stale, due |-> due]

Rule  == Item({term}, {n1}, {}, 0, FALSE, FALSE)
Rule2 == Item({how}, {terms}, {}, 0, FALSE, TRUE)
Old   == Item({term}, {n1}, {}, 0, TRUE, FALSE)
Asked == Item({n1}, {n2}, {how, term}, 0, FALSE, FALSE)
Close == Item({n1}, {}, {how, term}, 4, FALSE, FALSE)

MCBases ==
  {b \in [Entries -> {Rule, Rule2, Old, Asked, Close}] :
     b[k1] \in {Rule, Close} /\ b[k3] \in {Rule2, Asked}}

MCQuestions == {{term, how}, {terms, n2}, {n1}, {}}

MCPasts ==
  {{}, {[text |-> {term, n1}, grounds |-> {{k1}}]},
   {[text |-> {term}, grounds |-> {{k1, k2}}], [text |-> {how, n1}, grounds |-> {}]}}

MCSayings ==
  {[words |-> w, grounding |-> g, mark |-> "confirmed"] :
     w \in {{terms}, {n1, n2}}, g \in {{k1}, {k1, k2}, {k2, ghost}}}
  \union {[words |-> {how}, grounding |-> {ghost}, mark |-> "thin"]}

MCTexts == {{term}, {n1, how}, {n2}}

ServicesInit ==
  /\ part \in {"alerts", "endpoint", "answer"}
  /\ AlertsInit
  /\ EndpointInit
  /\ part # "endpoint" => exposed = FALSE
  /\ AnswerInit
  /\ part # "answer" =>
       /\ question = {} /\ past = {} /\ up = FALSE
       /\ base = CHOOSE b \in Bases : TRUE

ServicesNext ==
  \/ part = "alerts" /\ AlertsNext /\ UNCHANGED <<endpointVars, answerVars, part>>
  \/ part = "endpoint" /\ EndpointNext /\ UNCHANGED <<alertVars, answerVars, part>>
  \/ part = "answer" /\ AnswerNext /\ UNCHANGED <<alertVars, endpointVars, part>>

servicesVars == <<alertVars, endpointVars, answerVars, part>>

ServicesSpec ==
  /\ ServicesInit
  /\ [][ServicesNext]_servicesVars
  /\ WF_alertVars(part = "alerts" /\ Worker)
  /\ SF_alertVars(part = "alerts" /\ Accepts)

=============================================================================
