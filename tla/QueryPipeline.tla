--------------------------- MODULE QueryPipeline ---------------------------
(***************************************************************************)
(* How a question is answered and how its answers are reused               *)
(* (app/services/dispatcher.py, rule_engine.py, semantic_router.py,        *)
(* search_aggregator.py, model_router.py, app/core/cache.py).              *)
(*                                                                         *)
(* The requests of one application that ask one question.  There are two   *)
(* caches: Upstash keeps an answer for an hour or for a week, and the rule *)
(* engine reuses the responses of the last hour.  Otherwise rules or the   *)
(* semantic router decide between a fixed answer, a search and a model.    *)
(* QueryAccounting is about the same requests and what they cost, KeyPool  *)
(* about the keys of the models.                                           *)
(***************************************************************************)
EXTENDS Naturals, FiniteSets

CONSTANTS
    Asker,     \* requests
    Engines,   \* search engines that are tried
    MaxCalls,  \* MAX_MODEL_ATTEMPTS
    Hour, Week,
    MaxTime

ASSUME PipelineAssumption ==
    Engines \in Nat \ {0} /\ MaxCalls \in Nat \ {0} /\ Hour \in Nat /\ Week \in Nat /\ MaxTime \in Nat

VARIABLES
    clock,
    question,   \* what is asked, by the route it takes
    upstash,    \* the entry of the question in the shared cache
    responses,  \* its rows of final_responses
    asking      \* what each request does

pipelineVars == <<clock, question, upstash, responses, asking>>

\* A search and a model, a model, a fixed answer, the time of day, or no rule.
Question == {"news", "math", "greeting", "time", "other"}
NeedsModel == question \notin {"greeting", "time"}
NeedsSearch == question \in {"news", "other"}

\* An answer and its sources: short and ASCII, short and not ASCII, long enough to be
\* compressed in Upstash, or read from there with other characters.
Text == {"ascii", "accented", "long", "garbled"}

NoAnswer == [by |-> "nobody", born |-> 0, kind |-> "failed", text |-> "ascii"]
NoEntry == [answer |-> NoAnswer, until |-> 0]
NotAsked == [at |-> "idle", fresh |-> FALSE, step |-> 0, static |-> FALSE,
             hit |-> "none", since |-> 0, answer |-> NoAnswer]

PipelineInit ==
    /\ clock = 0
    /\ question \in Question
    /\ upstash = NoEntry
    /\ responses = {}
    /\ asking = [r \in Asker |-> NotAsked]

Doing(r, place) == asking[r].at = place
Does(r, does) == asking' = [asking EXCEPT ![r] = does]
\* An answer is composed; what was tried for it no longer matters.
Compose(r, kind, text) ==
    Does(r, [asking[r] EXCEPT !.at = "persist", !.step = 0,
                              !.answer = [by |-> r, born |-> clock, kind |-> kind, text |-> text]])
Reuses(r, cache, answer) == Does(r, [asking[r] EXCEPT !.at = "persist", !.hit = cache, !.since = clock,
                                                     !.answer = answer])

-----------------------------------------------------------------------------
\* no_cache: the header of the request, or a question for the time.
Ask(r, fresh) ==
    /\ Doing(r, "idle")
    /\ Does(r, [asking[r] EXCEPT !.at = "lookup", !.fresh = fresh \/ question = "time"])
    /\ UNCHANGED <<clock, question, upstash, responses>>

\* What becomes of an answer in Upstash: set writes the bytes of the payload as latin-1 and
\* get reads them as UTF-8, so that accented characters come back as others.
Garbled(answer) == IF answer.text = "accented" THEN [answer EXCEPT !.text = "garbled"] ELSE answer

\* A cache that cannot be read has no entry, nor one whose payload was compressed: its
\* mark does not survive the way through the cache.
LookUp(r) ==
    /\ Doing(r, "lookup")
    /\ \/ /\ ~asking[r].fresh /\ upstash # NoEntry /\ clock < upstash.until
          /\ upstash.answer.text # "long"
          /\ Reuses(r, "upstash", Garbled(upstash.answer))
       \/ Does(r, [asking[r] EXCEPT !.at = "rules"])
    /\ UNCHANGED <<clock, question, upstash, responses>>

\* _check_cache: what the rule engine may reuse.  A failed answer is marked, and so
\* is one that had no search results.
Reusable == {row \in responses : row.status = "completed" /\ clock <= row.at + Hour
                                 /\ row.answer.kind \notin {"time", "degraded", "failed"}}

\* The latest of them, if it is one of the last ten responses of the application.
RuleHit(r) ==
    /\ Doing(r, "rules")
    /\ ~asking[r].fresh
    /\ \E row \in Reusable :
          /\ \A other \in Reusable : other.at <= row.at
          /\ Reuses(r, "rules", row.answer)
    /\ UNCHANGED <<clock, question, upstash, responses>>

\* The rule that matches, or the intent that the semantic router finds.
Route(r, static) ==
    /\ Doing(r, "rules")
    /\ question # "other" => static = (question = "math")
    /\ LET routed == [asking[r] EXCEPT !.static = static, !.step = 1]
       IN IF NeedsSearch THEN Does(r, [routed EXCEPT !.at = "search"])
          ELSE IF NeedsModel THEN Does(r, [routed EXCEPT !.at = "model"])
          ELSE Compose(r, IF question = "time" THEN "time" ELSE "fixed", "ascii")
    /\ UNCHANGED <<clock, question, upstash, responses>>

\* An engine answers, perhaps with nothing, or the next one is asked.  A question of a
\* rule that needs a search and has no results is not put to a model.
Search(r) ==
    /\ Doing(r, "search")
    /\ \E sources \in BOOLEAN, fails \in BOOLEAN :
          IF fails /\ asking[r].step < Engines THEN Does(r, [asking[r] EXCEPT !.step = @ + 1])
          ELSE IF question = "news" /\ (fails \/ ~sources) THEN Compose(r, "degraded", "ascii")
          ELSE Does(r, [asking[r] EXCEPT !.at = "model", !.step = 1])
    /\ UNCHANGED <<clock, question, upstash, responses>>

\* call_llm: the next candidate that has a key answers or fails.
CallModel(r) ==
    /\ Doing(r, "model")
    /\ asking[r].step <= MaxCalls
    /\ \/ \E text \in Text \ {"garbled"} : Compose(r, "answered", text)
       \/ Does(r, [asking[r] EXCEPT !.step = @ + 1])
    /\ UNCHANGED <<clock, question, upstash, responses>>

\* No candidate is left: _persist_final with the message of an error, and 503.
NoModel(r) ==
    /\ Doing(r, "model")
    /\ responses' = responses \cup {[asker |-> r, answer |-> NoAnswer, at |-> clock, status |-> "failed"]}
    /\ Does(r, [asking[r] EXCEPT !.at = "failed"])
    /\ UNCHANGED <<clock, question, upstash>>

\* _persist_final, for what was reused as well.  That is returned at once.
PersistFinal(r) ==
    /\ Doing(r, "persist")
    /\ responses' = responses \cup
          {[asker |-> r, answer |-> asking[r].answer, at |-> clock, status |-> "completed"]}
    /\ Does(r, [asking[r] EXCEPT !.at = IF asking[r].hit = "none" THEN "store" ELSE "answered"])
    /\ UNCHANGED <<clock, question, upstash>>

\* Mutant: what has no search results is kept as well.
KeepsAll(answer) == answer.kind # "time"

\* What is written to Upstash.
Keeps(answer) == answer.kind \notin {"time", "degraded"}

\* A cache that cannot be written is left as it was.
StoreAnswer(r) ==
    /\ Doing(r, "store")
    /\ \/ UNCHANGED upstash
       \/ /\ Keeps(asking[r].answer)
          /\ upstash' = [answer |-> asking[r].answer,
                         until |-> clock + (IF asking[r].static THEN Week ELSE Hour)]
    /\ Does(r, [asking[r] EXCEPT !.at = "answered"])
    /\ UNCHANGED <<clock, question, responses>>

\* The time of the request is up, or it is cancelled, or a provider or the database
\* fails.  The response of a request that failed is marked or made.
FailQuery(r) ==
    /\ asking[r].at \notin {"idle", "answered", "failed"}
    /\ LET own == {row \in responses : row.asker = r}
           marked == IF own = {} THEN {[asker |-> r, answer |-> NoAnswer, at |-> clock, status |-> "failed"]}
                     ELSE {[row EXCEPT !.status = "failed"] : row \in own}
       IN responses' = (responses \ own) \cup marked
    /\ Does(r, [asking[r] EXCEPT !.at = "failed"])
    /\ UNCHANGED <<clock, question, upstash>>

Tick ==
    /\ clock < MaxTime
    /\ clock' = clock + 1
    /\ UNCHANGED <<question, upstash, responses, asking>>

PipelineNext ==
    \/ \E r \in Asker :
          \/ \E choice \in BOOLEAN : Ask(r, choice) \/ Route(r, choice)
          \/ LookUp(r) \/ RuleHit(r) \/ Search(r) \/ CallModel(r) \/ NoModel(r)
          \/ PersistFinal(r) \/ StoreAnswer(r) \/ FailQuery(r)
    \/ Tick

PipelineSpec == PipelineInit /\ [][PipelineNext]_pipelineVars

-----------------------------------------------------------------------------
Reply == [by : Asker \cup {"nobody"}, born : 0..MaxTime,
           kind : {"fixed", "answered", "degraded", "time", "failed"}, text : Text]

PipelineTypeOK ==
    /\ clock \in 0..MaxTime
    /\ question \in Question
    /\ upstash \in [answer : Reply, until : Nat]
    /\ responses \subseteq [asker : Asker, answer : Reply, at : 0..MaxTime, status : {"completed", "failed"}]
    /\ asking \in [Asker -> [at : {"idle", "lookup", "rules", "search", "model", "persist", "store",
                                   "answered", "failed"},
                             fresh : BOOLEAN, step : Nat, static : BOOLEAN, since : 0..MaxTime,
                             hit : {"none", "upstash", "rules"}, answer : Reply]]

\* The request that composed an answer recorded it.
Recorded(answer) == \E row \in responses : row.asker = answer.by /\ row.answer = answer

\* An answer that is true for later requests too.
Lasting(answer) == answer.kind \in {"fixed", "answered"}

\* The answer that was composed, before it went through Upstash.
Original(answer) == IF answer.text = "garbled" THEN [answer EXCEPT !.text = "accented"] ELSE answer

(***************************************************************************)
(* Whatever the other requests did in the meantime, a request is given     *)
(* from a cache only what another one composed as a real answer and        *)
(* recorded, and never if it asked for a fresh answer; what it is given    *)
(* reads as it was recorded, or, accented and from Upstash, garbled once:  *)
(* a garbled answer that is recorded again is never put into Upstash.      *)
(* Nothing reaches the shared cache before it is recorded.                 *)
(***************************************************************************)
ReusedIsSound ==
    /\ upstash # NoEntry =>
          Lasting(upstash.answer) /\ Recorded(upstash.answer) /\ upstash.answer.text # "garbled"
    /\ \A r \in Asker : asking[r].hit # "none" =>
          /\ ~asking[r].fresh
          /\ Lasting(asking[r].answer)
          /\ Recorded(Original(asking[r].answer))
          /\ asking[r].answer.by # r

(***************************************************************************)
(* An answer that the rule engine reuses is no older than an hour          *)
(* (rule_engine.py: "SQLite-based 1-hour query cache").  It does not hold: *)
(* the answer that is reused is recorded again, as a response of now.      *)
(***************************************************************************)
ReusedIsRecent ==
    \A r \in Asker :
        asking[r].hit = "rules" =>
            \E row \in responses : row.answer = asking[r].answer /\ row.asker = row.answer.by
                                   /\ asking[r].since <= row.at + Hour
=============================================================================
