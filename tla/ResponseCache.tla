--------------------------- MODULE ResponseCache ---------------------------
(***************************************************************************)
(* The LLM adapter (internal/llm/adapter.go) and its response cache        *)
(* (internal/llm/cache.go): a prompt is embedded, the cached response to   *)
(* the most similar prompt is returned when it is similar enough, and      *)
(* otherwise the model is asked and its response stored.  The four steps   *)
(* are apart: calls run concurrently, in one process or in several that    *)
(* share the cache file.  Each may fail; the adapter's timeout is one of   *)
(* the ways a step fails.                                                  *)
(***************************************************************************)
EXTENDS Integers, Sequences, SequencesExt

CONSTANTS
    Caller, Prompt,
    LanguageModel,    \* the models adapters are configured with
    Similarity(_, _), \* cosineSimilarity of two prompts' embeddings, in hundredths
    NoReply

ASSUME SimilarityOfPrompts ==
    \A p, q \in Prompt :
        /\ Similarity(p, q) \in -100 .. 100
        /\ Similarity(p, p) = 100 /\ Similarity(p, q) = Similarity(q, p)

VARIABLES
    call,  \* call[c]: the call of Generate
    cache  \* the rows of llm_cache, in the order of their rowids

cacheVars == <<call, cache>>

Threshold == 95
Reply == [to : Prompt, by : LanguageModel]
Entry == [key : Prompt, response : Reply]
CallState ==
    [pc : {"idle", "embed", "lookup", "chat", "store", "done"},
     prompt : Prompt, model : LanguageModel, reply : Reply \cup {NoReply},
     known : BOOLEAN, \* history: the prompt was in the cache when the call began
     blind : BOOLEAN] \* history: the lookup failed

CacheInit ==
    /\ cache = <<>>
    /\ \E p \in Prompt, m \in LanguageModel :
        call = [c \in Caller |-> [pc |-> "idle", prompt |-> p, model |-> m, reply |-> NoReply,
                                  known |-> FALSE, blind |-> FALSE]]

Stored(p) == \E i \in DOMAIN cache : cache[i].key = p
Becomes(c, state) == call' = [call EXCEPT ![c] = state]
Step(c, from, to) == call[c].pc = from /\ Becomes(c, [call[c] EXCEPT !.pc = to])
Returns(c, reply) == Becomes(c, [call[c] EXCEPT !.pc = "done", !.reply = reply])

Generate(c) ==
    /\ call[c].pc \in {"idle", "done"}
    /\ \E p \in Prompt, m \in LanguageModel :
        Becomes(c, [pc |-> "embed", prompt |-> p, model |-> m, reply |-> NoReply,
                    known |-> Stored(p), blind |-> FALSE])
    /\ UNCHANGED cache

\* An error of the embedding is the call's.
Embed(c) ==
    /\ call[c].pc = "embed"
    /\ Step(c, "embed", "lookup") \/ Returns(c, NoReply)
    /\ UNCHANGED cache

\* Set: INSERT OR REPLACE, which takes away the row with the key, if there is
\* one (key is the primary key), and adds a new one.
Replaced(key, response) ==
    LET new == [key |-> key, response |-> response]
        old == CHOOSE i \in DOMAIN cache : cache[i].key = key
    IN  Append(IF Stored(key) THEN RemoveAt(cache, old) ELSE cache, new)

\* The first of the rows most similar to p, if it is similar enough: one row
\* or none.
Nearest(p) ==
    {i \in DOMAIN cache :
        /\ Similarity(p, cache[i].key) >= Threshold
        /\ \A k \in DOMAIN cache :
            \/ Similarity(p, cache[k].key) < Similarity(p, cache[i].key)
            \/ Similarity(p, cache[k].key) = Similarity(p, cache[i].key) /\ i <= k}

\* A bug: a response found for a similar prompt is stored under this one.
FindSimilarAndStore(c) ==
    /\ call[c].pc = "lookup"
    /\ \/ /\ Becomes(c, [call[c] EXCEPT !.pc = "chat", !.blind = TRUE]) /\ UNCHANGED cache
       \/ /\ Nearest(call[c].prompt) = {} /\ Step(c, "lookup", "chat") /\ UNCHANGED cache
       \/ \E i \in Nearest(call[c].prompt) :
            /\ Returns(c, cache[i].response)
            /\ cache' = Replaced(call[c].prompt, cache[i].response)

\* The lookup: an error is logged and the model asked.
FindSimilar(c) ==
    /\ call[c].pc = "lookup"
    /\ \/ Becomes(c, [call[c] EXCEPT !.pc = "chat", !.blind = TRUE])
       \/ Nearest(call[c].prompt) = {} /\ Step(c, "lookup", "chat")
       \/ \E i \in Nearest(call[c].prompt) : Returns(c, cache[i].response)
    /\ UNCHANGED cache

\* A bug: an empty response is stored when the model fails.
ChatUnchecked(c) ==
    /\ call[c].pc = "chat"
    /\ \/ Step(c, "chat", "store")
       \/ Becomes(c, [call[c] EXCEPT !.pc = "store",
                !.reply = [to |-> call[c].prompt, by |-> call[c].model]])
    /\ UNCHANGED cache

Chat(c) ==
    /\ call[c].pc = "chat"
    /\ \/ Returns(c, NoReply)
       \/ Becomes(c, [call[c] EXCEPT !.pc = "store",
                !.reply = [to |-> call[c].prompt, by |-> call[c].model]])
    /\ UNCHANGED cache

\* A bug: the row is keyed by the model.
SetByModel(c) ==
    /\ call[c].pc = "store"
    /\ Returns(c, call[c].reply)
    /\ cache' = Append(SelectSeq(cache, LAMBDA e : e.response.by # call[c].model),
                       [key |-> call[c].prompt, response |-> call[c].reply])

\* A failure to store is logged and the response returned all the same.
Set(c) ==
    /\ call[c].pc = "store"
    /\ Returns(c, call[c].reply)
    /\ cache' \in {cache, Replaced(call[c].prompt, call[c].reply)}

CacheNext ==
    \E c \in Caller : Generate(c) \/ Embed(c) \/ FindSimilar(c) \/ Chat(c) \/ Set(c)

-----------------------------------------------------------------------------
CacheTypeOK == call \in [Caller -> CallState] /\ Range(cache) \subseteq Entry

\* A response is the model's to a prompt that is itself similar enough to the
\* one asked: similarity is not transitive, and a chain of cached responses
\* must not lead from one prompt to another one step at a time.
AnswersFit ==
    \A c \in Caller : call[c].reply # NoReply =>
        Similarity(call[c].reply.to, call[c].prompt) >= Threshold

\* The model is not paid again for a prompt that was in the cache when the
\* call began, whatever other calls store meanwhile, unless the lookup fails.
KnownPromptsNotAsked ==
    \A c \in Caller : call[c].pc \in {"chat", "store"} /\ call[c].known => call[c].blind

\* The cache serves what it holds: to whom it fits, and without a new call.
HitsServe == AnswersFit /\ KnownPromptsNotAsked
=============================================================================
