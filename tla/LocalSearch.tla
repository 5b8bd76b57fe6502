---------------------------- MODULE LocalSearch ----------------------------
(***************************************************************************)
(* Searches of the threads of the server (_local_search, _provider_search), *)
(* and what the meta-learner (quality_gate.py) makes of their confidences:  *)
(* for each store the weight alpha of its semantic ranking, which decides   *)
(* how many keyword hits take part in its next hybrid search.               *)
(*                                                                          *)
(* A search takes several steps, for the query a hybrid search reranks with *)
(* is an attribute of the searcher, which all threads share: it is set      *)
(* before the semantic ranking, read by it, and cleared after it.  With a   *)
(* database behind the store every step that reads documents may fail.      *)
(*                                                                          *)
(* What a search has found it records, and after that asks the learner for  *)
(* a new alpha if its store is due for one: steps of their own, too, for    *)
(* the learner is shared like the searcher.                                 *)
(***************************************************************************)
EXTENDS Ranking, QueryRefinement

CONSTANTS
    StoreNames,   \* the stores searched
    Workloads,    \* name -> [asks, upto, threads, database]: what is asked, how often it
                  \* is answered at most, by whom, and whether a database may fail it
    AdaptEvery, Window, MinData   \* 100, 100 and 10 in quality_gate.py

ASSUME LearnerAssumption == AdaptEvery \in Nat \ {0} /\ Window \in Nat /\ MinData \in Nat

ASSUME VocabularyAssumption ==
    /\ \A t \in DOMAIN Corrections : Corrections[t] \in Terms
    /\ \A t \in DOMAIN Related : Related[t] \in Seq(Terms)

Threads == UNION {Workloads[w].threads : w \in DOMAIN Workloads}

Modes == {"keyword", "semantic", "hybrid", "multimodal"}

(* What is asked: the engine, the store with its documents and its atoms, the
   mode, the query after and before its refinement, and the two raw rankings. *)
Asks == [engine : {"local", "provider"}, store : StoreNames, docs : Seq(DOMAIN Text),
         atoms : Seq(DOMAIN Text), mode : Modes, query : Seq(Terms), original : Seq(Terms),
         raw : Seq(Nat), seen : Seq([doc : DOMAIN Text, score : Int])]

(* A store lists each of its rows once, and BM25 scores each of them. *)
ASSUME WorkloadsAssumption ==
    /\ IsFiniteSet(Threads)
    /\ \A w \in DOMAIN Workloads :
          /\ Workloads[w].upto \in Nat /\ Workloads[w].database \in BOOLEAN
          /\ \A ask \in Workloads[w].asks :
                /\ ask \in Asks
                /\ \A i, j \in DOMAIN All(ask) : All(ask)[i] = All(ask)[j] => i = j
                /\ Len(ask.raw) = Len(All(ask))

VARIABLES work,       \* the name of the workload
          run,        \* thread -> the search it is at
          active,     \* the query the semantic ranking uses
          abandoned,  \* the queries of the reranks that failed before they cleared it, since
                      \* one last did (not in the code: history)
          history,    \* store -> its recorded <<mode, confidence>>, the last Window of them
          total,      \* how many searches were recorded, in all stores
          alpha,      \* store -> the weight of the semantic ranking, in thousandths
          learns,     \* thread -> what it still does with the learner
          last        \* the answer to the last search

vars == <<work, run, active, abandoned, history, total, alpha, learns, last>>

-----------------------------------------------------------------------------
Recent(h) == SubSeq(h, Max({1, Len(h) - Window + 1}), Len(h))

Mean(h, mode, default) ==
    LET of == Picked(h, {i \in DOMAIN h : h[i][1] = mode})
    IN  IF of = <<>> THEN default ELSE Total([i \in DOMAIN of |-> of[i][2]]) \div Len(of)

SemanticMean(h, default) == Mean(h, "semantic", Mean(h, "hybrid", default))

(* Variant: the modes exchanged. *)
TargetSwapped(h, current) ==
    LET semantic == SemanticMean(h, 10 * current)
        keyword == Mean(h, "keyword", 10 * current)
    IN  IF keyword > semantic + 500 THEN Min({800, current + 100})
        ELSE IF semantic > keyword + 500 THEN Max({200, current - 100})
        ELSE current

(* A mode without searches counts as if alpha were its confidence. *)
Target(h, current) ==
    LET semantic == SemanticMean(h, 10 * current)
        keyword == Mean(h, "keyword", 10 * current)
    IN  IF semantic > keyword + 500 THEN Min({800, current + 100})
        ELSE IF keyword > semantic + 500 THEN Max({200, current - 100})
        ELSE current

RecommendedAlpha(h, current) ==
    IF Len(h) < MinData THEN current ELSE (7 * current + 3 * Target(h, current) + 5) \div 10

(* What a thread does with the learner after a search: nothing, or it has
   recorded the search, or it is about to adapt the alpha it has read. *)
Done == [step |-> "none", store |-> "", current |-> 0]

(* record: one step, though another thread may see the entry before the count. *)
Record(t, result) ==
    LET store == result.ask.store
    IN  /\ history' = [history EXCEPT
                         ![store] = Recent(Append(@, <<result.ask.mode, result.confidence>>))]
        /\ total' = total + 1
        /\ learns' = [learns EXCEPT ![t] = [step |-> "recorded", store |-> store, current |-> 0]]

Idle == [stage |-> "idle", ask |-> NoAsk, note |-> NoNote, backstop |-> <<>>, rankings |-> Unranked,
         ranked |-> [fused |-> <<>>, confidence |-> 0, docs |-> <<>>]]

(* Only what is found in documents, and not by a provider, is recorded. *)
Recorded(ask) == ask.engine = "local" /\ ask.docs # <<>>

Conclude(t, result) ==
    /\ last' = result
    /\ run' = [run EXCEPT ![t] = Idle]
    /\ IF Recorded(last'.ask) THEN Record(t, last') ELSE UNCHANGED <<history, total, learns>>
    /\ UNCHANGED <<work, active, abandoned, alpha>>

Goes(t, search) ==
    /\ run' = [run EXCEPT ![t] = search]
    /\ UNCHANGED <<work, history, total, alpha, learns, last>>

(* A search starts by looking for a note the query names; the backstop it may
   need depends on nothing that changes, and is found here too.  Answers that
   are not recorded leave nothing to the next search: one of them is enough. *)
Running == Cardinality({t \in Threads : run[t] # Idle})

(* search: what is searched for is the refined query. *)
Refined(ask) == [ask EXCEPT !.query = Refine(ask.original)]

(* Variant: the note is looked for by the refined query, too. *)
NamedByRefined(ask) == ExactNote(ask.docs, Refined(ask).query, MaxSources)

(* A note is named by the query as it was typed: the terms that refinement
   adds would dilute its title. *)
Named(ask) == ExactNote(ask.docs, ask.original, MaxSources)

Begin(t, ask) ==
    /\ run[t] = Idle /\ learns[t] = Done
    /\ total + Running < Workloads[work].upto
    /\ ~Recorded(ask) => last.ask = NoAsk
    /\ Goes(t, [Idle EXCEPT !.stage = "noted", !.ask = Refined(ask), !.note = Named(ask),
                            !.backstop = Backstop(Refined(ask), Refined(ask).query)])
    /\ UNCHANGED <<active, abandoned>>

(* What comes after the note: the note itself, the rerank, or the match. *)
NoteAnswers(r) == Recorded(r.ask) /\ r.ask.mode = "semantic" /\ r.note.docs # <<>>

Reranks(r) == Recorded(r.ask) /\ r.ask.mode = "hybrid" /\ r.ask.seen # <<>>

(* A store without documents is not searched. *)
AnswerNothing(t) ==
    LET r == run[t]
    IN  /\ r.stage = "noted" /\ r.ask.engine = "local" /\ r.ask.docs = <<>>
        /\ Conclude(t, Result(r.ask, <<>>, 0, FALSE, FALSE, Unranked))

AnswerNote(t) ==
    LET r == run[t]
    IN  /\ r.stage = "noted" /\ NoteAnswers(r)
        /\ Conclude(t, Result(r.ask, r.note.docs, r.note.confidence, TRUE, FALSE, Unranked))

(* _run_hybrid_rerank in three steps. *)
RankKeyword(t) ==
    LET r == run[t]
    IN  /\ r.stage = "noted" /\ Reranks(r)
        /\ active' = r.ask.query
        /\ Goes(t, [r EXCEPT !.stage = "keyword", !.rankings.keyword =
                               KeywordRanked(r.ask, r.ask.query, KeywordPool(alpha[r.ask.store]))])
        /\ UNCHANGED abandoned

RankSemantic(t) ==
    LET r == run[t]
    IN  /\ r.stage = "keyword"
        /\ Goes(t, [r EXCEPT !.stage = "semantic", !.rankings.semantic = SemanticRanked(r.ask, active)])
        /\ UNCHANGED <<active, abandoned>>

(* Variant: nothing found, an early return. *)
FuseEmptyHanded(t) ==
    LET r == run[t]
    IN  /\ r.stage = "semantic"
        /\ Goes(t, [r EXCEPT !.stage = "fused",
                             !.ranked = Rerank(r.ask, r.rankings.keyword, r.rankings.semantic)])
        /\ active' = IF run'[t].ranked.docs = <<>> THEN active ELSE <<>>
        /\ abandoned' = {}

Fuse(t) ==
    LET r == run[t]
    IN  /\ r.stage = "semantic"
        /\ active' = <<>> /\ abandoned' = {}
        /\ Goes(t, [r EXCEPT !.stage = "fused",
                             !.ranked = Rerank(r.ask, r.rankings.keyword, r.rankings.semantic)])

(* The database fails a step that reads documents: the search is over and
   nothing is recorded.  What it set it clears only when the semantic ranking
   was done. *)
CutShort(t) ==
    LET r == run[t]
    IN  /\ Workloads[work].database /\ r # Idle
        /\ Goes(t, Idle)
        /\ active' = IF r.stage = "semantic" THEN <<>> ELSE active
        /\ abandoned' = IF r.stage = "semantic" THEN {}
                        ELSE abandoned \cup {q \in {r.ask.query} : r.stage = "keyword"}

AnswerHybrid(t) ==
    LET r == run[t]
    IN  /\ r.stage = "fused" /\ HybridDocs(r.note, r.ranked) # <<>>
        /\ Conclude(t, HybridAnswer(r.ask, r.note, r.backstop, r.ranked, r.rankings))

AnswerMatch(t) ==
    LET r == run[t]
    IN  /\ \/ r.stage = "noted" /\ Recorded(r.ask) /\ ~NoteAnswers(r) /\ ~Reranks(r)
           \/ r.stage = "fused" /\ HybridDocs(r.note, r.ranked) = <<>>
        /\ Conclude(t, KeywordAnswer(r.ask, r.note, r.backstop, active))

AnswerByProvider(t) ==
    LET r == run[t]
    IN  /\ r.stage = "noted" /\ r.ask.engine = "provider"
        /\ Conclude(t, ProviderAnswer(r.ask, r.note, r.backstop, active))

(* _run_meta_adapt: whatever the store, the search that completes a round has
   its own store adapted, if no other search was recorded meanwhile. *)
Consider(t) ==
    /\ learns[t].step = "recorded"
    /\ learns' = [learns EXCEPT ![t] =
                    IF total % AdaptEvery = 0
                    THEN [@ EXCEPT !.step = "adapting", !.current = alpha[learns[t].store]]
                    ELSE Done]
    /\ UNCHANGED <<work, run, active, abandoned, history, total, alpha, last>>

(* What is recommended for the alpha that was read replaces the one there is now. *)
Adapt(t) ==
    LET store == learns[t].store
        current == learns[t].current
        new == RecommendedAlpha(history[store], current)
    IN  /\ learns[t].step = "adapting"
        /\ alpha' = IF new = current THEN alpha ELSE [alpha EXCEPT ![store] = new]
        /\ learns' = [learns EXCEPT ![t] = Done]
        /\ UNCHANGED <<work, run, active, abandoned, history, total, last>>

Init ==
    /\ work \in DOMAIN Workloads
    /\ run = [t \in Threads |-> Idle]
    /\ active = <<>> /\ abandoned = {}
    /\ history = [s \in StoreNames |-> <<>>]
    /\ total = 0
    /\ alpha = [s \in StoreNames |-> 500]
    /\ learns = [t \in Threads |-> Done]
    /\ last = Result(NoAsk, <<>>, 0, FALSE, FALSE, Unranked)

Next ==
    \E t \in Workloads[work].threads :
        \/ \E ask \in Workloads[work].asks : Begin(t, ask)
        \/ AnswerNothing(t) \/ AnswerNote(t)
        \/ RankKeyword(t) \/ RankSemantic(t) \/ Fuse(t) \/ CutShort(t)
        \/ AnswerHybrid(t) \/ AnswerMatch(t) \/ AnswerByProvider(t)
        \/ Consider(t) \/ Adapt(t)

Spec == Init /\ [][Next]_vars

-----------------------------------------------------------------------------
(* What a search names: rows of its own store, none of them twice, no more than
   max_sources, and a confidence between 0 and 1; whatever the grid returned
   (other stores' documents, a document under two glyphs) and however the
   answer was pieced together (fusion, backstop, added keyword matches).  So a
   file is listed again only if the store has a second row of it. *)
SourcesAreTheStoresOwn ==
    /\ Len(last.sources) <= MaxSources
    /\ \A i \in DOMAIN last.sources :
          /\ Resolves(last.ask, last.sources[i])
          /\ \A j \in DOMAIN last.sources : last.sources[i] = last.sources[j] => i = j
    /\ last.confidence \in 0..10000

(* The type invariant of the learner: alpha stays in the range in which both
   rankings take part, after any sequence of searches. *)
TypeOK ==
    /\ work \in DOMAIN Workloads
    /\ \A s \in StoreNames : alpha[s] \in 200..800 /\ Len(history[s]) <= Window
    /\ total \in 0..Workloads[work].upto

(* The query that semantic hits are ranked with is that of a rerank under way
   or of one that a failing database cut short, and of these only since a rerank
   last went through: however the searches of the threads interleave and
   fail, the query of a rerank that is over ranks for no later search
   (_active_query_for_semantic_rerank). *)
Reranking(t) == run[t].stage \in {"keyword", "semantic"}

OnlyCutReranksLeaveTheirQuery ==
    /\ active \in {<<>>} \cup {run[t].ask.query : t \in {u \in Threads : Reranking(u)}} \cup abandoned
    /\ abandoned # {} => Workloads[work].database

(* The better a document does in both rankings the better in the fused one:
   one that is ahead of another in both is ahead of it there too, unless the
   other is ranked twice (under two glyphs, or for two rows of one file), for
   then its places add up (reciprocal_rank_fusion and the two clusterings
   around it). *)
Ahead(ranked, d, e) ==
    \E i, j \in DOMAIN ranked : i < j /\ ranked[i].doc = d /\ ranked[j].doc = e

Once(ranked, d) == Cardinality({i \in DOMAIN ranked : ranked[i].doc = d}) = 1

FusionKeepsAgreement ==
    LET r == last.ranked
        all == Range(Docs(r.fused))
    IN  \A d, e \in all :
            /\ Once(r.keyword, e) /\ Once(r.semantic, e)
            /\ Ahead(r.keyword, d, e) /\ Ahead(r.semantic, d, e)
            => Ahead(r.fused, d, e)

(* Two rankings that share no document never make a confident answer: unless
   a note is named by the query, the result is flagged as low confidence
   (compute_search_confidence, SearchQualityGate). *)
DisagreementIsFlagged ==
    /\ last.ask.mode = "hybrid" /\ last.ranked # Unranked /\ ~last.noted
    /\ Bases(last.ranked.keyword) \cap Bases(last.ranked.semantic) = {}
    /\ last.ranked.keyword # <<>> \/ last.ranked.semantic # <<>>
    => last.low

(* The fused ranking takes agreement and disagreement of its two for what
   they are. *)
FusionIsSound == TypeOK /\ FusionKeepsAgreement /\ DisagreementIsFlagged

(* A query of four letters or more that is the title of a note finds that note:
   in the semantic mode and with a provider the first source is a file so
   titled, whatever the vectors say (_exact_note_resolution before everything
   else). *)
Titled(d, query) == \E i \in DOMAIN Text[d].names : Distinct(Text[d].names[i]) = Distinct(query)

TitledNoteLeads ==
    /\ last.ask.mode # "none" /\ ~Short(last.ask.original)
    /\ last.ask.engine = "provider" \/ last.ask.mode = "semantic"
    /\ \E d \in Range(last.ask.docs) : Titled(d, last.ask.original)
    => /\ last.sources # <<>>
       /\ \E d \in Range(All(last.ask)) :
             SameUri(d, last.sources[1]) /\ Titled(d, last.ask.original)

(* Adaptation follows the evidence of the store itself: the semantic ranking
   gains weight in a store only when its own recent semantic or hybrid
   searches were surer than its keyword searches, and loses it only in the
   opposite case (SearchMetaLearner.recommend_alpha).  Weight is gained and lost
   against the alpha the search has read, which is the store's while one
   thread searches; two that adapt at once may undo each other's step. *)
Follows(h, from, to) ==
    LET modes == {h[i][1] : i \in DOMAIN h}
        semantic == SemanticMean(h, 0)
        keyword == Mean(h, "keyword", 0)
    IN  "keyword" \in modes /\ modes \cap {"semantic", "hybrid"} # {} =>
            /\ to > from => semantic > keyword
            /\ to < from => semantic < keyword

Adapting(t, s) == learns[t].step = "adapting" /\ learns[t].store = s

Alone(t) == \A u \in Workloads[work].threads : u = t

AlphaFollowsEvidence ==
    [][\A s \in StoreNames :
         alpha'[s] # alpha[s] =>
            \E t \in Workloads[work].threads :
               /\ Adapting(t, s) /\ Follows(history'[s], learns[t].current, alpha'[s])
               /\ Alone(t) => learns[t].current = alpha[s]]_vars
=============================================================================
