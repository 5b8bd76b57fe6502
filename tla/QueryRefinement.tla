--------------------------- MODULE QueryRefinement ---------------------------
(***************************************************************************)
(* How a query is refined before it is searched for: stop words dropped    *)
(* and typing errors corrected (intent_refiner.py), related terms appended *)
(* (query_expansion.py, a deployment's option).                            *)
(*                                                                         *)
(* A query is a sequence of terms, in English and without file types and   *)
(* filters; a key of the synonym map is a single term.                     *)
(***************************************************************************)
EXTENDS Lists, FiniteSetsExt, SequencesExt

CONSTANTS
    StopWords,    \* terms that are no keywords
    Corrections,  \* mistyped term -> term
    Related,      \* term -> terms that mean the same, empty without a map
    MaxExtra      \* how many of those a query gains at most

ASSUME RefinementAssumption ==
    /\ \A t \in DOMAIN Related : Related[t] # <<>>
    /\ MaxExtra \in Nat

Correct(term) == IF term \in DOMAIN Corrections THEN Corrections[term] ELSE term

Keywords(query) ==
    LET kept == Picked(query, {i \in DOMAIN query : query[i] \notin StopWords})
    IN  [i \in DOMAIN kept |-> Correct(kept[i])]

Synonyms(term) == IF term \in DOMAIN Related THEN Related[term] ELSE <<>>

(* expand: each new term once, in the order of the keywords. *)
Expansion(keywords) ==
    LET all == FlattenSeq([i \in DOMAIN keywords |-> Synonyms(keywords[i])])
        new == Picked(all, {i \in DOMAIN all : /\ all[i] \notin Range(keywords)
                                               /\ \A j \in 1..(i - 1) : all[j] # all[i]})
    IN  SubSeq(new, 1, Min({MaxExtra, Len(new)}))

Refine(query) == Keywords(query) \o Expansion(Keywords(query))
=============================================================================
