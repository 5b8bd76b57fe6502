----------------------------- MODULE MCLocalSearch -----------------------------
(* Model values for LocalSearch: three notes, a chunk of one of them, a second
   row of one of them and a document of another store; queries that name a note,
   a word of several, a word that starts another, and two words; a word with
   synonyms, a stop word, a mistyped one, and one too short to name a note. *)
EXTENDS LocalSearch

MCTerms == {"plan", "plans", "note", "road", "docs", "path", "raod", "from", "api"}
MCStartsWith == {<<t, t>> : t \in MCTerms} \cup {<<"plans", "plan">>}
MCCorrections == [raod |-> "road"]
MCRelated == [path |-> <<"road", "path", "note", "plan">>]
MCLetters == [t \in MCTerms |-> IF t = "plans" THEN 5 ELSE IF t = "api" THEN 3 ELSE 4]

Note(uri, names, headings, body, folder, external) ==
    [uri |-> uri, base |-> uri, cluster |-> uri, names |-> names, headings |-> headings,
     tags |-> <<>>, links |-> <<>>, body |-> body, folder |-> folder, external |-> external,
     note |-> TRUE]

Plan == Note("u1", << <<"plan", "docs">>, <<"plan">>, <<"path">> >>, <<>>, <<"note", "road">>, <<>>, FALSE)
NotePlan == Note("u2", << <<"note", "plans", "docs">>, <<"note", "plans">>, <<"road", "note">> >>,
                 <<"plan", "note">>, <<"plans", "note">>, <<"road">>, FALSE)
Paper == Note("u3", << <<"road", "docs">>, <<"road">>, <<"api">> >>, <<>>, <<"road", "api">>, <<"plan">>, TRUE)
Chunk == [NotePlan EXCEPT !.uri = "u2#c1", !.names = << <<"note", "plans", "docs">> >>, !.body = <<"plans">>]
Rewritten == [NotePlan EXCEPT !.names[3] = <<"path", "note">>, !.headings = <<>>, !.body = <<"plan">>]
Foreign == Note("u9", << <<"plan">> >>, <<>>, <<"plan">>, <<>>, FALSE)

MCQueries == {<<"plan">>, <<"note", "plan">>, <<"plans">>, <<"docs", "docs">>,
              <<"plan", "road">>, <<"path">>, <<"raod", "from", "note">>, <<"from">>, <<"api">>}

MCText == [u1 |-> Plan, u2 |-> NotePlan, u2a |-> Chunk, u2b |-> Rewritten, u3 |-> Paper, u9 |-> Foreign]

Hit(doc, score) == [doc |-> doc, score |-> score]

MCSeen == {<<>>, <<Hit("u2", 90), Hit("u2a", 80), Hit("u2a", 80), Hit("u1", 10)>>,
           <<Hit("u9", 90), Hit("u1", 80)>>, <<Hit("u3", 50), Hit("u2", 40)>>,
           <<Hit("u9", 90)>>}

MCRaw == {<<1, 1, 1, 1>>, <<9, 0, 0, 3>>, <<3, 0, 9, 1>>}

Ask(engine, store, docs, mode, query, raw, seen) ==
    [engine |-> engine, store |-> store, docs |-> docs, atoms |-> <<"u2a">>, mode |-> mode,
     query |-> <<>>, original |-> query, raw |-> raw, seen |-> seen]

AllDocs == <<"u2", "u1", "u3">>

(* The store of a file that was uploaded twice. *)
TwoRows == <<"u2", "u1", "u2b">>

Stored == {AllDocs, TwoRows}

(* What of an ask a mode does not read is fixed. *)
KeywordAsks ==
    {Ask("local", "a", d, "keyword", q, r, <<>>) : d \in Stored, q \in MCQueries, r \in MCRaw}

SemanticAsks(engine, modes) ==
    {Ask(engine, "a", d, m, q, <<0, 0, 0, 0>>, s) :
        d \in Stored, m \in modes, q \in MCQueries \cup {<<"path", "note">>}, s \in MCSeen}

HybridAsks ==
    {Ask("local", "a", d, "hybrid", q, r, s) :
        d \in Stored, q \in MCQueries, r \in MCRaw, s \in MCSeen}
        \cup {Ask("local", "a", AllDocs, "hybrid", <<"path">>, <<0, 0, 0, 0>>, <<Hit("u9", 90)>>)}

(* A store without documents, whose chunks are still there. *)
EmptyAsks ==
    {Ask(e, "a", <<>>, m, <<"plan">>, <<3>>, <<Hit("u2a", 80)>>) :
        e \in {"local", "provider"}, m \in {"keyword", "semantic", "hybrid"}}

(* Small searches, to have many of them. *)
Lesson(store, mode, query, seen) == Ask("local", store, <<"u3", "u2">>, mode, query, <<1, 1, 1>>, seen)

Sure(store) == Lesson(store, "keyword", <<"plans">>, <<>>)
Unsure(store) == Lesson(store, "semantic", <<"docs", "docs">>, <<>>)

Lessons == UNION {{Sure(s), Unsure(s), Lesson(s, "semantic", <<"plan">>, <<>>)} : s \in StoreNames}

Reranked == {Lesson("a", "hybrid", q, s) :
                q \in {<<"note", "plan">>, <<"plan", "road">>, <<"docs", "docs">>},
                s \in {<<Hit("u9", 90), Hit("u2", 80)>>, <<Hit("u3", 50), Hit("u2", 40)>>}}

Reader == Lesson("a", "semantic", <<"docs", "docs">>, <<Hit("u3", 50), Hit("u2", 40)>>)

Workload(asks, upto, threads, database) ==
    [asks |-> asks, upto |-> upto, threads |-> threads, database |-> database]

WorkloadOf ==
    [modes    |-> Workload(KeywordAsks \cup SemanticAsks("local", {"semantic", "multimodal"})
                             \cup HybridAsks \cup EmptyAsks, 1, {"t1"}, FALSE),
     provider |-> Workload(SemanticAsks("provider", {"semantic"}), 1, {"t1"}, FALSE),
     lessons  |-> Workload(Lessons, 4, {"t1"}, FALSE),
     drift    |-> Workload({Sure("a"), Unsure("a")}, 24, {"t1"}, FALSE),
     learners |-> Workload({Sure("a"), Unsure("a")}, 6, {"t1", "t2"}, FALSE),
     threads  |-> Workload(Reranked \cup {Reader}, 2, {"t1", "t2"}, TRUE)]

(* A function, which TLC evaluates once, and not a record, which it does not. *)
MCWorkloads == [w \in DOMAIN WorkloadOf |-> WorkloadOf[w]]
=============================================================================
