------------------------------ MODULE MCIndexing ------------------------------
(* Instances of Indexing for TLC: one thread that uploads a note of any small
   shape, with and without windows, and threads that share the provider. *)
EXTENDS Indexing

CONSTANTS t1, t2

H(level) == [kind |-> "heading", level |-> level]
P(sentences) == [kind |-> "paragraph", sentences |-> sentences]

Blocks == {H(l) : l \in 1..3} \cup {P(s) : s \in {<<1>>, <<2, 1>>, <<1, 1, 1, 1>>, <<5, 1>>}}

Short == UNION {[1..n -> Blocks] : n \in 1..3}
Long == [1..4 -> {H(1), P(<<1>>), P(<<2, 1>>), P(<<1, 1, 1, 1>>)}]
Sectioned == {<<H(i), P(<<2>>), H(j), P(<<2, 2>>), H(k), P(<<1>>)>> : i \in 1..3, j \in 1..3, k \in 1..3}

MCWords == {<<i>> : i \in 1..6} \cup ((1..6) \X (1..4) \X (1..5))

Conf(size, overlap) ==
    [max |-> 4, min |-> 3, size |-> size, overlap |-> overlap, window |-> 1, context |-> 4]

Upload(kind, name, doc) == [kind |-> kind, name |-> name, doc |-> doc]
Query(doc) == Upload("query", "q", doc)
Blank(doc) == Upload("blank", "q", doc)

Setup(first, second, server, conf) ==
    [tasks |-> [t \in Threads |-> IF t = t1 THEN first ELSE second], server |-> server, limits |-> conf]

Notes(docs, conf) == {Setup(<<Upload("note", "n", doc)>>, <<>>, FALSE, conf) : doc \in docs}

File == <<P(<<5>>)>>
Other == <<H(1), P(<<4>>)>>

MCSetups ==
    Notes(Short \cup Long, Conf(3, 0)) \cup Notes(Sectioned, Conf(3, 1)) \cup Notes(Sectioned, Conf(0, 1))
    \cup {Setup(<<Upload("file", "f", File), Query(Other), Query(File)>>, <<>>, server, Conf(3, 0)) :
            server \in BOOLEAN}
    \cup {Setup(<<Upload("file", "f", Other), Blank(Other)>>, <<>>, server, Conf(3, 0)) : server \in BOOLEAN}
    \cup {Setup(<<Upload("file", "f", File)>>, <<Upload("file", "g", Other)>>, FALSE, Conf(3, 0)),
          Setup(<<Upload("file", "f", File)>>, <<Query(Other)>>, TRUE, Conf(3, 0))}

Outage == {Setup(<<Upload("file", "f", File), Query(Other), Query(File)>>, <<>>, TRUE, Conf(3, 0))}
===============================================================================
