----------------------------- MODULE Similarity -----------------------------
(***************************************************************************)
(* The semantic scorer, oracle/pkg/similarity/semantic.go, as the leader   *)
(* uses it in handleConsensusResult (oracle/pkg/node/oracle_node.go:182-   *)
(* 199): the responses of a request are clustered by the cosine of their   *)
(* embeddings. The responses come from a loop over a map, in any order,    *)
(* and each response that is not in a cluster yet starts one and takes all *)
(* that are similar to it; which cluster a response ends up in may depend  *)
(* on that order, and the properties say when it does not.                 *)
(*                                                                         *)
(* Abstractions. An embedding (external) is any of a few integer vectors.  *)
(* A score is in hundredths and rounded towards zero, so that a score is   *)
(* at least the threshold where the cosine is; averages are compared as    *)
(* totals, being compared only between clusters of one size. The error of  *)
(* float32 is left out.                                                    *)
(***************************************************************************)
EXTENDS Integers, Sequences, FiniteSets, Functions, FiniteSetsExt, SequencesExt

CONSTANTS
  Nodes,      \* the nodes whose responses the request may have
  Vectors,    \* embeddings, sequences of integers
  Threshold,  \* 85 in the code
  None

ASSUME SimilarityAssumption ==
  /\ IsFiniteSet(Nodes) /\ None \notin Nodes
  /\ Vectors \subseteq Seq(Int)
  /\ Threshold \in 1..100

VARIABLES
  responses,  \* the nodes that have one
  embedding,  \* of the responses that it is known of
  left,       \* responses that are in no cluster yet: not used
  clusters,   \* in the order of the slice
  phase       \* of ClusterResponses

vars == <<responses, embedding, left, clusters, phase>>

-----------------------------------------------------------------------------
(* CosineSimilarity. *)

Dot(a, b) == FoldFunction(+, 0, [i \in DOMAIN a |-> a[i] * b[i]])
Norm(a)   == Dot(a, a)

\* dot / sqrt(square) in hundredths.
Quotient(dot, square) ==
  LET size == Max({s \in 0..100 : s * s * square <= 10000 * dot * dot})
  IN  IF dot < 0 THEN - size ELSE size

\* Mutant of CosineSimilarity: a vector of zeros is divided by.
CosineByZero(a, b) ==
  IF Len(a) # Len(b) THEN 0 ELSE Quotient(Dot(a, b), Norm(a) * Norm(b))

\* Vectors of different lengths and vectors of zeros are similar to nothing.
CosineSimilarity(a, b) ==
  IF Len(a) # Len(b) \/ Norm(a) = 0 \/ Norm(b) = 0
    THEN 0
    ELSE Quotient(Dot(a, b), Norm(a) * Norm(b))

\* The scores of all pairs, calculated once.
Score == [p \in Vectors \X Vectors |-> CosineSimilarity(p[1], p[2])]

Similarity(r, s) == Score[embedding[r], embedding[s]]
Similar(r, s)    == Similarity(r, s) >= Threshold

-----------------------------------------------------------------------------
(* ClusterResponses. *)

Init ==
  /\ responses \in SUBSET Nodes
  /\ embedding = [r \in {} |-> <<>>]
  /\ left = responses
  /\ clusters = <<>>
  /\ phase = IF responses = {} THEN "failed" ELSE "embedding"

\* Mutant of Embedded: clusters are started before the last embedding.
EmbeddedAlmost(known) == Cardinality(known) >= Cardinality(responses) - 1

Embedded(known) == known = responses

\* One call of the embedding service; an error ends it all.
GetEmbedding(r) ==
  /\ phase = "embedding"
  /\ r \notin DOMAIN embedding
  /\ \/ \E v \in Vectors :
          /\ embedding' = [s \in DOMAIN embedding \cup {r} |->
                             IF s = r THEN v ELSE embedding[s]]
          /\ phase' = IF Embedded(DOMAIN embedding') THEN "clustering" ELSE phase
     \/ phase' = "failed" /\ UNCHANGED embedding
  /\ UNCHANGED <<responses, left, clusters>>

\* Mutant of Members: responses in other clusters are taken as well.
MembersUsed(r) == {r} \cup {s \in responses : Similar(r, s)}

\* Mutant of Members: the loop ends at a response that is not similar.
MembersBreak(r) ==
  IF \A s \in left \ {r} : Similar(r, s) THEN left ELSE {r}

\* Whoever starts a cluster is in it, also where its embedding is of zeros.
Members(r) == {r} \cup {s \in left : Similar(r, s)}

\* r is the next in the loop that is not used.
StartCluster(r) ==
  /\ phase = "clustering"
  /\ clusters' = Append(clusters, [representative |-> r, members |-> Members(r)])
  /\ left' = left \ Members(r)
  /\ phase' = IF left' = {} THEN "sorting" ELSE phase
  /\ UNCHANGED <<responses, embedding>>

Size(c)  == Cardinality(c.members)
Pairs(c) == {p \in SUBSET c.members : Cardinality(p) = 2}

\* The average of two clusters of one size compares as this does. That of a
\* cluster of one response is 1, and so is that of any other such cluster.
Total(c) ==
  MapThenSumSet(LAMBDA p : LET r == CHOOSE x \in p : TRUE
                               s == CHOOSE x \in p : x # r
                           IN  Similarity(r, s),
                Pairs(c))

\* Mutant of Ahead: the average alone decides.
AheadByScore(c, d) ==
  LET Average(e) ==
        IF Size(e) = 1 THEN 100 ELSE Total(e) \div Cardinality(Pairs(e))
  IN  Average(c) > Average(d)

Ahead(c, d) ==
  \/ Size(c) > Size(d)
  \/ Size(c) = Size(d) /\ Total(c) > Total(d)

\* sort.Slice is not stable: clusters that are level may change places.
SortClusters ==
  /\ phase = "sorting"
  /\ clusters' \in {q \in SetToSeqs(Range(clusters)) :
                      \A i, j \in DOMAIN q : i < j => ~ Ahead(q[j], q[i])}
  /\ phase' = "done"
  /\ UNCHANGED <<responses, embedding, left>>

\* SelectConsensusResponse.
Selected == IF clusters = <<>> THEN None ELSE clusters[1].representative

Next ==
  \/ \E r \in responses : GetEmbedding(r)
  \/ \E r \in left : StartCluster(r)
  \/ SortClusters

Spec == Init /\ [][Next]_vars

-----------------------------------------------------------------------------
(* Properties. *)

\* The variables have their types, and clusters are there once all embeddings
\* are.
TypeOK ==
  /\ responses \subseteq Nodes
  /\ embedding \in [DOMAIN embedding -> Vectors]
  /\ DOMAIN embedding \subseteq responses
  /\ left \subseteq responses
  /\ clusters \in Seq([representative : responses, members : SUBSET responses])
  /\ phase \in {"embedding", "clustering", "sorting", "done", "failed"}
  /\ phase \in {"clustering", "sorting", "done"} => DOMAIN embedding = responses

\* semantic.go:59-80: scores are those of a cosine: no more than one, the same
\* both ways, one for vectors of one direction, and zero where there is none.
ScoresAreCosines ==
  \A r, s \in DOMAIN embedding :
    LET a == embedding[r]
        b == embedding[s]
    IN  /\ Similarity(r, s) = Similarity(s, r)
        /\ Similarity(r, s) \in -100..100
        /\ Norm(a) = 0 => Similarity(r, s) = 0
        /\ a = b /\ Norm(a) # 0 => Similarity(r, s) = 100

\* semantic.go:113-157: whatever the order, clusters share no response and
\* leave none out, all members are similar to the representative, and
\* representatives are not similar to each other.
ClustersPartition ==
  /\ left = responses \ UNION {c.members : c \in Range(clusters)}
  /\ \A i, j \in DOMAIN clusters :
       LET c == clusters[i]
           d == clusters[j]
       IN  IF i = j
             THEN /\ c.representative \in c.members
                  /\ \A r \in c.members \ {c.representative} :
                       Similar(c.representative, r)
             ELSE /\ c.members \cap d.members = {}
                  /\ ~ Similar(c.representative, d.representative)

\* Responses that are all similar to each other and to no other.
Group(S) ==
  \A r \in S : /\ \A s \in S \ {r} : Similar(r, s)
               /\ \A s \in responses \ S : ~ Similar(r, s)

\* semantic.go:116-138: such a group is one cluster, whatever the order of the
\* responses, and however the clusters of the others come out.
GroupsAreClusters ==
  phase \in {"sorting", "done"} =>
    \A S \in SUBSET responses :
      S # {} /\ Group(S) => \E c \in Range(clusters) : c.members = S

\* semantic.go:160-179: a group of more than half of the responses has the one
\* that is selected.
MajorityIsSelected ==
  phase = "done" =>
    \A S \in SUBSET responses :
      2 * Cardinality(S) > Cardinality(responses) /\ Group(S) => Selected \in S
=============================================================================
