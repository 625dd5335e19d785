-------------------------------- MODULE Verdicts --------------------------------
(***************************************************************************)
(* What a service's page says of the experiences people published: which   *)
(* posts its summary counts, what each weighs, and the word it puts on     *)
(* them.                                                                   *)
(*                                                                         *)
(* Posts are numbered by their dates.  Whether a post's proof was accepted *)
(* or its request went unanswered is ProofRequests'; what its updates make *)
(* of its sentiment and outcome is Outcomes'.  Weights are doubled: a      *)
(* newcomer's post weighs 1 and any other 2.                               *)
(***************************************************************************)
EXTENDS Integers, FiniteSets

CONSTANTS
  Authors,
  Newcomers,           \* authors who write in the first week of their account
  Sentiments,
  MaxPosts,            \* bound
  MinimumVerdictPosts,
  MinimumCheckedBasis,
  None

VARIABLES
  posts,    \* "Comment" with its "CommentExperience", numbered by date
  aged,     \* how many of them are older than the summary's window
  deleted   \* accounts that are gone; the posts they leave have no author

vars == <<posts, aged, deleted>>

Ids == 1..MaxPosts
Post == [author : Authors, sentiment : Sentiments, published : BOOLEAN,
         proof : {"none", "accepted", "unproven"}]

TypeOK ==
  /\ posts \in [Ids -> Post \cup {None}]
  /\ aged \in 0..MaxPosts
  /\ deleted \subseteq Authors

Init ==
  /\ posts = [c \in Ids |-> None]
  /\ aged = 0
  /\ deleted = {}

Written == {c \in Ids : posts[c] # None}
Published == {c \in Written : posts[c].published}

-----------------------------------------------------------------------------
(* experienceSummary *)

Proven(c) == posts[c].proof = "accepted"
Countable == {c \in Published : posts[c].proof # "unproven"}

\* Nobody is the same as nobody: a post without an author has no later one.
HasAuthor(c) == posts[c].author \notin deleted
SameAuthor(c, other) == HasAuthor(c) /\ posts[other].author = posts[c].author
\* Mutation: an author's latest published post silences the earlier ones, also when it is unproven.
OfTheLatest == {c \in Countable : ~\E later \in Published : later > c /\ SameAuthor(c, later)}
Counted == {c \in Countable : ~\E later \in Countable : later > c /\ SameAuthor(c, later)}

Newcomer(c) ==
  /\ HasAuthor(c) /\ posts[c].author \in Newcomers
  /\ ~\E earlier \in Published : earlier < c /\ SameAuthor(c, earlier)
Weight(c) == IF Newcomer(c) /\ ~Proven(c) THEN 1 ELSE 2

Recent == {c \in Counted : c > aged}
Checked == {c \in Recent : Proven(c)}

With(counted, sentiment) == {c \in counted : posts[c].sentiment = sentiment}
Count(counted) == [s \in {"POSITIVE", "NEUTRAL", "NEGATIVE"} |-> 2 * Cardinality(With(counted, s))]
\* The sum of the weights: one for each post, and one more for each that weighs two.
Weighted(counted) ==
  [s \in {"POSITIVE", "NEUTRAL", "NEGATIVE"} |->
     Cardinality(With(counted, s)) + Cardinality({c \in With(counted, s) : Weight(c) = 2})]

-----------------------------------------------------------------------------
(* sentimentVerdict and summaryVerdict *)

Rated(counts) == counts["POSITIVE"] + counts["NEUTRAL"] + counts["NEGATIVE"]

\* At least half negative; or three quarters positive, a mixed one half.
SentimentVerdict(counts, weights) ==
  LET total == Rated(weights) IN
  CASE Rated(counts) < 2 * MinimumVerdictPosts -> None
    [] Rated(counts) >= 2 * MinimumVerdictPosts /\ 2 * weights["NEGATIVE"] >= total -> "Mostly negative"
    [] Rated(counts) >= 2 * MinimumVerdictPosts /\ 2 * weights["NEGATIVE"] < total
         /\ 4 * weights["POSITIVE"] + 2 * weights["NEUTRAL"] >= 3 * total -> "Mostly positive"
    [] OTHER -> "Mixed"

CheckedOnly == Cardinality(Checked) >= MinimumCheckedBasis /\ Checked # Recent

SummaryVerdict ==
  IF CheckedOnly THEN SentimentVerdict(Count(Checked), Count(Checked))
  ELSE SentimentVerdict(Count(Recent), Weighted(Recent))

-----------------------------------------------------------------------------
Write(a, sentiment) ==
  /\ a \notin deleted
  /\ \E c \in Ids \ Written :
       /\ \A other \in Ids \ Written : c <= other
       /\ posts' = [posts EXCEPT ![c] = [author |-> a, sentiment |-> sentiment, published |-> FALSE, proof |-> "none"]]
  /\ UNCHANGED <<aged, deleted>>

\* Decided, withdrawn, restored. What was not published goes with its account.
Decide(c) ==
  /\ c \in Published \/ (c \in Written /\ HasAuthor(c))
  /\ posts' = [posts EXCEPT ![c].published = ~@]
  /\ UNCHANGED <<aged, deleted>>

ChangeProof(c, proof) ==
  /\ c \in Written /\ posts[c].proof # proof
  /\ posts' = [posts EXCEPT ![c].proof = proof]
  /\ UNCHANGED <<aged, deleted>>

\* By a published update.
ChangeSentiment(c, sentiment) ==
  /\ c \in Published /\ HasAuthor(c) /\ posts[c].sentiment # sentiment
  /\ posts' = [posts EXCEPT ![c].sentiment = sentiment]
  /\ UNCHANGED <<aged, deleted>>

\* delete_user_account: what was published stays, without its author.
DeleteAccount(a) ==
  /\ a \notin deleted
  /\ deleted' = deleted \cup {a}
  /\ UNCHANGED <<posts, aged>>

Age ==
  /\ aged + 1 \in Written
  /\ aged' = aged + 1
  /\ UNCHANGED <<posts, deleted>>

Next ==
  \/ \E a \in Authors, sentiment \in Sentiments : Write(a, sentiment)
  \/ \E c \in Ids : Decide(c)
  \/ \E c \in Ids, proof \in {"none", "accepted", "unproven"} : ChangeProof(c, proof)
  \/ \E c \in Ids, sentiment \in Sentiments : ChangeSentiment(c, sentiment)
  \/ \E a \in Authors : DeleteAccount(a)
  \/ Age

Spec == Init /\ [][Next]_vars

-----------------------------------------------------------------------------
(* Properties *)

(***************************************************************************)
(* An author with a post that may count is counted by exactly one, the     *)
(* latest that may: neither writing again nor leaving a request unanswered *)
(* takes away or adds a voice (experienceQueries.ts:201).                  *)
(***************************************************************************)
EveryVoiceCountsOnce ==
  \A a \in Authors \ deleted :
    LET own == {c \in Countable : posts[c].author = a} IN
    own # {} => {c \in Counted : posts[c].author = a} = {c \in own : \A other \in own : other <= c}
=============================================================================
