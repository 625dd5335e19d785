-------------------------------- MODULE Threads --------------------------------
(***************************************************************************)
(* What the discussion of a service shows: one thread around a post, or    *)
(* the list of first posts with previews of their replies.  A page is put  *)
(* together from several queries, none of which holds a lock, while posts  *)
(* are decided, withdrawn and restored.                                    *)
(*                                                                         *)
(* A post is a number: a later one is later.  `seen` is history: every     *)
(* post the page draws, and what it was when it was read.  Left out: the   *)
(* totals beside the pager, the order of first posts (all are shown), what *)
(* a row says beyond its text, and deleted accounts.                       *)
(***************************************************************************)
EXTENDS Integers, FiniteSetsExt

CONSTANTS
  Author,           \* of each post, by its number
  Parent,           \* of each reply
  Standing,         \* of each post's author: 3 for staff, 2 for the owner, 1 for the team, 0
  Viewers,
  Moderators,       \* viewers who may moderate comments
  Affiliated,       \* viewers who represent the service
  PageSize,         \* THREAD_PAGE_SIZE
  PreviewSize,      \* replies previewed of each first post
  Decisions,        \* bound: what moderators decide
  None

VARIABLES
  status, published, \* of each post, and whether it was ever published
  before,            \* statusBeforeWithdrawal
  along,             \* replies that were withdrawn with their first post
  restricted,        \* the service is not publicly readable
  page               \* the page being put together

posts == <<status, published, before, along, restricted>>
vars == <<status, published, before, along, restricted, page>>

Posts == DOMAIN Author
Replies == DOMAIN Parent
Roots == Posts \ Replies
RootOf(p) == IF p \in Roots THEN p ELSE Parent[p]
Thread(r) == {p \in Replies : Parent[p] = r}

-----------------------------------------------------------------------------
(* Who may read what *)

\* Representatives of the service do not moderate it.
CanModerate(v) == v \in Moderators \ Affiliated

\* canReadComment
CanRead(v, p, s) == s = "APPROVED" \/ v = Author[p] \/ CanModerate(v)

\* withdrawnPlaceholderWhere
LeavesPlaceholder(p) ==
  /\ p \in Roots /\ status[p] = "WITHDRAWN"
  /\ p \in published \/ \E q \in Thread(p) : status[q] = "APPROVED"

\* commentVisibilityWhere
Visible(v, focused, p) ==
  IF restricted /\ ~CanModerate(v)
  THEN v = Author[p]
  ELSE \/ CanModerate(v) /\ focused
       \/ status[p] = "APPROVED" \/ LeavesPlaceholder(p) \/ v = Author[p]

Row(p) == [id |-> p, status |-> status[p]]

\* What CommentSection draws of a row: its text, a note that it was withdrawn, or nothing.
Drawn(v, row) ==
  CASE CanRead(v, row.id, row.status) -> "text"
    [] ~CanRead(v, row.id, row.status) /\ row.status = "WITHDRAWN" /\ row.id \in Roots -> "placeholder"
    [] OTHER -> "nothing"

Seen(v, rows) == {[id |-> r.id, status |-> r.status, as |-> Drawn(v, r)] : r \in rows}

\* loadCommentList: `matching` are the posts a search or filter matches, or None.
Listed(v, matching) ==
  {p \in Roots :
    /\ Visible(v, FALSE, p)
    /\ matching # None => p \in matching /\ (status[p] # "WITHDRAWN" \/ v = Author[p])}

-----------------------------------------------------------------------------
(* A page *)

NoPage == [at |-> "none", viewer |-> None, target |-> None, asked |-> None, matching |-> None,
           rows |-> {}, before |-> None, chosen |-> {}, seen |-> {}, undisturbed |-> TRUE]

\* makeCommentUrl: a link names the post; whoever turns the pages names one.
OpenLink(v, p, number) ==
  /\ page.at = "none"
  /\ page' = [NoPage EXCEPT !.at = "target", !.viewer = v, !.target = p, !.asked = number]
  /\ UNCHANGED posts

OpenList(v, matching) ==
  /\ page.at = "none"
  /\ page' = [NoPage EXCEPT !.at = "list", !.viewer = v, !.matching = matching]
  /\ UNCHANGED posts

Answered(rows) ==
  [page EXCEPT !.at = "answered", !.rows = {}, !.before = None, !.seen = Seen(page.viewer, rows)]

ReadTarget ==
  /\ page.at = "target"
  /\ page' = [page EXCEPT !.at = IF CanRead(page.viewer, page.target, status[page.target]) THEN "thread" ELSE "note"]
  /\ UNCHANGED posts

\* Only if the target may not be read: whether it left a note.
ReadNote ==
  /\ page.at = "note"
  /\ page' = IF LeavesPlaceholder(page.target) THEN [page EXCEPT !.at = "thread"] ELSE Answered({})
  /\ UNCHANGED posts

InThread == {p \in Thread(RootOf(page.target)) : Visible(page.viewer, TRUE, p)}

\* The root and the count are asked for together, and answered one after the other.
ReadRoot ==
  /\ page.at = "thread" /\ page.rows = {}
  /\ page' = IF Visible(page.viewer, TRUE, RootOf(page.target))
             THEN [page EXCEPT !.rows = {Row(RootOf(page.target))}]
             ELSE Answered({})
  /\ UNCHANGED posts

CountBefore ==
  /\ page.at = "thread" /\ page.before = None
  /\ page.target \in Replies /\ page.asked = None
  /\ page' = [page EXCEPT !.before = Cardinality({p \in InThread : p < page.target})]
  /\ UNCHANGED posts

\* The page with the target, or the one that was asked for.
PageNumber ==
  IF page.before = None THEN IF page.asked = None THEN 1 ELSE page.asked ELSE page.before \div PageSize + 1

ReadReplies ==
  /\ page.at = "thread" /\ page.rows # {}
  /\ page.before # None \/ page.target \in Roots \/ page.asked # None
  /\ LET position(p) == Cardinality({q \in InThread : q < p}) \div PageSize + 1
         shown == {p \in InThread : position(p) = PageNumber}
     IN page' = Answered(page.rows \cup {Row(p) : p \in shown})
  /\ UNCHANGED posts

ReadList ==
  /\ page.at = "list"
  /\ LET rows == {Row(p) : p \in Listed(page.viewer, page.matching)} IN
     page' = IF rows = {} THEN Answered({}) ELSE [Answered(rows) EXCEPT !.at = "choose", !.rows = rows]
  /\ UNCHANGED posts

-----------------------------------------------------------------------------
(* getCommentReplyPreviews *)

\* The author whose replies alone are previewed.
OnlyOf(v) == restricted /\ ~CanModerate(v)
Previewed(v, p) == status[p] = "APPROVED" /\ (OnlyOf(v) => v = Author[p])
Ahead(p, q) == Standing[p] > Standing[q] \/ (Standing[p] = Standing[q] /\ p > q)

ChoosePreviews ==
  /\ page.at = "choose"
  /\ LET replies(r) == {p \in Thread(r) : Previewed(page.viewer, p)}
         best(r) == {p \in replies(r) : Cardinality({q \in replies(r) : Ahead(q, p)}) < PreviewSize}
         chosen == UNION {best(r.id) : r \in page.rows}
     IN page' = [page EXCEPT !.rows = {}, !.chosen = chosen, !.at = IF chosen = {} THEN "answered" ELSE "previews"]
  /\ UNCHANGED posts

\* Mutation: the posts that were chosen are read whatever became of them.
ReadChosen ==
  /\ page.at = "previews"
  /\ page' = [page EXCEPT !.at = "answered", !.chosen = {},
                          !.seen = @ \cup {[id |-> p, status |-> status[p], as |-> "text"] : p \in page.chosen}]
  /\ UNCHANGED posts
\* A preview is drawn whatever its status.
ReadPreviews ==
  /\ page.at = "previews"
  /\ LET shown == {p \in page.chosen : Previewed(page.viewer, p)} IN
     page' = [page EXCEPT !.at = "answered", !.chosen = {},
                          !.seen = @ \cup {[id |-> p, status |-> status[p], as |-> "text"] : p \in shown}]
  /\ UNCHANGED posts

Close == page.at = "answered" /\ page' = NoPage /\ UNCHANGED posts

-----------------------------------------------------------------------------
(* The posts meanwhile *)

Changed(new) ==
  /\ status' = new
  /\ published' = published \cup {p \in Posts : new[p] = "APPROVED"}
  /\ page' = [page EXCEPT !.undisturbed = page.at = "none"]
  /\ UNCHANGED restricted

\* publish
Decide(p, s) ==
  /\ status[p] \notin {"WITHDRAWN", s}
  /\ Changed([status EXCEPT ![p] = s]) /\ UNCHANGED <<before, along>>

Withdrawable == {p \in Posts : status[p] \in {"APPROVED", "PENDING"}}

\* The author's own replies leave with the post.
Withdraw(p) ==
  LET own == {q \in Thread(p) \cap Withdrawable : Author[q] = Author[p]} IN
  /\ p \in Withdrawable
  /\ Changed([q \in Posts |-> IF q \in own \cup {p} THEN "WITHDRAWN" ELSE status[q]])
  /\ before' = [q \in Posts |-> IF q \in own \cup {p} THEN status[q] ELSE before[q]]
  /\ along' = (along \ {p}) \cup own

\* restoredStatus, where `same` are the posts nobody waits for and nobody changed since.
Restore(p, same) ==
  LET back == {p} \cup {q \in Thread(p) \cap along : Author[q] = Author[p]} IN
  /\ status[p] = "WITHDRAWN"
  /\ p \in Replies => status[RootOf(p)] = "APPROVED"
  /\ Changed([q \in Posts |-> CASE q \in back -> IF before[q] = "APPROVED" /\ q \in same THEN "APPROVED" ELSE "PENDING"
                               [] OTHER -> status[q]])
  /\ before' = [q \in Posts |-> IF q \in back THEN None ELSE before[q]]
  /\ along' = along \ back

Init ==
  /\ status \in [Posts -> {"APPROVED", "PENDING"}]
  /\ published = {p \in Posts : status[p] = "APPROVED"}
  /\ before = [p \in Posts |-> None] /\ along = {}
  /\ restricted \in BOOLEAN
  /\ page = NoPage

Next ==
  \/ \E v \in Viewers :
       \/ \E p \in Posts, n \in {None, 1} : OpenLink(v, p, n)
       \/ \E m \in {None} \cup SUBSET Roots : OpenList(v, m)
  \/ ReadTarget \/ ReadNote \/ ReadRoot \/ CountBefore \/ ReadReplies
  \/ ReadList \/ ChoosePreviews \/ ReadPreviews \/ Close
  \/ \E p \in Posts :
       \/ \E s \in Decisions : Decide(p, s)
       \/ Withdraw(p)
       \/ \E same \in SUBSET Posts : Restore(p, same)

Spec == Init /\ [][Next]_vars

-----------------------------------------------------------------------------
(* Properties *)

(***************************************************************************)
(* Whatever is decided between two queries, a page shows the text of a     *)
(* post only to who could read it when it was last read                    *)
(* (commentReplyPreviews.ts:78); and what a withdrawn post said has no     *)
(* part in what others find (commentsWithReplies.ts:313).                  *)
(***************************************************************************)
TextsStayPrivate ==
  /\ \A r \in page.seen : r.as = "text" => CanRead(page.viewer, r.id, r.status)
  /\ \A v \in Viewers, m \in SUBSET Roots :
       LET unread == {p \in Roots : status[p] = "WITHDRAWN" /\ v # Author[p]} IN
       Listed(v, m) = Listed(v, m \ unread)

(***************************************************************************)
(* A link to a post the viewer may see, in a thread they may see, opens    *)
(* the page of the thread that has it (commentsWithReplies.ts:228).        *)
(***************************************************************************)
LinksOpenTheirPost ==
  page.at = "answered" /\ page.target # None /\ page.asked = None /\ page.undisturbed
    /\ Visible(page.viewer, TRUE, page.target) /\ Visible(page.viewer, TRUE, RootOf(page.target)) =>
      \E r \in page.seen : r.id = page.target /\ r.as # "nothing"
=============================================================================
