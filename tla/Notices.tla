-------------------------------- MODULE Notices --------------------------------
(***************************************************************************)
(* Who is told of posts: the triggers of 06_notifications_comments.sql and *)
(* what people choose to hear of (actions/notifications.ts).               *)
(*                                                                         *)
(* One service, one post and one reply to it.  What moves a post from one  *)
(* status to another is modelled with moderation; here it is any change,   *)
(* except that only what was published is restored as published.  Notes of *)
(* the community, holds that change no status and notices of other things  *)
(* are left out.                                                           *)
(***************************************************************************)
EXTENDS Naturals, Sequences, FiniteSets, SequencesExt

CONSTANTS
  Users,
  Poster, Replier,  \* the authors
  Topics,           \* what people start and stop watching: of "service", "post" and "reply"
  Choosers,         \* who changes preferences and marks notices as read
  MaxNotices        \* how many notices are sent

VARIABLES
  status,   \* Comment.status of each post, "none" before it is sent
  before,   \* statusBeforeWithdrawal
  listed,   \* serviceVisibility is PUBLIC, ARCHIVED or UNLISTED
  prefs,    \* who has a row of NotificationPreferences
  watching, \* _onRootCommentCreatedForServices and _watchedComments
  wants,    \* enableOnMyCommentStatusChange
  autowatch, \* enableAutowatchMyComments
  notices   \* Notification

choices == <<prefs, watching, wants, autowatch>>
vars == <<status, before, listed, choices, notices>>

Posts == {"post", "reply"}
Statuses == {"none", "PENDING", "APPROVED", "REJECTED", "WITHDRAWN"}
AuthorOf(p) == IF p = "post" THEN Poster ELSE Replier
Created(p) == IF p = "post" THEN "ROOT_COMMENT_CREATED" ELSE "REPLY_COMMENT_CREATED"
Notice == [user : Users, type : {Created(p) : p \in Posts} \cup {"COMMENT_STATUS_CHANGE"}, about : Posts,
           read : BOOLEAN]

TypeOK ==
  /\ status \in [Posts -> Statuses] /\ before \in [Posts -> Statuses \ {"WITHDRAWN"}]
  /\ listed \in BOOLEAN
  /\ prefs \in SUBSET Users
  /\ watching \in SUBSET (prefs \X ({"service"} \cup Posts))
  /\ wants \in SUBSET prefs /\ autowatch \in SUBSET prefs
  /\ notices \in Seq(Notice) /\ Len(notices) <= MaxNotices

Init ==
  /\ status = [p \in Posts |-> "none"] /\ before = status
  /\ listed \in BOOLEAN
  /\ prefs = {} /\ watching = {} /\ wants = {} /\ autowatch = {}
  /\ notices = <<>>

-----------------------------------------------------------------------------
(* The triggers *)

\* Who hears of a post: who watches the service's posts, or the post replied to.
Watchers(p) ==
  {u \in prefs \ {AuthorOf(p)} : listed /\ <<u, IF p = "post" THEN "service" ELSE "post">> \in watching}

Told(u, p) ==
  \E i \in DOMAIN notices : notices[i].user = u /\ notices[i].about = p /\ notices[i].type = Created(p)

\* notify_*_inserted and notify_*_approved. Mutation: nobody looks at what was sent.
Publishes(from, to) == to = "APPROVED" /\ from \notin {"APPROVED", "WITHDRAWN"}
NewsToAll(p, from, to) == IF Publishes(from, to) THEN Watchers(p) ELSE {}
News(p, from, to) ==
  {u \in IF Publishes(from, to) THEN Watchers(p) ELSE {} : from = "none" \/ ~Told(u, p)}

\* notify_comment_status_changed: withdrawing and restoring are the author's own moves.
StatusNews(p, from, to, byAuthor) ==
  IF from \in {"none", "WITHDRAWN"} \/ to = "WITHDRAWN" THEN {}
  ELSE {u \in wants : IF u = AuthorOf(p) THEN ~byAuthor ELSE <<u, p>> \in watching /\ to = "APPROVED"}

Rows(users, type, p) ==
  SetToSeq({[user |-> u, type |-> type, about |-> p, read |-> FALSE] : u \in users})

Notify(p, from, to, byAuthor) ==
  /\ notices' = notices \o Rows(StatusNews(p, from, to, byAuthor), "COMMENT_STATUS_CHANGE", p)
                        \o Rows(News(p, from, to), Created(p), p)
  /\ Len(notices') <= MaxNotices

-----------------------------------------------------------------------------
(* Posts *)

\* getOrCreateNotificationPreferences.
Prefer(u) ==
  /\ prefs' = prefs \cup {u}
  /\ wants' = IF u \in prefs THEN wants ELSE wants \cup {u}
  /\ autowatch' = IF u \in prefs THEN autowatch ELSE autowatch \cup {u}

Send(p) ==
  LET u == AuthorOf(p) IN
  /\ status[p] = "none"
  /\ p = "reply" => status["post"] = "APPROVED"
  /\ status' = [status EXCEPT ![p] = "PENDING"]
  /\ Prefer(u)
  /\ watching' = IF u \in autowatch' THEN watching \cup {<<u, p>>} ELSE watching
  /\ UNCHANGED <<before, listed, notices>>

\* byAuthor: an admin decided their own post.
Decide(p, to, byAuthor) ==
  /\ status[p] \in {"PENDING", "APPROVED", "REJECTED"} \ {to}
  /\ to \in {"PENDING", "APPROVED", "REJECTED"}
  /\ status' = [status EXCEPT ![p] = to]
  /\ Notify(p, status[p], to, byAuthor)
  /\ UNCHANGED <<before, listed, choices>>

Withdraw(p) ==
  /\ status[p] \in {"PENDING", "APPROVED", "REJECTED"}
  /\ status' = [status EXCEPT ![p] = "WITHDRAWN"]
  /\ before' = [before EXCEPT ![p] = status[p]]
  /\ Notify(p, status[p], "WITHDRAWN", FALSE)
  /\ UNCHANGED <<listed, choices>>

Restore(p, to) ==
  /\ status[p] = "WITHDRAWN"
  /\ to = "PENDING" \/ (to = "APPROVED" /\ before[p] = "APPROVED")
  /\ status' = [status EXCEPT ![p] = to]
  /\ before' = [before EXCEPT ![p] = "none"]
  /\ Notify(p, "WITHDRAWN", to, FALSE)
  /\ UNCHANGED <<listed, choices>>

-----------------------------------------------------------------------------
(* actions/notifications.ts *)

\* watchComment and watchService.
Watch(u, topic, watch) ==
  /\ topic \in Posts => status[topic] # "none"
  /\ watching' = IF watch THEN watching \cup {<<u, topic>>} ELSE watching \ {<<u, topic>>}
  /\ Prefer(u)
  /\ UNCHANGED <<status, before, listed, notices>>

\* preferences.update
UpdatePreferences(u, status_, autowatch_) ==
  /\ prefs' = prefs \cup {u}
  /\ wants' = IF status_ THEN wants \cup {u} ELSE wants \ {u}
  /\ autowatch' = IF autowatch_ THEN autowatch \cup {u} ELSE autowatch \ {u}
  /\ UNCHANGED <<status, before, listed, watching, notices>>

\* updateReadStatus, of one notice or of all.
UpdateReadStatus(u, which, read) ==
  /\ \E i \in which : notices[i].user = u /\ notices[i].read # read
  /\ notices' = [i \in DOMAIN notices |->
                   IF i \in which /\ notices[i].user = u THEN [notices[i] EXCEPT !.read = read] ELSE notices[i]]
  /\ UNCHANGED <<status, before, listed, choices>>

ChangeVisibility ==
  /\ listed' = ~listed
  /\ UNCHANGED <<status, before, choices, notices>>

Next ==
  \/ \E p \in Posts :
       \/ Send(p) \/ Withdraw(p)
       \/ \E to \in Statuses, byAuthor \in BOOLEAN : Decide(p, to, byAuthor)
       \/ \E to \in Statuses : Restore(p, to)
  \/ \E u \in Users :
       \/ \E topic \in Topics, watch \in BOOLEAN : Watch(u, topic, watch)
  \/ \E u \in Choosers :
       \/ \E status_ \in BOOLEAN, autowatch_ \in BOOLEAN : UpdatePreferences(u, status_, autowatch_)
       \/ \E which \in {DOMAIN notices} \cup {{i} : i \in DOMAIN notices}, read \in BOOLEAN :
            UpdateReadStatus(u, which, read)
  \/ ChangeVisibility

Spec == Init /\ [][Next]_vars

-----------------------------------------------------------------------------
(* Properties *)

(***************************************************************************)
(* However often a post is held, rejected, withdrawn and published again,  *)
(* and however often somebody stops watching and starts over, nobody is    *)
(* told of it a second time (06_notifications_comments.sql:89, "A post     *)
(* published again after a hold must not notify the same watchers twice"). *)
(***************************************************************************)
NobodyIsToldTwice ==
  \A i, j \in DOMAIN notices :
    i # j /\ notices[i].type # "COMMENT_STATUS_CHANGE" /\ notices[i].type = notices[j].type
      => notices[i].user # notices[j].user
=============================================================================
