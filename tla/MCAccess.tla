------------------------------- MODULE MCAccess -------------------------------
(***************************************************************************)
(* Who may act, and who may read: accounts with their sessions, the        *)
(* affiliations that let an account into a service's cases and API keys,   *)
(* and the discussion of a service.  An affiliation names an account and   *)
(* nothing of its session, and a discussion has readers that do not change *)
(* while a page loads: so a behaviour exercises one of the three, and the  *)
(* others stay as they were at first.                                      *)
(***************************************************************************)
EXTENDS Affiliations, TLC

CONSTANTS
  Root, Browsers, Sessions, Disguises, MaxGrants, Nobody,  \* Accounts
  Author, Owner, Moderator, PageSize, PreviewSize          \* Threads

VARIABLES
  part,
  account, offered, session, disguise, cookie, visit, granted, signedIn, hider, drawn,
  status, published, before, along, restricted, page

SignIn == INSTANCE Accounts WITH Users <- Users \cup {Root}, request <- visit

\* A first post and two replies: one of the author, one of the owner, who moderates other services.
Discussion ==
  INSTANCE Threads WITH
    Author <- [p \in 1..3 |-> IF p = 2 THEN Owner ELSE Author], Parent <- [p \in 2..3 |-> 1],
    Standing <- [p \in 1..3 |-> IF p = 2 THEN 2 ELSE 0],
    Viewers <- {Author, Owner, Moderator}, Moderators <- {Owner, Moderator}, Affiliated <- {Owner}, Decisions <- {"APPROVED", "PENDING"}

ASSUME NoneAssumption == \A m \in SUBSET Discussion!Posts : m # None

signIn == <<account, offered, session, disguise, cookie, visit, granted, signedIn, hider, drawn>>
discussion == <<status, published, before, along, restricted, page>>

AccessInit ==
  /\ part \in {"sign-in", "speaking", "discussion"}
  /\ Init /\ SignIn!Init /\ Discussion!Init
  /\ part # "discussion" => ~restricted /\ \A p \in 1..3 : status[p] = "APPROVED"

AccessNext ==
  \/ part = "speaking" /\ Next /\ UNCHANGED <<part, signIn, discussion>>
  \/ part = "sign-in" /\ SignIn!Next /\ UNCHANGED <<part, vars, discussion>>
  \/ part = "discussion" /\ Discussion!Next /\ UNCHANGED <<part, signIn, vars>>

AccessSpec == AccessInit /\ [][AccessNext]_<<part, vars, signIn, discussion>>

Symmetry ==
  Permutations(Users) \cup Permutations(Browsers) \cup Permutations(Slots)
    \cup Permutations(Sessions) \cup Permutations(Disguises)

(***************************************************************************)
(* A request acts only for who signed in in its browser, or for the        *)
(* account an admin took on there (middleware.ts:222).                     *)
(***************************************************************************)
ActsForWhoSignedIn == SignIn!ActsForWhoSignedIn

(***************************************************************************)
(* A page shows the text of a post only to who may read it, searching does *)
(* not tell what a withdrawn post said, and a link to a post opens the     *)
(* page of the thread that has it (commentReplyPreviews.ts:78,             *)
(* commentsWithReplies.ts:228, :313).                                      *)
(***************************************************************************)
ThreadsAreRightlyShown ==
  part = "discussion" => Discussion!TextsStayPrivate /\ Discussion!LinksOpenTheirPost
=============================================================================
