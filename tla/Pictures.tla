------------------------------- MODULE Pictures -------------------------------
(***************************************************************************)
(* Pictures made on request: cards for links (ogimage.png.ts), badges to   *)
(* embed (badge/[slug].png.ts) and thumbnails of uploads                   *)
(* (imageEndpoint.ts), each behind a Semaphore that bounds how many are    *)
(* made at once and how many wait.                                         *)
(*                                                                         *)
(* One card with a logo and text in a script whose font is loaded from the *)
(* network, one badge and one upload stand for all: pictures share only    *)
(* the slots.  What is refused by its parameters or its signature does not *)
(* get here, except that it may be answered with the default card.         *)
(***************************************************************************)
EXTENDS Naturals, Sequences, FiniteSets

CONSTANTS
  Requests,
  Kinds,       \* what is asked for: of "card", "badge" and "thumb"
  Slots,       \* maxConcurrent of each Semaphore
  Backlog,     \* maxQueued
  MaxVersion,  \* how often the upload is replaced
  Nobody

VARIABLES
  request,     \* what each request waits for and was answered
  running,     \* Semaphore.active: who holds a slot
  waiting,     \* Semaphore.waiters
  card,        \* renderCache
  logo,        \* whether the logo's file can be read
  font,        \* assetCache, failureCache and pending of the asset loader
  loader,      \* the request in whose render the font is loaded
  defaultCard, \* the promise memoizeAsync keeps
  badge,       \* badgeResponseCache
  upload,      \* the version of the uploaded file, 0 while there is none
  thumb        \* transformCache

caches == <<card, font, loader, defaultCard, badge, thumb>>
world == <<logo, upload>>
vars == <<request, running, waiting, caches, world>>

Semaphores == {"render", "transform"}
Versions == 0..MaxVersion

\* lacks: drawn without something it wanted.  missing: trackMissingAssets' flag.
\* since: the upload's version when it was asked for.  got: the version drawn.
Request == [at : {"idle", "looking", "joined", "queued", "working", "text", "font", "drawn", "default", "done"},
            kind : {"card", "badge", "thumb"}, lacks : BOOLEAN, missing : BOOLEAN,
            since : Versions, got : Versions,
            answer : {"none", "kept", "short", "default", "badge", "busy", "missing", "failed"}]
Idle == [at |-> "idle", kind |-> "card", lacks |-> FALSE, missing |-> FALSE, since |-> 0, got |-> 0,
         answer |-> "none"]

TypeOK ==
  /\ request \in [Requests -> Request]
  /\ running \in [Semaphores -> SUBSET Requests]
  /\ waiting \in [Semaphores -> UNION {[1..n -> Requests] : n \in 0..Backlog}]
  /\ \A s \in Semaphores : Cardinality(running[s]) <= Slots[s]
  /\ card \in {"none", "whole", "partial"} /\ logo \in BOOLEAN
  /\ font \in {"none", "loading", "cached", "failed"} /\ loader \in Requests \cup {Nobody}
  /\ defaultCard \in BOOLEAN /\ badge \in BOOLEAN
  /\ upload \in Versions /\ thumb \in [Versions -> Versions]

Init ==
  /\ request = [r \in Requests |-> Idle]
  /\ running = [s \in Semaphores |-> {}] /\ waiting = [s \in Semaphores |-> <<>>]
  /\ card = "none" /\ font = "none" /\ loader = Nobody
  /\ defaultCard = FALSE /\ badge = FALSE /\ thumb = [v \in Versions |-> 0]
  /\ logo = TRUE /\ upload = 0

-----------------------------------------------------------------------------
(* Semaphore *)

\* run: starts, waits or, at once, refuses.
Place(s) ==
  IF Cardinality(running[s]) < Slots[s] THEN "working"
  ELSE IF Len(waiting[s]) < Backlog THEN "queued" ELSE "busy"

Enter(s, r) ==
  /\ running' = IF Place(s) = "working" THEN [running EXCEPT ![s] = @ \cup {r}] ELSE running
  /\ waiting' = IF Place(s) = "queued" THEN [waiting EXCEPT ![s] = Append(@, r)] ELSE waiting

\* The finally of execute hands the slot to the first who waits.
\* Mutation: the slot is only given back.
Nobodys(s) == {}
Successor(s) == IF waiting[s] = <<>> THEN {} ELSE {Head(waiting[s])}

Leave(s, r) ==
  /\ running' = [running EXCEPT ![s] = (@ \ {r}) \cup Successor(s)]
  /\ waiting' = IF Successor(s) = {} THEN waiting ELSE [waiting EXCEPT ![s] = Tail(@)]

Answered(q, answer) == [q EXCEPT !.at = "done", !.answer = answer, !.missing = FALSE]

\* Those in rs are answered, or go on at another step; a successor starts.
Settle(s, rs, New(_)) ==
  request' = [q \in Requests |->
                IF q \in rs THEN New(request[q])
                ELSE IF q \in Successor(s) THEN [request[q] EXCEPT !.at = "working"]
                ELSE request[q]]

At(kind, at) == {r \in Requests : request[r].kind = kind /\ request[r].at = at}

-----------------------------------------------------------------------------
(* Cards *)

AskCard(r) ==
  /\ request[r].at = "idle"
  /\ IF card # "none"
     THEN /\ request' = [request EXCEPT ![r] = Answered([Idle EXCEPT !.lacks = (card = "partial")], "kept")]
          /\ UNCHANGED <<running, waiting>>
     ELSE /\ Enter("render", r)
          /\ request' = [request EXCEPT ![r] = IF Place("render") = "busy" THEN Answered(Idle, "busy")
                                               ELSE [Idle EXCEPT !.at = Place("render")]]
  /\ UNCHANGED <<caches, world>>

\* An unsigned or malformed request.
AskDefault(r) ==
  /\ request[r].at = "idle"
  /\ request' = [request EXCEPT ![r] = [Idle EXCEPT !.at = "default"]]
  /\ UNCHANGED <<running, waiting, caches, world>>

\* readLocalImageAsDataUri.
ReadLogo(r) ==
  /\ r \in At("card", "working")
  /\ request' = [request EXCEPT ![r].at = "text", ![r].lacks = ~logo, ![r].missing = ~logo]
  /\ UNCHANGED <<running, waiting, caches, world>>

\* loadAdditionalAsset, up to the await.
AskFont(r) ==
  /\ r \in At("card", "text")
  /\ CASE font = "cached" -> request' = [request EXCEPT ![r].at = "drawn"] /\ UNCHANGED <<font, loader>>
       [] font = "failed" ->
            /\ request' = [request EXCEPT ![r].at = "drawn", ![r].lacks = TRUE, ![r].missing = TRUE]
            /\ UNCHANGED <<font, loader>>
       [] OTHER ->
            /\ request' = [request EXCEPT ![r].at = "font"]
            /\ font' = "loading"
            /\ loader' = IF font = "loading" THEN loader ELSE r
  /\ UNCHANGED <<running, waiting, card, defaultCard, badge, thumb, world>>

\* Every render that waited reports for itself. Mutation: the one that loads reports.
ReportsAsLoader(r, ok) == ~ok /\ r = loader
Reports(r, ok) == ~ok

\* loadAndCacheFonts ends: within its time limit, with fonts or without any.
FontArrives(ok) ==
  /\ font = "loading"
  /\ font' = IF ok THEN "cached" ELSE "failed"
  /\ loader' = Nobody
  /\ request' = [r \in Requests |->
                   IF r \in At("card", "font")
                   THEN [request[r] EXCEPT !.at = "drawn", !.lacks = @ \/ ~ok,
                                           !.missing = @ \/ Reports(r, ok)]
                   ELSE request[r]]
  /\ UNCHANGED <<running, waiting, card, defaultCard, badge, thumb, world>>

\* What has no asset to miss is kept and may be cached for ever.
FinishCard(r) ==
  /\ r \in At("card", "drawn")
  /\ Leave("render", r)
  /\ Settle("render", {r}, LAMBDA q : Answered(q, IF q.missing THEN "short" ELSE "kept"))
  /\ card' = IF request[r].missing THEN card ELSE IF request[r].lacks THEN "partial" ELSE "whole"
  /\ UNCHANGED <<font, loader, defaultCard, badge, thumb, world>>

\* A template that throws is answered with the default card, which takes no slot.
FailCard(r) ==
  /\ r \in At("card", "drawn")
  /\ Leave("render", r)
  /\ Settle("render", {r}, LAMBDA q : [q EXCEPT !.at = "default"])
  /\ UNCHANGED <<caches, world>>

\* memoizeAsync: one rendering answers everybody who waits, and only success is kept.
AnswerDefault(ok) ==
  /\ At("card", "default") # {}
  /\ defaultCard => ok
  /\ defaultCard' = ok
  /\ request' = [r \in Requests |->
                   IF r \in At("card", "default")
                   THEN Answered(request[r], IF ok THEN "default" ELSE "failed") ELSE request[r]]
  /\ UNCHANGED <<running, waiting, card, font, loader, badge, thumb, world>>

-----------------------------------------------------------------------------
(* Badges *)

\* The request that makes the badge others wait for.
Maker == UNION {At("badge", at) : at \in {"looking", "queued", "working"}}

AskBadge(r) ==
  LET asked == [Idle EXCEPT !.kind = "badge"] IN
  /\ request[r].at = "idle"
  /\ request' = [request EXCEPT ![r] =
                   IF badge THEN Answered(asked, "badge")
                   ELSE [asked EXCEPT !.at = IF Maker = {} THEN "looking" ELSE "joined"]]
  /\ UNCHANGED <<running, waiting, caches, world>>

Sharing(r) == {r} \cup At("badge", "joined")

\* renderBadge: the service is read before a slot is taken.
FindService(r) ==
  /\ r \in At("badge", "looking")
  /\ Enter("render", r)
  /\ request' = [q \in Requests |->
                   IF Place("render") = "busy" /\ q \in Sharing(r) THEN Answered(request[q], "busy")
                   ELSE IF q = r THEN [request[q] EXCEPT !.at = Place("render")]
                   ELSE request[q]]
  /\ UNCHANGED <<caches, world>>

MissService(r) ==
  /\ r \in At("badge", "looking")
  /\ request' = [q \in Requests |-> IF q \in Sharing(r) THEN Answered(request[q], "missing") ELSE request[q]]
  /\ UNCHANGED <<running, waiting, caches, world>>

FinishBadge(r, ok) ==
  /\ r \in At("badge", "working")
  /\ Leave("render", r)
  /\ Settle("render", Sharing(r), LAMBDA q : Answered(q, IF ok THEN "badge" ELSE "failed"))
  /\ badge' = (badge \/ ok)
  /\ UNCHANGED <<card, font, loader, defaultCard, thumb, world>>

-----------------------------------------------------------------------------
(* Thumbnails *)

\* The cache's key has the file's date and size. Mutation: only its name.
KeyByName(version) == 0
Key(version) == version

AskThumb(r) ==
  LET asked == [Idle EXCEPT !.kind = "thumb", !.since = upload] IN
  /\ request[r].at = "idle"
  /\ IF upload = 0 \/ thumb[Key(upload)] # 0
     THEN /\ request' = [request EXCEPT ![r] =
                           IF upload = 0 THEN Answered(asked, "missing")
                           ELSE Answered([asked EXCEPT !.got = thumb[Key(upload)]], "kept")]
          /\ UNCHANGED <<running, waiting>>
     ELSE /\ Enter("transform", r)
          /\ request' = [request EXCEPT ![r] =
                           IF Place("transform") = "busy" THEN Answered(asked, "busy")
                           ELSE [asked EXCEPT !.at = Place("transform")]]
  /\ UNCHANGED <<caches, world>>

\* The file is read in the slot.
ReadUpload(r) ==
  /\ r \in At("thumb", "working")
  /\ request' = [request EXCEPT ![r].at = "drawn", ![r].got = upload]
  /\ UNCHANGED <<running, waiting, caches, world>>

FinishThumb(r, ok) ==
  /\ r \in At("thumb", "drawn")
  /\ Leave("transform", r)
  /\ Settle("transform", {r}, LAMBDA q : Answered(q, IF ok THEN "kept" ELSE "failed"))
  /\ thumb' = IF ok THEN [thumb EXCEPT ![Key(request[r].since)] = request[r].got] ELSE thumb
  /\ UNCHANGED <<card, font, loader, defaultCard, badge, world>>

-----------------------------------------------------------------------------
(* What else happens: files come and go, caches forget *)

Replace ==
  /\ "thumb" \in Kinds /\ upload < MaxVersion
  /\ upload' = upload + 1
  /\ UNCHANGED <<request, running, waiting, caches, logo>>

LogoChanges ==
  /\ "card" \in Kinds
  /\ logo' = ~logo
  /\ UNCHANGED <<request, running, waiting, caches, upload>>

\* LruByteCache evicts; a failure and a badge are kept for a time.
Forget ==
  /\ \/ card # "none" /\ card' = "none" /\ UNCHANGED <<font, badge, thumb>>
     \/ font \in {"cached", "failed"} /\ font' = "none" /\ UNCHANGED <<card, badge, thumb>>
     \/ badge /\ badge' = FALSE /\ UNCHANGED <<card, font, thumb>>
     \/ \E v \in Versions : thumb[v] # 0 /\ thumb' = [thumb EXCEPT ![v] = 0] /\ UNCHANGED <<card, font, badge>>
  /\ UNCHANGED <<request, running, waiting, loader, defaultCard, world>>

Disconnect(r) ==
  /\ request[r].at = "done"
  /\ request' = [request EXCEPT ![r] = Idle]
  /\ UNCHANGED <<running, waiting, caches, world>>

Ask ==
  \E r \in Requests :
    \/ "card" \in Kinds /\ (AskCard(r) \/ AskDefault(r))
    \/ "badge" \in Kinds /\ AskBadge(r)
    \/ "thumb" \in Kinds /\ AskThumb(r)

Work ==
  \/ \E r \in Requests :
       \/ ReadLogo(r) \/ AskFont(r) \/ FinishCard(r) \/ FailCard(r)
       \/ FindService(r) \/ MissService(r) \/ ReadUpload(r)
       \/ \E ok \in BOOLEAN : FinishBadge(r, ok) \/ FinishThumb(r, ok)
  \/ \E ok \in BOOLEAN : FontArrives(ok) \/ AnswerDefault(ok)

Next == Ask \/ Work \/ Replace \/ LogoChanges \/ Forget \/ \E r \in Requests : Disconnect(r)

\* Reading and drawing end, and fetches have a time limit.
Fairness ==
  /\ \A r \in Requests :
       /\ WF_vars(ReadLogo(r)) /\ WF_vars(AskFont(r)) /\ WF_vars(FinishCard(r) \/ FailCard(r))
       /\ WF_vars(FindService(r) \/ MissService(r)) /\ WF_vars(ReadUpload(r))
       /\ WF_vars(\E ok \in BOOLEAN : FinishBadge(r, ok) \/ FinishThumb(r, ok))
  /\ WF_vars(\E ok \in BOOLEAN : FontArrives(ok))
  /\ WF_vars(\E ok \in BOOLEAN : AnswerDefault(ok))

Spec == Init /\ [][Next]_vars /\ Fairness

-----------------------------------------------------------------------------
(* Properties *)

(***************************************************************************)
(* A card drawn without its logo or its font is not kept and not sent as   *)
(* one that never changes, whoever loaded the font for it: the copies in   *)
(* the caches of social networks would lack it for a year                  *)
(* (ogimage.png.ts:24).                                                    *)
(***************************************************************************)
KeptCardsAreWhole ==
  /\ card # "partial"
  /\ \A r \in Requests : request[r].kind = "card" /\ request[r].answer = "kept" => ~request[r].lacks

(***************************************************************************)
(* A file that was replaced under its name is never answered with the      *)
(* picture of an older one, although it may change between the look at its *)
(* date and the read in the slot (imageEndpoint.ts:111).                   *)
(***************************************************************************)
NoStaleThumb ==
  \A r \in Requests :
    request[r].kind = "thumb" /\ request[r].answer = "kept" => request[r].got >= request[r].since

(***************************************************************************)
(* Everybody who asks for a picture is answered: who waits gets the slot   *)
(* of one who ends, also when drawing throws, and who joined a badge or a  *)
(* font in the making learns how it ended (semaphore.ts:28).               *)
(***************************************************************************)
EverybodyIsAnswered ==
  \A r \in Requests : request[r].at \notin {"idle", "done"} ~> request[r].at = "done"
=============================================================================
