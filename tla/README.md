# KYCnot.me in TLA+

KYCnot.me is a directory of services: a web application (Astro, Prisma, PostgreSQL, Redis)
and a Python worker (`pyworker`) that shares the database. Its own logic is in the actions and
pages of the web application (`web/src/actions`, `web/src/lib`, `web/src/pages`,
`web/src/middleware.ts`), in PostgreSQL triggers and functions (`web/prisma/triggers`) and in the
worker's tasks (`pyworker/pyworker/tasks`, `pyworker/pyworker/database.py`). What makes it hard is
that all of them write the same rows: a handler, a trigger and a worker that calls a language model
for a minute may act on one post in any order, and most handlers read before they write.

This directory holds the specifications, their TLC configurations and the proofs.
`PROJECT.json` lists the components, the runs, the source lines every definition stands for, the
hazards with the properties that cover them, the findings and the theorems.

## 1. The parts and their modules

| Part of the system | State | Module |
| --- | --- | --- |
| A post and its moderation: `actions/comment.ts`, `actions/experience.ts`, `actions/admin/experience.ts`, triggers 16, 19 and 20, `tasks/comment_moderation.py` | `Comment`, `CommentRevision`, its reports and evidence | `CommentModeration` |
| Private proof, requests for it, disputes: `lib/proofRequests.ts`, `lib/commentProof.ts`, `lib/experienceQueries.ts` | `CommentEvidence`, `ProofRequest` | `ProofRequests` |
| The word on all posts of a service; how one experience ended | counted posts; `CommentExperience`, `ExperienceUpdate` | `Verdicts`, `Outcomes` |
| The discussion on a service's page: `lib/commentsWithReplies.ts`, `lib/commentReplyPreviews.ts` | a page between its queries | `Threads` |
| Images of proof on disk: `lib/commentEvidenceCleanup.ts`, trigger 17 | files, the queue of deletions | `EvidenceFiles` |
| Scores: trigger 02, `tasks/service_score_recalc.py`, `tasks/force_triggers.py` | the scores, points and links, the queue of recalculations | `ServiceScores` |
| A service's page against its rows: `lib/serviceAnswers.ts`, `lib/serviceTimeline.ts`, `lib/incidentPenalty.ts` | the rows, the stored scores, the clock | `ServiceFacts` |
| A service's listing: `actions/admin/service.ts`, `lib/commentProof.ts`, triggers 02 and 04 | `Service`, how its proofs are classified | `Listings` |
| Events and incidents: `actions/admin/event.ts`, `actions/admin/case.ts` | `Event`, `Incident`, its case | `Incidents` |
| Case reports: `actions/admin/case.ts`, `lib/caseAccess.ts` | `Case` with updates, evidence and files | `Cases` |
| Conversations with the staff and reports: `actions/contact.ts`, `actions/admin/contact.ts` | `ContactThread`, its messages | `ContactThreads` |
| Suggestions: `actions/serviceSuggestion.ts`, `actions/admin/serviceSuggestion.ts` | `ServiceSuggestion`, the fields it edits | `Suggestions`, abstractly `Decisions` |
| Scans of legal documents: `tasks/deep_scan.py`, `database.py` | jobs, documents, what a scan has written so far | `LegalScans` |
| Accounts and sessions: `actions/account.ts`, `lib/redis`, `middleware.ts` | accounts, sessions, cookies | `Accounts` |
| Who speaks for a service: `actions/account.ts`, `actions/admin/user.ts`, `tasks/affiliation_dns.py` | `ServiceUser`, DNS claims, API keys | `Affiliations` |
| Forms and their results: `middleware.ts` | Redis, cookies, tabs, pages kept in memory | `FormResults`, abstractly `OwnResults` |
| Pictures made on request: `lib/semaphore.ts`, `lib/imageEndpoint.ts`, `pages/ogimage.png.ts` | slots, waiters, caches | `Pictures` |
| Links to cards: `lib/ogImageNormalize.ts` | none: texts at the limits of their lengths | `Cards` |
| Notices of posts: trigger 06, `actions/notifications.ts` | `Notification`, preferences, watchers | `Notices` |
| Delivery of notices: `lib/postgresListeners.ts`, `server-events.ts` | streams, listeners, devices | `Pushes` |
| The swap page: `swap-client.ts`, `actions/swap.ts`, `aggregator.ts` | a form, what is sent and answered; a table of quotes | `Swap`, `Quotes` |
| The search: `lib/parseUrlFilters.ts`, `pages/index.astro`, `sitemaps/search.xml.ts` | a URL, redirects, pages read | `Search` |
| Sorting and filtering of arrays, which the last three use | none | `Arrays` |

Not modelled: the schedule of inactive accounts, karma, the task scheduler (the fairness assumed
stands for it), the one-off classification, feeds, and forms that write one row and are read by nothing
modelled (notes, announcements, profiles). `PROJECT.json` says per component what is left out.

The parts meet in the database (rows, locks, triggers, `NOTIFY`) and in Redis. Where two modules
are about one row, one of them is detailed and the other takes any change it could make:
`CommentModeration` decides when a post is published, and `ProofRequests`, `Threads`, `Notices` and
`ContactThreads` let its status change at any time; `Suggestions` has the proposals `LegalScans` saves;
`Incidents` follows overlapping requests, `ServiceFacts` what one incident costs from day to day.

### How a handler becomes actions

A transaction that locks what it reads is one action, with the triggers it fires. What a handler
reads before its transaction, or before an `await`, is a step of its own, and what it read is kept in a
variable for the requests under way (`requests`, `request`, `asked`, `editing`, `tx`, `worker`, `threads`).
A failure and a stop of the process drop that request: its first writes stay. A text, an address or a
picture is a model value or a member of a small set of classes; dates are numbers handed out in
order, or "new" and "old" where only an age matters. History variables (`cleaned`, `owed`, `vouched`,
`outdated`, `closings`, `named`, `disturbed`, `said`, `filed`, `made`, `resold`, `doubtful`, `seen`) record
what the columns do not, and no guard reads them.

## 2. Runs

The modules of one run share no variable: the `MC` module has a variable `part`, and a behaviour
exercises one part while the others stay as they were at first, so that the states are the
sum of the parts' and not their product. One component is `EXTENDS`ed, the others are
`INSTANCE`d with their own constants. Where a run checks liveness, nothing ever waits in the parts that
stand still, so their fairness asks for nothing.

| Run | Modules | Bounds | What it shows |
| --- | --- | --- | --- |
| `post_lifecycle` | `CommentModeration` | one reporter, two edits, two versions, four texts of which two hold a detail | no post leaves every queue, no human decision is overruled, no removed detail or unvouched claim gets out, no verdict lands on another text |
| `scores` | `ServiceScores` | two admins and the worker, two attributes | no transaction publishes scores that miss another's rows |
| `contacts` | `ContactThreads`, `Suggestions` | two threads, two users, two requests; two suggestions, two moderators, pages out of date | one closing reply, a dispute ends with its report; an edit is decided once, by a second person |
| `legal_scans` | `LegalScans` | two services, one change of terms, one request, one fault | every job is answered, every service gets its turn |
| `progress` | `ServiceScores`, `EvidenceFiles` | two admins, one attribute; two files of which one cannot be deleted, two processes, two faults | queues drain, files follow proof |
| `access` | `Accounts`, `Affiliations`, `Threads` | two browsers, two requests; one user, one service, two affiliations ever; three posts | a request acts for who signed in, nobody lets themselves into cases, texts stay with who may read them |
| `service_pages` | `Incidents`, `Cases`, `Listings`, `ProofRequests`, `Verdicts`, `Outcomes`, `ServiceFacts` | two requests, one event, one case, two addresses, two proofs and two requests for them, three posts, two updates | rows say what happened, pages say what rows say |
| `answers` | `CommentModeration`, `Pictures` | one edit, one version; two requests, one slot, one waiter | who waits for the AI or for a picture is answered |
| `site` | `FormResults`, `Pictures`, `Cards`, `Notices`, `Pushes`, `Swap`, `Quotes`, `Search` | two tabs and forms; three requests; texts at every limit; two people; one stream, one device; three quotes; three services, links of two parameters | what visitors meet |
| `lost_requeue`, `reopened_report`, `taken_results` | | | the findings |

Why these bounds. A race needs the one who read and the one who writes in between: two requests,
browsers, tabs, admins or moderators. Two versions of a post are enough for a stale edit to race a
redaction and for one more edit after it. Two admins and the worker are three concurrent
transactions of which one can hold the lock; a third admin repeats the second's part. Two
threads let one reporter try a second report and two reporters close at once. Three requests at one
slot and one place to wait are one that draws, one that waits and one that is refused. Three posts by
two authors are a first post, a reply and a later reply. Numbers the code limits (graphemes,
columns of a page, days of a claim) are scaled down, and the limits are reached in the run.
A link of the search with two parameters has one that only counts with the other, or an idle one beside
one that is not; the links to further pages have as many as they come to.
Of the four visibilities `service_pages` has one that lists a service and one that does not, and its case has
evidence without pictures: what follows from either is the same for the others, and no property of
that run is about pictures.
`contacts` leaves out more than three suggestions and busy moderators together (`Load`), and `site`
more than one answer of the aggregator under way (`FewSwaps`): both are constraints on
what is explored, named in the module.

Symmetry is used where the run checks safety only and the values are interchangeable (texts
with a detail, admins, attributes, threads, requests, browsers). Deadlock is not checked where the
system may stop: a deleted post, a cleaned-up thread, an idle queue. Only `access` never stops.

### Fairness

Nothing is assumed of people. Of the program:

- `CommentModeration`: strong fairness of the worker's steps. The scheduler runs the task again
  and again (`scheduler.py`), and the database and the model do not fail every time. Strong,
  because a post may leave and re-enter the queue while the worker is elsewhere.
- `ServiceScores`: transactions end; the worker runs again and again; who waits for a lock
  that is freed again and again gets it (strong fairness of `WriteScores`: PostgreSQL queues
  waiters).
- `EvidenceFiles`: each cleanup that began goes on, and the timer starts another. Faults are finite.
- `LegalScans`: both tasks are started again and again and end, claims grow old, an accepted request
  is written. Faults are finite.
- `Pictures`: reading and drawing end, and fetches have a time limit.

### What the properties are about

`PROJECT.json` ties every property to the hazards it covers. In short:

- *Verdicts and edits that come late*: `VerdictMatchesText`, `RedactionSticks`, `ClaimsAreVouchedFor`.
- *Long sequences of decisions, withdrawals and restores*: `PendingNeverInvisible`,
  `RestoreReviewsAgain`, `HumanDecisionStands`, `NothingOpenOnHiddenPosts`,
  `ResolutionOutlivesRestores`, `NobodyIsToldTwice`.
- *Rows read before they are written*: `ScoreIsCurrent`, `OneClosingReply`, `SecondReviewer`,
  `DatesMatchStatus`, `EditsSettle`, `RevokedForCause`, `OthersLetYouIn`, `IncidentsAreFiled`.
- *One rule written twice*, in SQL and in TypeScript or in two files: `SqlMirrorsPage`,
  `EveryVoiceCountsOnce`, `LedgerAddsUp`, `AnswersAreShown`, `SignedCardsAreDrawn`,
  `SearchesAreStable`, `BestIsFirst`.
- *State that outlives what it was made for*: `ActsForWhoSignedIn`, `ShowsOwnResults`,
  `KeptCardsAreWhole`, `NoStaleThumb`, `NoListenerOutlivesItsStream`, `FilesFollowProof`,
  `DisputeEndsWithItsReport`, `ThreadsAreRightlyShown`, `AsksWhatWasSet`.
- *What must happen*: `AiAnswers`, `EverybodyIsAnswered`, `QueueDrains`, `NoFileIsHeldBack`,
  `JobsAreAnswered`, `EveryServiceGetsItsTurn`.

Two refinements: `DecidesOnce` says that `Suggestions` implements `Decisions` (an edit reaches the
service in the step that approves it, once), and `ShowsOwnResults` that `FormResults` implements
`OwnResults` (a form runs once and is shown only where it was sent from). Both are `INSTANCE ... WITH` a
mapping of the detailed state, are checked by TLC, and are proved.

## 3. Findings

- `lost_requeue`: `02_service_score.sql:5` says that a change of points queues a recalculation. The
  queue has one row per service. A change that commits between the worker's last read and its mark
  resets a row that is still unprocessed, and the worker then marks it processed without having
  counted the change (`service_score_recalc.py:177`).
- `reopened_report`: `admin/contact.ts:106` says that a staff message must not reopen a closed report.
  The outcome is read before the transaction and the reply's update names only the thread's id: a
  report closed in between is reopened, and neither closing, resolving nor cleaning up can end it.
- `taken_results`: `swapPageInfoCore.ts:190` says that all core features work with JavaScript
  disabled. A visitor without scripts asks for quotes while the swap page is kept in memory; the result
  is taken out of Redis and its cookie deleted before `middleware.ts:308` asks for the cookie, so the kept
  page without quotes is served and the quotes are lost.

## 4. Hazards no property covers

- `addEvidence` locks the account and then the post, a proof check the post and then, by the foreign
  key, the account (`experience.ts:245`). PostgreSQL aborts one of the two; the handlers then fail as a
  whole, which the models have as a failed request.
- Accounts to delete are read in one query and deleted one by one (`inactive_users.py:203`): the task
  is not modelled.

Some edges are left out of the models on purpose: the moment a request for proof falls due (the two
rules differ for that instant, which `SqlMirrorsPage` excepts), the rounding of a penalty of
exactly a half, and a company's name of nothing but spaces.

## 5. Proofs

Eight modules hold theorems; each `...Proofs` module `EXTENDS` the component, or the `MC` module whose
properties it proves. TLAPS checks all of them for every value of the constants, under named
assumptions TLC evaluates in the runs. Each proves `Invariance`, that a strengthening `IInv` holds
initially and is kept by every step, with one lemma per handler or per part of `IInv`, and then what
follows from it. The parts of `IInv` are defined at the end of the component's module, those of
signing in, of discussions and of some parts of the site beside their proofs. `IInv` was checked by
TLC on the bounds of the run before it was proved. Where a run composes components, a theorem says
that a behaviour of the whole is one of the component (`AccessHasAffiliations`, `PagesHaveIncidents`, `EitherHasThreads`, `SiteHasForms`),
so that what is proved of the component holds of the run.

| Module | Theorems about properties of runs | Assumptions |
| --- | --- | --- |
| `CommentModerationProofs` | `PendingNeverInvisible`, `NothingOpenOnHiddenPosts`, `RedactionSticks`, `RestoreReviewsAgain`, `ClaimsAreVouchedFor`, `HumanDecisionStands`, `VerdictMatchesText` | `TextsAssumption`, `BoundsAssumption` |
| `ServiceScoresProofs` | `ScoreIsCurrent` | `WritersAssumption`, `InputsAssumption` |
| `ContactsProofs` | `OneClosingReply`, `DisputeEndsWithItsReport`, `SecondReviewer`, `DecidesOnce` | `PeopleAssumption`, `LimitAssumption`, `ProposalsAssumption` |
| `AccessProofs` | `OthersLetYouIn`, `RevokedForCause`, `ActsForWhoSignedIn`, `ThreadsAreRightlyShown` | `ConstantsAssumption`, `NoneAssumption` |
| `ServicePagesProofs` | `IncidentsAreFiled`, `DatesMatchStatus`, `EditsSettle`, `SqlMirrorsPage`, `AnswersAreShown`, `EveryVoiceCountsOnce`, `ResolutionOutlivesRestores`, `LedgerAddsUp` | `ConstantsAssumption`, `PagesAssumption` |
| `ProgressProofs` | `FilesFollowProof` | `BoundsAssumption` |
| `FormResultsProofs` | `ShowsOwnResults` | `BoundAssumption` |
| `SiteProofs` | `NoListenerOutlivesItsStream`, `AsksWhatWasSet`, `KeptCardsAreWhole`, `NoStaleThumb`, `NobodyIsToldTwice`, `BestIsFirst`, `SignedCardsAreDrawn`, `SearchesAreStable` | `VersionAssumption`, `TableAssumption`, `CardAssumption`, `SearchAssumption` |

The assumptions say that a bound is a natural number, that a redaction leaves a text without a
detail, that staff and services are who they are said to be, and that `None`, `Nobody` and the like
are none of the rows or numbers they are told from; of a penalty staff set by hand, that it is no gain
(event.ts:40); of points, that they are integers and that there are finitely many attributes and events.
`TableAssumption` says that the providers are in some order. `CardAssumption`: that a title
is shorter than all texts together (`OG_IMAGE_LIMITS`), and that texts are made of the graphemes the module
tells apart. `SearchAssumption`: that services are finitely many numbered rows with whole scores and
levels from 0 to 4, that a page has a row at least, that a combination of the sitemap needs a result,
and that a seed gives a number for each service.

The arguments, in short:

- *Posts.* None of the properties is inductive alone. `QueueInv`: the column is the trigger's
  function of the row, and a pending post carries no final human verdict, which is why restoring
  clears `humanAction`. `HumanInv`: nothing public, or public again when restored, carries a
  hold or a rejection. `ReportInv`: an open report means a publication, and on a pending post only a
  human hold leaves one open. `EditInv`: an edit that can still be applied was submitted after the
  last removal, because a removal bumps the version. `WorkerInv`: what the worker read is true as
  long as the version is the one it saw.
- *Scores.* Whoever has written scores holds the row lock, so nobody else commits a change of
  links or status; what it wrote is computed from the rows it will commit, because the nested
  trigger reads under the lock. Nothing of the arithmetic is used but that scores depend on
  the points of the attributes the service has.
- *Reports.* A report without an outcome is not resolved (`ThreadInv`), so that handlers which
  look for open reports by status and those which look by outcome find the same ones. The converse
  is false, which is the finding `reopened_report`; the theorems do not depend on it.
- *Suggestions.* What a request has seen or passed is still true of its row when it acts, because
  the transaction names it; an applied edit is never open again, and no two requests write one edit
  (`OneWriter`). With that every step maps to a step of `Decisions`, or to none.
- *Affiliations.* Requests carry what they have passed: a claim is never for `OWNER`, what staff add
  is never their own. A claim's misses are the lookups that did not find it, and what the task
  read of a claim is still so while the row is the same (`ReadInv`).
- *Signing in.* A session's or an impersonation's id is new when it is given out, so no two browsers'
  cookies name the same one; the session a cookie names is of who signed in there last, and the
  impersonation is of the admin who last began one there (`SignInv`). The middleware asks again whether
  that admin still is one, which is why no invariant about roles is needed.
- *Discussions.* What was read while nothing was decided since is true of the posts (`ReadIsTrue`), and a
  text taken from one query is there only if its reader might read it in that query
  (`TextsReadable`). The link's page is the number of sorted first posts or replies before the post it
  names, which counts the same set as the list cuts. The theorem is about the
  three posts of `MCAccess`, for any viewers, page and preview sizes.
- *Incidents.* A step writes at most one event, and one of four things happens to it: it stays, it is
  saved as a kind, it is recorded as an edit, or it is purged; each keeps "filed as an incident
  exactly when it counts as one". A save under way was asked for an event that still is, or was, there.
- *Service pages.* Invariants of five modules, each kept by its part while the others stand still. Case: whatever
  dates a request has read, the dates it writes fit the status it writes. Listing: while requests do
  not overlap, one that is under way holds what the row says, and each piece of proof is
  classified by today's settings or is among those the request still has to write (`SettledInv`).
  Proof: at most one request is open (`OneOpen`), so the filter's "some open request" and the
  page's "the request shown" are the same one. Ending: what was published keeps its date through
  withdrawals (`DateInv`), so that what was published before a mark stays older than it until it is
  decided anew (`SaidInv`). Events: an incident that is resolved has the day and the outcome of it
  (`EntryInv`), so that its penalty is defined and, as no factor of it is a gain, is below zero or none:
  one that an answer still names is "recent" or "ongoing", never "older". `EveryVoiceCountsOnce` needs no
  invariant: it follows from the order of post numbers.
- *Images of proof.* What waits to be deleted, in the queue or in what a cleanup has read, is of no upload
  under way, and nothing names it but what was reported as failed (`WaitsRightly`). So between the
  check and the removal no row can begin to name the file, although no lock is held.
- *Forms.* What waits in Redis has run once; a cookie, a request and what it took belong to a
  form of their own browser; a form that a request or a reload would still run has not run; no kept
  page shows a result. Each step then maps to a step of `OwnResults`, or to none.
- *Pictures.* Who waits in a queue is in it once and nowhere else (`QueueInv`), so that the slot of one
  who ends goes to somebody who has not been answered. A card that lacks something knows it from its
  text to its answer (`WholeOrShort`); a thumbnail's version is read in the slot, after the
  request, and versions only grow (`FreshAt`).
- *Streams.* A stream has something to clean up only while it is open, and a subscription exists
  only while it is made, ended or known to the clean-up (`CleansUp`), because who subscribes looks
  again, after the wait, whether the stream was closed.
- *The swap form.* Cleaning keeps the amount to send, and the one to receive without it; each handler
  that sets one side empties the other before it remembers what drives the form (`AsksFor`).
- *Notices.* Who was told of a post has a notice whose type is the post's, which the trigger looks for
  before it adds another; the rows of one step are of different people (`TellsOnce`). That a list made
  from a set names each member once needs the set to be finite, which is itself kept: preferences
  are made one by one.

- *Scores and the page that explains them.* Both add up points, in another order and in other groups. A sum
  over a finite set is one number whatever the order (`SumsUnique`),
  and over disjoint sets it is the sum of the sums (`SumUnion`), so the groups of the page lose nothing (`LedgerIsWhole`). Scores of today are those of
  the rows (`ScoreInv`), because every step that changes a row runs the trigger.
- *Quotes.* The rows are sorted by a comparison that, on rows of one answer, is a strict order: each member's
  place is the number of those before it, and these numbers are exactly 0 to the size less one
  (`Ranks`, `InOrder`). No row beats the first by `Better`, which is what looks for the best, and of
  equal ones the earlier is both first and best.
- *Links to cards.* Trimming, stripping and clipping leave texts that the schemas accept and would not change
  (`TrimFacts`, `StripKeeps`, `ClipFacts`); what each text takes from the budget is what the
  schema will count for it, and the categories are clipped one after the other with what is left
  (`CategoriesFacts`), so that the sum is within the total (`NormalizedIsAccepted`).
- *The search.* What cleaning leaves has nothing to clean (`CleanTwice`) and asks for the same (`CleanFilters`),
  so a second redirect cannot happen. Matching services are in a strict order for each seed
  (`SortedFacts`); what a visitor has met is the start of that order up to the page (`MetSoFar`,
  `Pieces`), so that no service is skipped or met twice at the edge of a page. A theme of the sitemap
  was counted for some service, so its category and currencies are values the page accepts (`CountedFacts`).

Proved without a run that checks them by that name, because a property above implies them or they are its
invariant: type correctness of a post, that the worker's query finds what the column says waits
(`WorkerQueue`), that failed services are capped, that hidden posts have no open report, and that
nobody reports a post twice.

### What is only model-checked, and why

- Liveness (`AiAnswers`, `EverybodyIsAnswered`, `QueueDrains`, `NoFileIsHeldBack`, `JobsAreAnswered`,
  `EveryServiceGetsItsTurn`): beyond the prover.

Induction over data with the library's theorems is beyond the prover as well, since they take an operator as a
parameter. Where a property needs it, the set of numbers up to which the claim holds is named, and
a least number outside it is refuted (`NatMin`, `NatInduct`); that a recursive definition has a value is
proved by extending finite functions one argument at a time (`Recursion`). What these prove is for
the sequences and sets the properties are about; that the operators of the community modules in other
places (sums in `ServiceScores`, sorting of notices) compute what their comments say stays with TLC.

## 6. Plan

1. Models still missing: the schedule that deletes inactive accounts, and the order of row locks.
