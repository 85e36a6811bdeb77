# A verification of the online judge

The repository is an online judge run by a school club. A NestJS backend
(`oj-backend`) with PostgreSQL and Redis, an `interchanger` that stands between
it and the virtual machines that run submissions, two front ends (`oj-frontend`,
`club-homepage`) and a deploy agent. This directory models the parts of it whose
correctness depends on the order of steps: TLA+ modules, TLC configurations that
check them on small instances, and proofs that TLAPS checks.

## Inventory

| Component | State | Operations | Interacts with | Hard because | Correct when |
|---|---|---|---|---|---|
| Interchanger leases (`interchanger/src/judge`) | Redis `judge:lease:*`, `judge:attempt:*`, BullMQ jobs | lease, heartbeat, result, sweep | backend's internal API, judge VMs, BullMQ | overlapping sweeps, read-check-write on a lease, crashes between two calls, late answers of workers taken for dead | nothing is forgotten or judged by two at a time; at most two deliveries |
| Judge client (`judge/interchanger-client.service.ts`) | leases in flight, `revoked` | loop, handle, heartbeat, sendResult | interchanger | lost requests and responses, death of the VM | a revoked result is dropped, others are reported |
| Ingest (`internal/judge-ingest.service.ts`) | submission row, test results | markJudging, ingest | interchanger, rating, pub/sub | duplicated and late results | a stored verdict is final |
| Submissions | submission row | create | queue, dispatch priority | two writes without a transaction | every row gets a job |
| Problems (`problems/problems.service.ts`) | problem row, test cases | create, draft, verify, submit, approve, publish, reject, update, change test cases, remove | judging, rating | every handler reads first and writes later, a verification waits up to 30 s between | what is public has been reviewed and can be judged; unverified proposals disappear |
| Waiting for a verdict (`internal/submission-completion.*`) | waiters in memory | wait, complete | pub/sub | timer against event | a waiter wakes exactly once |
| Rating (`rating`) | `User.rating` | isFirstAccept, recomputeForUser | ingest, problems | concurrent recomputations | it settles on the sum over solved public problems |
| Dispatch priority (`judge/queue-priority.service.ts`) | a pass per group | nextPriority | submissions, BullMQ | idle groups, jobs without priority | shares of 6:4 |
| Judge runner and sandbox | directory, container, their ages | run, sweep | Docker | the timer starts before the program, the kill may fail, output may be missing, the sweep goes by age alone and only while the worker runs | the verdict is the one earned; nothing is left behind |
| Deploy agent (`deploy`) | state file | start, status, run | docker, git | check then act, restarts of its own process | one deployment at a time |
| Accounts (`users`) | rows, roles, suspensions | ban, unban, role, deletion | nearly all | counts and checks before unconditional writes | an administrator remains, the root administrator untouched; none is suspended |
| Sessions (`auth`, `users`, `AuthContext.tsx`) | `authVersion`, verification tokens, the browser's token, user and socket | login, verification, change of a password, refresh | gateway, every page | calls answered in any order, a password checked before it is replaced | old logins die, a link opens one session, the screen belongs to the token |
| Contests and classes (`contests`, `classes`, their administrators' pages) | contest, participants, problem set | create, register, setProblems, leaderboard | problems, two administrators' pages | two writes without a transaction; a save replaces what its page may never have shown | the stored problems are those ticked and not unticked |
| Exam scopes (`exam-scopes`, `exam-scope.js`, `ExamScopePage.tsx`) | rows; exam, list and objects of a page | list, create, update, edit (rename, move) | both front ends | answers without a counter, a move in two requests, objects changed in place | a page at rest shows its exam as stored |
| Community and reports (`community`) | posts, comments, votes, reports | publish, withdraw, vote, report, resolve | notifications, both front ends | a resolution of five statements without a transaction; presses that do not wait | reporters are told what was recorded; the page shows what is stored |
| Club schedules (`club-schedules`, `calendar.js`, `ClubCalendarPage.tsx`) | rows; month, list and form of a page | propose, update, approve, reject, remove, list | both front ends | answers out of order, handlers that captured an older page | a page at rest shows its month and its own writes |
| Live updates (`gateway`, `SubmissionPage.tsx`) | channel, rooms of sockets, the page | publish, join, leave, ask again | ingest | asynchronous join, immediate leave, lost connections | a page at rest shows the stored verdict; the rooms are those of the page |
| Problem page (`NewProblemPage.tsx`) | form, timer, the browser's copy, drafts on the server | type, save a draft, submit, continue, discard | problems | two requests for one save, which go on when the page has been left, two tabs on one copy, answers after the form has changed | "saved" is true of text and test cases; what is offered to continue is not stored already |
| Settings of one row: judge configuration, banner, mail (`judge-config`, `banner`, `mail`, their pages) | three rows, image files, the fields of a page | save, reset, remove, disable | judge payload, disk | read, merge, write; a file and a row that change in two steps | a save changes no other setting, the image is on the disk |
| Groups, notifications, tags, uploads, patch notes, API keys, administration | rows, files | create, read, update, delete | - | little | access rules |
| Public proxy | none | forward | both front ends | - | - |
| Other pages of the front ends | a loaded row, a form | load, show, send | backend | little | - |

`PROJECT.json` lists each of them with what is modelled, and the hazards of the
code with the properties that would catch them.

## Plan

| Step | Modules | State |
|---|---|---|
| The judging pipeline and the contract it implements | `JudgeLease`, `JudgeContract` | done |
| The life of a problem | `ProblemReview` | done |
| What a verdict leads to: the rating, the page | `SolverRating`, `LiveVerdict` | done |
| Accounts, logins, links | `Accounts`, `Sessions` | done |
| One submission in the sandbox, and its sweep | `JudgeRun` | done |
| Deployments | `DeployAgent` | done |
| The club: calendar, exam scopes, reports, a post's page | `ClubCalendar`, `ExamScopes`, `Community`, `CommunityPage` | done |
| The problems of a contest or class | `ProblemSets` | done |
| The lifetimes of leases and attempt keys with a clock | `LeaseClock` | open |
| The page on which a problem is written, the settings of the site | `ProblemDraft`, `SiteSettings` | done |
| The votes on a problem's difficulty | - | open |

Each module that is proved about is written without recursive operators, its invariants
as conjunctions of named parts.

## What is modelled

### JudgeLease: the judging pipeline

| Code | Module |
|---|---|
| `Submission.status` | `status` (`NONE` before the insert, `GONE` once deleted) |
| `SubmissionsService.create` between its insert and its `queue.add` | `create`; `CreateInsert`, `CreateEnqueue`, `CreateAborts` |
| waiting BullMQ jobs | `waiting`, a number for each submission |
| `judge:attempt:<submission>`, `judge:lease:<lease>` | `attemptKey`, `key` |
| `LeaseRecord` | `sub`, `attempt`, `owner`, `overdue` (`expiresAt` has passed) |
| `leaseOne`, the response, the worker and `submitResult`, for one lease | `pc`, from `taken` over `held` to `ingested` |
| `handle()` and its heartbeats | `verdict`, `revoked`, `hb` |
| `sweepExpired`, as often as it overlaps | `sweep` |
| `purgeAccount` | `DeleteSubmission` |

A step is what happens between two calls to Redis, BullMQ or the API, so two
handlers interleave where the code awaits. Faults are a constant, so that a
property is checked and proved under exactly those it needs:

| Fault | What it is | Recovered from by |
|---|---|---|
| `worker` | a judge VM dies | expiry and redelivery |
| `net` | a lease response, a heartbeat, a result or its answer is lost | expiry; a lost lease response uses up a delivery |
| `fetch` | the payload call fails | job goes back to the queue |
| `mark` | the status call fails after the lease is stored | expiry |
| `ttl` | the attempt key expires before its submission is decided | the next delivery counts as the first |
| `ingest` | storing a verdict fails | nothing: the lease has been consumed |
| `queue` | a call that puts a job on the queue fails | nothing |
| `interchanger` | the process dies between two calls | nothing for a job or lease that only it knew |

Left out: BullMQ's list of active jobs (nothing in the system reads it), the
order of waiting jobs, records that do not parse, checks of a result against the
payload, and what a run of the sandbox does (a choice of a verdict).

### JudgeContract

What a submission goes through, without leases: `absent`, `accepted`, `queued`,
`delivered`, perhaps back to `queued`, `deciding`, a verdict; from anywhere
`gone`. Whoever decides may fail (`Falter`) where `Fallible` says so: then nothing is
decided, and where a sweep had handed the submission back its job waits. `JudgeLease`
implements it with `StageOf` as its refinement mapping, and with `Fallible` exactly when
`Faults` holds `ingest` or `interchanger`.

### ProblemReview: the life of a problem

| Code | Module |
|---|---|
| `Problem.status` | `status` (`NONE`, `GONE` around the row's life) |
| `problemType` with `scoringMode` | `ptype` |
| the test cases | `cases`, the kinds of their contents |
| `assertTestCasesMatchType`, `assertProblemReady` | `Fits` (the constant `Accepts` says which kinds suit a type), `Ready` |
| a request between its reads and its writes | `task`: where it stands, its role, the status and type it has read |
| the verification's submission | `proof`; `Judged` is the whole of the judging pipeline |
| other submissions | `submitted`: they block the removal of the row |

`origin`, `verified`, `unreviewed`, `outdated`, `accident` and the mark `stale` of a
task are history: no guard reads them. `outdated` says that a request has acted on
a reading made before somebody else's write, `accident` that one has died midway;
both are forgotten at the next approval, since that reads everything anew. A step
is a request's reads or one of its writes; its answer, if refused, is no step.

Left out: `isPublished` (written with the status and never read by the backend),
the number, size and order of test cases, level, tags and texts, comments, votes,
lists, and the recomputation of ratings.

### ProblemDraft: a problem being written

| Code | Module |
|---|---|
| `localStorage`, `oj_problem_draft` | `copy` |
| the problems an author has saved or handed in | `drafts` |
| `NewProblemPage` in each tab: form, `saveTimer`, `draftId`, `?resume`, the notice | `tab` |
| `onSaveDraft`, `onSubmit` and the requests they send one after the other | `SaveDraft`, `Submit`; `job`, `Carry` |
| the loading of a draft, in two requests | `LoadDraft` |
| a link to the page, its reload, a link away from it, the end of its document | `Visit`, `Discard`, `Leave`, `Close` |
| the same functions of a page that has been left | `left`, `CarryOn` |

A request and its answer are one step: it is carried out or not, and if it is its
answer may get lost. The form is a text (title, address, statement, settings), the
test cases and the box for contests; a text is the number of the key that made it,
and since an address is unique, no two problems have one text. A verification is a
step that succeeds or not, as `ProblemReview` has the rest. `kept`, `alone` and
`loose` are history.

A link to another page only unmounts the page. `Leave` therefore drops its timer and its
loads and puts the handler, if one is under way, in `left`, where `CarryOn` takes it
through all that the code still does: the second request of a save, the publication or
verification, the removal of the browser's copy, and in the end the navigation, which may
take away a page that has been opened in the tab meanwhile or have it load the draft just
created. The page may be opened again while handlers of its tab are under way, and may save
before their requests arrive. Only closing or reloading (`Close`, `Discard`) ends a
handler; the request that is out may still be carried out (`goes`).

### SiteSettings: the rows of which there is one

| Code | Module |
|---|---|
| `site_banner`, `uploads/banner` | `banner`, `disk` |
| `judge_config`, the fields of `JudgeConfigPage` | `config` (0: the default), `form` |
| `mail_config` | `mail` |
| a request between its reading and its writes | `req` |
| `BannerService.save`, `remove`, `deleteFile` | `ReadBanner`, `WriteBanner`, `Unlink`; `UnlinkFirst`, `ClearBanner` |
| `JudgeConfigService.update`, `reset` | `ReadConfig`, `WriteConfig`; `WriteReset` |
| `MailService.saveGmailConfig`, `disableDatabaseConfig` | `ReadMail`, `WriteGmail`, `WriteDisable` |

A behaviour has one of the three pages open (`topic`). What a language's commands
are, the account's address and the banner's link are left out. `last` and `given` are
history: what was written last; `crossed` says that a row was written from an outdated
reading, `cut` which of the banner's requests have ended halfway.

### Accounts: roles, suspensions, deletion

| Code | Module |
|---|---|
| `User.role`, `banned`, `isRootAdmin` | `account` |
| `JwtStrategy` and `RolesGuard` for the sender | `Arrive`, `Permitted`; the sender's role is kept as the request's `teacher` |
| the service's `findUnique` of the target, and its refusals | `Read`, `Admits` |
| `prisma.user.count` of administrators | `Count`, `Spare` |
| the last write | `Write`; `Fails` when the row is gone or `purgeAccount` is refused |

`outdated` is history: the accounts written by a request whose reading or count was
no longer true. All rows exist at the start; sign-up and accounts in bulk add rows
and change none.

### Sessions: logins, passwords, links, the browser

| Code | Module |
|---|---|
| `passwordHash`, `authVersion`, `mustChangePassword`, `emailVerified` | `row`; a password is its number |
| `EmailVerificationToken` rows | `link` |
| the stored token, the context's user, the socket | `browser` |
| each `fetch` between its sending, the server's steps and its answer | `call` |
| `login`, `verifyEmail` (find, then a transaction), `resendVerification` (delete, then create) | `Login`; `FindLink`, `ConfirmAddress`; `DropLinks`, `SendLink` |
| `changePassword` (compare, then update) | `CheckPassword`, `ChangePassword` |
| `AuthContext`: first request, `refreshUser`, `login`, `logout` | `Boot`, `Refresh`, `Enter`, `Logout`; `Reload` of the page |
| `authenticate` of the gateway | `Connect` |

One tab of one browser. Pages are merged into their calls; what a token carries is
its account and version, and as history the password that was current when the
account was read for it (`proved`).

### ClubCalendar: schedules and a manager's page

| Code | Module |
|---|---|
| `clubSchedule` rows | `schedules` (`ver` counts the writes) |
| `visibleMonth`, the list, the edited schedule | `page` |
| `requestNumber` | `newest` of a request: no later one has been sent |
| `loadSchedules` | `Turn` or `Reload`, `ReadList`, `ShowList` |
| the handlers and the values their closures captured | `PressButton` keeps `month` and `editing`, used where `kind` is `oj` |
| `ClubSchedulesService` | `Serve`, one statement for each request |
| other managers | `Elsewhere` |

Both pages are one module, since the second is a port of the first; they differ in
`WhileLoading`, `ReloadMonth` and `WasEditing`. That the sender may manage schedules
is assumed to have been checked.

### ExamScopes: the subjects of an exam and their editor's page

| Code | Module |
|---|---|
| `exam_scopes` rows of one term | `scopes` (`NONE`: a row not yet created) |
| the selected exam, the list, what is on the screen | `view` |
| the objects of a list, which handlers capture and change | `objects`, by the answer they came with |
| each request of the page, from its button to its last answer | `call` |
| `loadExamScopes` | `LoadExam`, `ReadExam`, `ShowExam`, `LoadFails` |
| rename and text; move; add | `PressEdit`, `ServeEdit`, `FinishEdit`; `PressMove`, `ServeMove` (twice), `FinishMove`; `PressAdd`, `ServeLast`, `ServeAdd`, `FinishAdd` |

There is one editor, the account `hift`, so one page, either of the two (`site`). The
home page does not reload after a change but repeats it on its objects and list,
so it has to arrive where the service's sort would. `slipped` is history and says
that something which `ShownIsStored` names has happened since the list came; each request
carries what that needs (`fresh`: of a load, that no newer request or write has overtaken
it; of a change, that the list still is the one it was pressed in and that no other move
has run beside it). `IsStored` says what the service's sort answers and `ReadExam` takes any
list that is so, since the sort itself is recursive. Deleting is not offered by the code. That the page knows its user from the start is assumed.

### ProblemSets: the problems of a contest or a class

| Code | Module |
|---|---|
| `contest_problems` or `class_problems` of one contest or class | `chosen` |
| `phaseOf`, `problemsVisibleAfterEnd`, `contestOnly`, the problems that exist | `phase`, `visible`, `contestOnly`, `exists` |
| `ContestProblemsEditor`, `ClassManager`: the answers, the ticks, the save | `editor` |
| `findBySlug`, `findAllPublished` | `Revealed`, `Listed` |
| `deleteMany`, `createMany` | `DeleteRows`, `CreateRows`; for a class the first is seen only with the second |

`meant` is history: what the administrators' ticks and unticks add up to. Points,
labels, order and participants are left out, and so are problems taken down after
they were chosen, which the list leaves out as it does contest-only ones.

### Community: posts, comments, reports

`target` are the posts and comments, `On` what a row hangs from; `Delete`, `List`,
`Close` and `Tell` are the statements of `ReportsService.resolve`, `Find` and `File`
those of `create`, and `Stop` the end of a request between any two of its statements.
History: `missed` (reports filed between a listing and a closing, or not told when a
request stopped) and `contested` (targets two requests resolved at the same time).

### CommunityPage: a vote and comments on the screen

One member's vote on one post and the number of comments, as stored and as shown.
`ReadVote`, `WriteVote` and `SumVotes` are the three statements of a vote;
`ReloadPost` and what follows is the reload after a comment, of which the two front
ends show different parts (`ShowPost`). Other members' votes and comments are left out:
they change what is stored without any promise that an open page follows.
`overlapped` says that since the page was opened a press did not wait for another or
failed.

### SolverRating: the rating of one user

`problem` and `accepted` are what a recomputation reads, `TopSum` what it should come
to, `job` a verdict or a request between its steps: `count` before `isFirstAccept`,
`solvers` before the list of solvers, `update` between a problem's reading and its
writing, `read` and `write` the two halves of `recomputeForUser`. `ChangeSilently`
stands for the changes that ask for no recomputation. `drifted` is history: the
rating may be wrong until a lone recomputation reads again.

### LiveVerdict: a submission's page

| Code | Module |
|---|---|
| `markJudging`, `ingest`, up to their write; the `publish` after it | `Settle`; `PublishUpdate`, `PublishFails` |
| the Redis channel | `bus` |
| `SubmissionGateway.afterInit`, `join`, `leave`, `canAccessSubmission` | `PassOn`, `ReceivePacket`, `JoinRoom`, `JoinFails` |
| `lib/socket.ts`, and what it keeps back without a connection | `packets`, `online` |
| `SubmissionPage`: the effects, their clean-up, `refetch` | `OpenPage`, `LeavePage`, `AnswerGet`, `ShowAnswer`, `GetFails` |

### DeployAgent: the agent and its page

`file` is `.deploy-state.json`, `run` the deployments with the step they are at,
`chain` the chains of polls of `DeployPage`. Writing the file empties it first
(`Reads`), a write may fail, the process may crash, and time passes: `Stale` is
`STALE_RUN_MS` and `StepMax` the timeout of a step, of which there are four.
Leaving the page, the password and the agent's token are left out.

### JudgeRun: one submission in the sandbox

`program` says how the submission behaves in each stage (compilation, then one test
case after the other), so comparison, scores and the interactive script are reduced
to a behaviour. `Create`, `StartContainer`, `Terminate`, `ProgramEnds` and `Collect`
are `DockerSandboxService.run`; `Collect`, `Finish` and `RunError` the runner's part;
`Sweep` is `SandboxCleanupService.sweep`, `Advance` the clock it goes by. A program
that floods may be stopped, or end before its excess has been counted; a kill may fail and
is not tried again, so that a container that loops goes on until the sweep; and the output
is taken when `wait` returns, so that `Collect` lets it say anything when a part of it is
missing: a right program may be wrong, a wrong or flooding one accepted.

The sweep's timer is the worker's (`up`). `WorkerStops` ends it with the run, what the run
had made stays and ages for as long as no worker runs, and `WorkerStarts` sweeps at once
(`FirstSweep`). Ages are counted up to `MaxAge`, the sum of both intervals, since no
property tells greater ones apart. `luck` is history: in which stage the timer fired though
the program would have ended ("timer"), the output was not whole ("output"), or the
directory had been swept away ("sweep"); `stuck`: the last sweep could not remove something.

### How they are composed

`JudgeLease` and `JudgeContract` are one refinement. `JudgeRun` is what `JudgeLease`
takes as a choice of a verdict; `LiveVerdict` and `SolverRating` begin where
`JudgeLease` stores one, and each takes any order of verdicts that
`VerdictFinal` admits. `ProblemDraft` sends the requests that `ProblemReview` serves.
`MCProblemReview`, `MCPeople`, `MCClub` and `MCServices` check modules that
share no state side by side: a behaviour is one of one of them, so a run costs the
sum of their states and not the product.

## What is checked

| Run | Question | Instance |
|---|---|---|
| `judge_safety` | Is a submission ever forgotten, delivered too often, given up too early, or its verdict changed? | one submission, three leases (a third delivery would show), one worker with two slots, one sweep, two verdicts; `worker`, `net`, `fetch`, `mark` |
| `judge_contract` | Is a submission ever carried twice, and is the contract implemented? | two submissions, two leases, two overlapping sweeps; `mark`, `ingest` (0.49 million states) |
| `judge_live` | Does every submission end? | one submission, two leases (the code allows no third delivery without `ttl`); `worker`, `net`, `fetch`, `mark` |
| `judge_faults` | What remains when everything fails? | one submission, two leases, two sweeps, all eight faults |
| `judge_stuck` | Does a submission ever stay in `JUDGING`? | the smallest; `ingest`. Violated, see below |
| `problem_review` | Is what is public reviewed, and can it be judged; do unverified proposals disappear? Does the problem page tell the truth, does a save of one setting change another? | two requests at a time, either may die; a type that admits any test case and one that admits numbers only; two tabs, two problems, two changes of a form, two visits, two presses; two requests on a settings row, two images, two languages, two typed values (1.8 million states) |
| `problem_race` | Is a change of a public problem always reviewed? | the same without deaths. Violated, see below |
| `people` | What may overlapping requests on accounts do to each other; do old logins and used links die? | three users, three roles, two requests; two accounts, two links, two calls, one change of a password (1.4 million states) |
| `people_lockout` | Does an administrator always remain? | as `people`. Violated, see below |
| `people_sockets` | Does a change of the password end the sockets from before it? | as `people`. Violated, see below |
| `club` | Do the pages and the reporters see what is stored? | one schedule, two months, two requests of the page, three writes; three subjects of which one exists, two requests at a time, three presses; a post with a comment, two members, two requests, two reports; two presses, two comments (0.83 million states) |
| `services` | Do the rating, a submission's page, the deployments and the sandbox end where they should? | two problems of one or two points, the best one counting, two jobs, two accepted submissions each; two submissions, two requests of the page, two openings; two deployments, one chain of polls, three units until a run is held dead; two test cases, an age of two, a sweep in every unit; two problems of a contest or class, two pages (1.5 million states) |

Properties of the pipeline. `NotLost`: an open submission always has a creating
request, a job, a lease, a sweep or a result being stored. `SoleCarrier`: it has
only one of the first four. `AtMostTwoDeliveries`, `GivesUpAfterTwo`: the limit of
`judge-protocol.ts:62`. `VerdictFinal`: a verdict is never overwritten.
`ImplementsContract`: every step is one of the contract's. `EventuallyJudged`.

Properties of the review. `PublicIsReviewed` and `PublicFitsType` hold while no
request acts on an outdated reading; without that condition the first fails, which is
what `problem_race` shows. `UnverifiedDisappears`: when the request that
created a proposal has ended, the proposal has an accepted proof or is gone,
through approvals, edits and rejections in the meantime; only a submission of
someone else, or the death of that request, leaves it behind.

`DraftsHold`: where the page says "saved", the server has the text and the test cases of
one form, until another handler writes that draft (`alone`), be it another tab's or that of
a page which was left while it saved: the code does let the late second request of such a
save overwrite the test cases of a newer one that has been told saved, in one and the same
tab. And what the page offers to continue is
not stored already, but for two tabs at once, an answer nobody was there to hear, and the
timer of a page that waits for a problem it has created to be published (`loose`).
`SettingsHold`: the banner's image is on the disk and no other file is, each language has
the command, and the mail account the password, that was written last. A write from an
outdated reading (`crossed`) or a banner's request that ended halfway (`cut`) breaks it,
and nothing else does.

Properties of people. `RootStays` holds outright. `SuspendedOrAdmin` and
`AdminRemains` hold while no request acts on an outdated reading or count; the lockout
is what the second excuses. `OldLoginsDie`: a token that is accepted was signed from a
reading that already had the present password, since the version is raised in the
statement that replaces it. `LinkOpensOnce`. `ShownOwnsToken`: the screen and the
stored token belong to one account, unless `refreshUser` was answered late, which
unlike the first request does not look whether its token is still stored.
`StuckGateHasDeadToken`: where a tab is kept on the page that demands a new password
though the server no longer does, its token is dead; a reload frees it.

Properties of the club. `ListIsOfItsMonth` and `OwnWritesShow`: the counter of requests
makes a page at rest show its month and its own writes, with one exception on each of
the two pages: React's handlers reload the month they captured, and `calendar.js`
skips the reload when an edit was cancelled while it was being saved.
`ActionTakenIsGone` holds outright; `ClosedIsTold` and `ToldWhatWasRecorded` hold but
for what `missed` and `contested` name. `PageShowsStored`. `ShownIsStored`: the exam page at
rest is not left loading, and shows its exam as stored but after an answer that a
newer request or write overtook, a reload for an exam no longer selected, a change to a
list replaced meanwhile, two moves at once, equal numbers, or a failure: without a counter
of requests each of these leaves it wrong.

Properties of the services. Each says what holds once nothing is under way, and names
by its history variable every way in which it may not: `RatingIsTrue` (`drifted`),
`SettledPageIsFinal` (`missed`), `RoomsArePages` (`slipped`), `OneDeployment`
(`crossed`), `PageShowsOutcome` (`early`), `VerdictIsEarned` (`luck`),
`LeftoversAreSwept` (`stuck`). `MeantIsStored`: what is stored is what the administrators
ticked and did not untick, once every save of a page that did not know what it
replaced, and every save that failed between its two writes, is taken as meant. The
exception is set by the step that may do the harm and nowhere else, so a fault of another
kind would show.

Of the sandbox, `VerdictIsEarned` says that the verdict is the one of the first stage that
does not pass and, stage by stage, what chance can turn a result into and no more: the timer
a program that would have ended into one that took too long, missing output a wrong or
flooding program into an accepted one and a right or flooding one into a wrong one, the
sweep any into a failed one. So the code does accept a wrong program when the part that is
missing was the wrong one, but never one that crashes or does not end. `LeftoversAreSwept`
bounds the age of what was left behind once a worker has swept, whatever ran before and
however long none did. While no worker runs there is no bound, since the sweep's timer is
the worker's.

Why the bounds are enough. Leases interact only through one submission, its
attempt key and its jobs, and a submission has at most two deliveries, so three
leases show every way to exceed them; two submissions show a confusion between
submissions; two sweeps, or a sweep, a heartbeat and a result, are every pair of
steps that meet on one record. On a problem, what one request does between the
read and the write of another is all there is, and a type that refuses a kind the
other admits is all the test cases' rules can disagree on.

In the other runs two requests, calls, jobs or presses show every overlap of two steps,
which is what the handlers can do to each other: none waits for a third. Three users are
an administrator, another and a third who is neither target nor sender. One change of a
password separates the tokens from before and after. Two months and two requests of a
page show an answer that arrives after a newer one; three writes to a schedule are an
edit on either side of a review. Two problems where the best one counts make a
recomputation drop a problem. Two openings of a page show the leave of the first beside
the join of the second. Three presses and two requests are a change between the two
requests of a move, or a second list while the first is being changed, or two equal moves
at once and one back; one subject in the exam at first leaves room for two to be added, two
are those that a move needs. Two pages and two problems show one save between
the two writes of the other, with a problem each has and has not. Two tabs are one that
writes and one that has the same draft or copy; two presses are a draft saved and saved
again, handed in, or saved elsewhere. Two images are the stored one and a new one, two
languages the saved one and another. Three units of time and one for each of four steps
let a living deployment be held dead. Two test cases are one before and one after the
first failure, and of the programs that behave alike until they are stopped the run takes
one; and ages beyond the sum of both intervals, which only a worker that is down
lets grow, are all swept alike.

No run checks for deadlock, because every system here may stop: all leases used, every
submission decided; the problem or the accounts deleted; a schedule at its last
write; the deployments over.

Only the pipeline states liveness; what is checked of the other modules is what
holds when they rest. Fairness (`JudgeLease!Fairness`) is weak for steps of a running process (an
awaited call returns, a timer fires, a run of the sandbox is limited in time) and
strong where a competitor can disable a step over and over: a worker polls without
end and takes what the queue offers (`LeaseTake`), the payload call of a submission
succeeds sometimes (`FetchPayload`; a call that always failed would send the job
back for ever), and a sweep each minute finds what is overdue (`SweepRead`).
No fault is fair: it may happen or not. A worker's death is not followed by a fair
restart, because the next worker is another.

## What is proved

For any sets of submissions, leases, workers, sweeps, requests, accounts, links,
posts and members, any concurrency, any rule which test cases suit which type, any
number of test cases and any ages at which the sweep removes. The assumptions on
constants are those named in the modules: the faults are known ones, `Nil` and
`Same` are new values, verdicts are not the names of open states, accounts are
finitely many, and so are problems, the sweep spares what is younger than two units of time, the stored
verdicts are no stage of the contract (`StageAssumption`), `Nothing` is neither an account
nor a token (`NothingAssumption`).

| Theorem | Module | Says |
|---|---|---|
| `TypeCorrect` | `JudgeLeaseProofs` | `Spec => []TypeOK` |
| `VerdictIsFinal` | `JudgeLeaseProofs` | `Spec => VerdictFinal`, under every fault |
| `BookkeepingHolds` | `JudgeLeaseSafetyProofs` | `Spec => []Bookkeeping`, under every fault |
| `SingleCarrier` | `JudgeLeaseSafetyProofs` | `Spec => []SoleCarrier`, under every fault |
| `NothingLost` | `JudgeLeaseNotLostProofs` | `Recoverable /\ Spec => []NotLost`, `Recoverable` being the absence of `queue`, `ingest` and `interchanger` |
| `ContractImplemented` | `JudgeLeaseContractProofs` | `Spec => ImplementsContract`, under every fault |
| `NotGivenUpEarly` | `JudgeLeaseContractProofs` | `Spec => []GivesUpAfterTwo`, under every fault |
| `NoThirdDelivery` | `JudgeLeaseContractProofs` | `Spec => []AtMostTwoDeliveries` under `KeysHold`, the absence of `ttl` and `interchanger` |
| `TypeCorrect`, `BookkeepingHolds` | `ProblemReviewProofs` | the types and the inductive invariant, with requests that die |
| `PublicStaysReviewed`, `PublicStaysFit`, `UnverifiedGoes` | `ProblemReviewProofs` | the three properties of the review |
| `DraftsTyped`, `WhatIsSaidIsSaved` | `ProblemReviewProofs` | the types, `DraftsHold` |
| `SettingsTyped`, `OneSettingAtATime` | `ProblemReviewProofs` | the types, `SettingsHold` |
| `AccountsTyped`, `RootIsSafe`, `SuspendedAdminIsARace`, `LockoutIsARace` | `PeopleProofs` | the types, `RootStays`, `SuspendedOrAdmin`, `AdminRemains` |
| `SessionsTyped`, `OldLoginsAreDead`, `LinksOpenOnce` | `PeopleProofs` | the types, `OldLoginsDie`, `LinkOpensOnce` |
| `ScreenFollowsToken`, `StuckOnlyWhenDead` | `PeopleProofs` | `ShownOwnsToken`, `StuckGateHasDeadToken` |
| `CommunityTyped`, `ActionIsTaken`, `SilenceIsARace`, `NoticesAreTrue` | `ClubProofs` | the types, `ActionTakenIsGone`, `ClosedIsTold`, `ToldWhatWasRecorded` |
| `PageFollowsPost` | `ClubProofs` | `PageShowsStored` |
| `ExamTyped`, `ExamListIsStored` | `ClubProofs` | the types, `ShownIsStored` |
| `CalendarShowsItsMonth`, `CalendarShowsOwnWrites` | `ClubProofs` | `ListIsOfItsMonth`, `OwnWritesShow` |
| `JudgeRunTyped`, `VerdictsAreEarned`, `LeftoversGo` | `ServicesProofs` | the types, `VerdictIsEarned`, `LeftoversAreSwept` |
| `DeploymentsAlternate`, `PageStopsWithOutcome` | `ServicesProofs` | `OneDeployment`, `PageShowsOutcome` |
| `TicksAreStored` | `ServicesProofs` | `MeantIsStored` |
| `RatingTyped`, `RatingCatchesUp` | `ServicesProofs` | the types, `RatingIsTrue` |
| `BestAreTop` | `ServicesProofs` | sorting and taking the first `TOP_N` comes to `TopSum`, whatever is taken among equals |
| `LiveTyped`, `VerdictReachesPage`, `SocketFollowsPage` | `ServicesProofs` | the types, `SettledPageIsFinal`, `RoomsArePages` |
| `ProblemsAreEach`, `PeopleAreEach`, `ClubIsEach`, `ServicesAreEach` | with their modules | a behaviour of a run's module is one of each module in it |
| `ProblemsTyped`, `PeopleTyped`, `ClubTyped`, `ServicesTyped` | with their modules | the type invariants of the runs |

The argument for `SoleCarrier`. It is not inductive: a heartbeat that has read a
live lease writes it back, so a lease whose key has been deleted by the sweep
would carry again. `Bookkeeping` counts such a heartbeat as a holder and adds what
rules out a rival: a row that does not exist is in nobody's hands (`UnbornRows`),
a lease is neither written, renewed nor swept before its record exists
(`EarlyLeases`, `SweptLeases`), and a sweep whose reading was overtaken by a
heartbeat meets no second one (`OutdatedSweeps`). A sweep takes an expired lease,
a heartbeat refuses one, which is why they exclude each other. Each conjunct has a
lemma of its own.

The argument for `NotLost` follows an open submission from holder to holder: each
step that takes it out of one hand puts it into another. A heartbeat may restore a
lease whose submission has been decided; that is an extra carrier of a submission
that is not open, and its next report or expiry finds the verdict stored.

The argument for the contract. `Bookkeeping` says who holds a submission, and `StageOf` is
read off the holder; `Unqueued` adds that a submission whose job was never put on the
queue is in nobody's hands. Then a step moves one submission, by one of the contract's
moves, or none (`OneMoves`), and only a failing ingest or the death of the interchanger
takes back a decision that had begun, for as many submissions as it was deciding.

The argument for the two deliveries. `AttemptsTrue`: an attempt key stands for a lease that
was issued, an attempt number of two for a second one, and a sweep gives up only such a
lease; `ReportsOnce` keeps a worker's result apart from what a sweep decided. So nothing is
given up early, whatever fails. The other direction needs the key to be there when the next
delivery looks for it: `DeliveredTwice` says of an open submission that a second delivery
leaves nothing that could bring it back, and that one which may come back has its key, or
a lease whose key is about to be written; `FreshLeases` that no heartbeat or sweep meets
that lease before. `KeysHold` is needed: a key that expires first, or a process that dies
between the lease and the key, makes the next delivery count as the first (the hazard at
`lease.service.ts:147`).

The argument for the review. `FreshReadings` says that what a request has read is
still true while nobody has written since; from that, a write that acts on a fresh
reading keeps the properties, and one that does not sets `outdated`. `TypedReadings`,
`CreatorsVerify`, `NobodyBeforeRow` and `AcceptedCounts` say which tasks can be
where.

The argument for accounts. `ReadingsHold` says that what a request has read of its
target is still true while it is not stale, and that a request about to demote has
counted another administrator; so a write on a true reading keeps every conjunct of
`AccountsInv`, and one on an outdated reading names its target in `outdated`.
`RootStays` needs no such excuse, as the refusals that protect the root's row read nothing a
request can change.

The argument for sessions. `RowsEven`: a row's password and version change together;
`TokensEven`: a token's version is that of the password it proves. An accepted token
has the row's version, therefore its password. For links, `LinksSpent`: an outstanding
link belongs to one account and has opened nothing, and confirming an address deletes
it in the transaction that opens the session.

For the browser, `BrowserInv`: a call still marked as sent with the stored token has it
(`CurrentStored`); the first request after a reload is alone until it is answered
(`BootAlone`), so nothing can be shown that it would overwrite; versions only go up
(`TokensPast`); and what is shown was read with the token that is stored, so if it
demands a password that the row no longer does, the row has a newer version
(`ViewsRead`).

The argument for settings. `SettingsInv`: every file has the row, or a request that will
name it there or delete it (`FilesHaveOwners`); a file not yet named is in one request's
hands (`UploadsApart`); a file to be deleted is not the row's (`OldFilesGo`); and a fresh
reading of any of the three rows is still true (`BannerReadings`, `JudgePart`, `MailPart`).

The argument for drafts. A text is the number of the key that made it, so two texts are
equal only if one is a copy of the other. `RowOK` says of one tab that, while no other
handler has written its draft, the draft has what the tab was told is saved, and between the
two requests of a save the text of the first; `JobOK` says of every handler, that of a page
in its tab or one left behind, that the draft it is to change exists. What is offered to
continue needs three facts about all tabs while nothing is `loose`: one tab at most holds a
problem the server does not know (`OneNewTab`), what is on its way to be created is not what
another such tab shows (`OthersDiffer`), and the texts of that tab and of the browser's copy
are `Apart` from those the server has or will be sent by any handler. None of them is
inductive without the others.

The argument for reports. `GoneInv` follows a resolution that takes action: past its
deletion the target is gone, and what is gone does not return. `ToldInv` adds that what
is pending at the closing has been listed, but for reports filed since (`Listed`), and
that two resolutions of one target at once have named it contested (`Contest`, `Sure`).

The argument for the pages of the club. `OnePress`: while presses wait for each other
there is one, and each of its stages says which parts of the screen already follow what
is stored (`Follows`). The calendar's two properties are of a page at rest and not
inductive; `ListInv` and `OwnInv` say why it will be right: the list is of the month in
view, or a newest request for that month is on its way; and it has the page's own write of
a schedule, or a newest request sent after the write is on its way, or the operation that
wrote will still reload.

The argument for the exam page has the same shape (`ExamInv`), once for each of its two
sites. `ExamKnown`: every subject on the page or in a request is a row; `ExamReads`: a fresh
answer is what is stored; `ExamLoads`: where the page is loading a request is. `ExamShows`: a
page that has not slipped either has a request that will load again or excuse it (`Due`), or
has the subjects of its exam (`SameSubjects`), their values but where an answer is
coming (`SameValues`), and their order (`InOrder`). On the home page `ExamPresses` adds that a
fresh move finds its two subjects where it was pressed, with the numbers it will exchange,
from which the two splices arrive where the sort would.

The types of the rating and of a submission's page are the two that are more than a look at
each action. That the points of a set of problems add up to a number is an induction over
finite sets. The library states it for an operator, so the proofs take instead a smallest
set of which the claim fails (`SmallestSet`, from the well-foundedness of strict inclusion)
and take one element out of it. So `SumsExist` and `SumFunctionIs` give what `FoldFunction`
computes, `AnyFirst` and `SumSplits` say that the order does not matter, `NoLess` that as
many elements of no fewer points have no smaller sum, and `LargestNumber` that `Max` has
something to return; `BestAreTop` follows. On the page (`LiveBounds`), an update is announced
once for each status a submission has had, and the joins at the gateway and on their way
(`Joins`, indices of a queue that a packet's arrival shifts) are no more than pages opened.

What a run checks of several modules side by side is what the theorems of each state: each
step of `ServicesSpec` is a step or a stutter of every module in it, and likewise for the
other three, so that all of the modules' theorems hold of the runs' specifications.

The argument for the sandbox. `Placed` says where the runner has a container.
`AgesBounded` says that, while a worker runs that has swept and could remove what it wanted
to, whatever is left is younger than its next sweep allows; it says nothing while no worker
runs or a new one has yet to sweep, so `WorkerStarts` must make the first sweep due at once:
the sweep itself restores it. `EndsAsIs` says that a container has ended in the way its
program behaves, or as the luck of its stage has it; `Decided` that all stages so far have
been passed, each for a reason that `PassesEarned` names, or the verdict is one that the
first stage not passed has earned.

The argument for the other services has the same form: what is not yet true is on its way.
Deployments: the file speaks of the one that runs, or was emptied (`FileNamesIt`), and what
it says of an ended one is so (`FileIsBehind`); what a poll was told of an ended deployment
stays true (`PageIsTold`). Problem sets (`SetsInv`): a page that is not `unaware` has seen
all that is stored of what it lists. Rating (`RatingInv`): a job will read again, or the
newest sum under way is right, or the rating is and only outdated sums are under way
(`RatingComes`), where `SumsAreOrdered` says which sum is the newer. A submission's page
(`LiveInv`): an update or a question is on its way, or the newest answer has the verdict, or
the page shows it and no older answer will replace it unmarked (`VerdictComes`). Rooms
(`RoomsInv`): the last packet about a submission is a join, or there is none and a check or
the room has it, exactly if the page is its (`WillBeIn`).

Four proofs changed a model. That of `OneDeployment` did not go through because a
deployment whose first record the disk refuses leaves its predecessor's "ok" in the file,
which lets a third one start beside it. The code does so, the two deployments of the run
could not show it, and `crossed` now names it. Those of `RatingIsTrue` and
`SettledPageIsFinal` showed that their excuses were wider than needed: a sum is `old` only
once a newer one has been written, and an answer `late` only once a newer status has been
shown (`Older`), so both properties now say more. The refinement needed `Falter`: the
contract promised a decision that a failing ingest call does not make. And `ShownIsStored`
was false as it stood: it excused a change to a list replaced meanwhile by comparing the two
lists, and of three moves two may bring back the list in which the third was pressed. With
the same move pressed twice before the first is answered, and one back, the page ends with
numbers that are not stored though every list compared was equal. The run could not show it,
since it began with one subject; now two moves that overlap mark each other (`Overtaking`),
and the run begins with one or two.

The `Bookkeeping` of `ProblemReview` is proved only; no run repeats it.

Model-checked only: `EventuallyJudged`, since liveness under fairness is beyond the proof
system. Every other property of a passing run is stated by a theorem.

## What the runs refute

`JudgingEnds` (`judge_stuck`). `submitResult` deletes the lease before it calls
the ingest endpoint (`lease.service.ts:190-194`). If that call fails, the worker
drops the result, no lease is left for the sweep, and the submission stays in
`JUDGING`. The comment at `lease.service.ts:203-204` promises the opposite. The
sweep's own report of `INTERNAL_ERROR` has the same weakness.

`ReReviewHolds` (`problem_race`). `reReviewData` decides from the status a
request has read at its start. A member's request that starts before an
administrator's approval and writes after it changes a public problem, and
nothing sends that back to review, though `problems.service.ts:972` says so.

`NeverLockedOut` (`people_lockout`). `setRole` counts the administrators and demotes
afterwards (`users.service.ts:754`). Two administrators who demote each other at the
same time both count two, and none is left; line 759 refuses to demote the last.
Where a root administrator exists `RootStays` keeps one.

`OldSocketsDie` (`people_sockets`). The gateway compares `authVersion` when a socket
connects and never again (`submission.gateway.ts:71`), and `changePassword` closes no
socket, though `users.service.ts:795` says that the raised version invalidates
WebSocket sessions from before the change.

## What is not modelled

- The order of dispatch (`queue-priority.service.ts`): what the two passes achieve is
  decided by BullMQ, a service outside of the repository; `JudgeLease` lets any
  waiting job be next, so nothing it shows depends on the order.
- The lifetime of the attempt key against that of the lease: it is the fault `ttl`.
- The limits on the number and size of test cases, the texts and tags of
  problems, their comments and difficulty votes, and the page that edits a problem once
  it has been handed in.
- Registration for a contest and its leaderboard, groups, members of a class,
  notifications, site content, API keys: rows with access rules, a statement or two for
  each request.
- Uploads other than the banner, sending mail, the limits of a container, the stateless proxy.
- The pages that load once, show, and send a form, and the Markdown editor.

A large part of the repository's lines is of the last kinds: markup, wording, access
rules. `PROJECT.json` gives the reason for each component and for each hazard that no
property covers.

## Running

    tlc -workers 2 -config JudgeLease_safety.cfg MCJudgeLease.tla
    tlc -workers 2 -config ProblemReview_review.cfg MCProblemReview.tla
    tlc -workers 2 -config People.cfg MCPeople.tla
    tlc -workers 2 -config Club.cfg MCClub.tla
    tlc -workers 2 -config Services.cfg MCServices.tla
    tlapm JudgeLeaseNotLostProofs.tla
    tlapm PeopleProofs.tla
