# Verification of the apartment voting system

TLA+ models of the voting backend (FastAPI, SQLAlchemy, SQLite), the TLC runs that check
them on small instances, and TLAPS proofs of the properties that matter most for every
number of workers, residents, topics and phones. Paths below are relative to the
repository's `src/`; line numbers are those of the modelled commit.

## 1. The system

### Components

| Component | Code | State | Operations |
|---|---|---|---|
| One-time passwords | `backend/services/otp_service.py`, `models/otp.py` | table `otp_logs`: hash, attempts, verified, is_active, created_at, expiry_time | `create_otp`, `dispatch_to_provider`, `send_otp`, `verify_otp` |
| Vote casting | `services/voting_service.py`, `models/vote.py` | tables `votes`, `vote_tracking` with UNIQUE (topic, user) and UNIQUE (topic, hash) | `get_active_topics`, `has_voted`, `cast_vote`, `get_my_vote`, `get_results`, `is_observer` |
| Accounts | `services/auth_service.py`, `models/user.py`, `models/apartment.py` | tables `users`, `apartments` | `register_user`, `confirm_registration_otp`, `login`, `verify_token` |
| Administration | `services/admin_service.py` | the tables above, `topics`, `topic_observers` | approve, reject, toggle a user; create and update apartments; create topics, set their status and observers; dashboard |
| Topics and observers | `models/topic.py` | `topics`, `options`, `topic_observers` | none of its own |
| Audit log | `services/audit_service.py`, `models/audit.py` | table `audit_logs` | `log`: a transaction of its own whose failure is swallowed |
| Reports | `services/report_service.py`, `routes/reports.py` | none | several SELECTs, then CSV or Excel |
| HTTP routes | `backend/routes/*.py` | the request's session, background tasks in the worker's memory | call the services in a fixed order |
| Sessions | `database.py`, `dependencies.py` | one SQLAlchemy session per request | rollback on an exception, token check |
| OTP providers | `services/otp_provider.py` | none | send a message, answer True or False |
| Settings, process model | `config.py`, `gunicorn.conf.py` | limits; the number of workers | worker recycling, time-outs |
| Shell | `main.py`, `middleware.py` | per-address request counters in memory | wiring |
| Interface | `ui/` (Streamlit) | the browser session (`st.session_state`) | wizards that call the HTTP API |
| Scripts, deployment, load test | `scripts/`, `nginx/`, `docker-compose.yml`, `tests/locustfile.py` | none at run time | set-up; a load generator |

### How they interact

- A request is one `async def` handler with a synchronous body. One worker process runs
  one handler at a time, so handlers interleave only across workers: up to eight
  (`gunicorn.conf.py:17`), all of them on one SQLite file.
- The services of one request share one session. A SELECT sees the last committed state;
  the first INSERT, UPDATE or DELETE takes SQLite's write lock and the block up to the
  COMMIT is atomic. SQLAlchemy writes only the columns that changed, as absolute values of
  the copy that was read, and addresses rows by primary key. So what a handler does
  between two steps is done on what it read, however old.
- `POST /auth/register` calls `register_user`, then `create_otp`, and queues the delivery
  as a background task. `POST /auth/verify-otp` calls `verify_otp`, then
  `confirm_registration_otp`. `POST /vote/initiate` checks the topic, then `create_otp`;
  `POST /vote/cast` calls `verify_otp`, then `cast_vote`.
- An administrator changes topics and accounts at any time; nothing locks them against the
  voters' handlers.
- `AuditService.log` runs after the commit of what it logs, in a second transaction.

### What is hard

1. *Interleaving across workers*: every check-then-write pair is split over two
   transactions (rate limit, attempts, single use, phone known, apartment full, already
   voted, topic open). Some pairs are backed by a UNIQUE constraint, others are not.
2. *Stale copies*: `attempts += 1`, `status = ...` are computed from an earlier SELECT.
3. *Partial failure*: vote and tracking row; vote and audit row; account and OTP; a
   handler that dies after its commit and before its answer.
4. *Restarts*: background tasks and answers are lost with the worker; rows are not.
5. *Identifiers*: deleting a row lets SQLite give its id to another one.
6. *Boundaries*: the voting window at both ends; the attempts limit; the voter limit.
7. *Long sequences of legal calls*: reject, disable and enable in any order.
8. *Time-outs and clicks*: the interface gives up after 15 s (`ui/utils/api_client.py:32`),
   and a click restarts the script that waits; the worker does not notice, and the resident
   tries again while the first request is still running.
9. *Pictures of the past*: an administrator decides on a list shown some time ago; a token
   carries a user id for hours; a browser is handed from one resident to the next.

### What makes each component correct

- **OTP**: a phone and purpose have one live OTP; a dead one is never revived; it serves
  once; guesses and requests are limited; a message sent has a row to match.
- **Voting**: one vote per resident and topic; vote and tracking row in pairs; answers
  that agree with the tables; nothing is accepted for long after a topic closed; the audit
  trail claims no vote that was not counted.
- **Accounts**: one account per phone; an id never means another person; only a
  verified registration is approved; an account past its OTP is not set back; rejection
  lasts; the apartment's limit is kept.
- **Reports**: the counts of the options cover the total they are percentages of, although
  both are read while votes arrive.
- **Topics, observers**: two saves of an observer list at once strike off nobody a save
  had not seen there, and add nobody it had not named; counts reach only residents whom the
  route they asked admits.
- **The vote, end to end**: what is counted is what the resident picked, or found when
  logging in over somebody's open session; what the page shows as recorded is counted;
  behind each vote is an acceptance of its voter's OTP that stands behind no other vote.
- **The account, end to end**: an id on a screen or in a token goes on to mean the same
  registration; a token means an OTP taken and an approval given for that registration;
  a page that asks for a code has an account waiting for it.

## 2. Modules

| Module | Models | Kind |
|---|---|---|
| `OtpDesk` | what the OTP service promises to the routes | abstract specification |
| `OtpService` | `otp_service.py` over `otp_logs` | component; implements `OtpDesk` |
| `BallotBox` | what voting promises | abstract specification |
| `VotingService` | `voting_service.py`, its audit row, and what administrators change under it | component; implements `BallotBox` |
| `AccountBook` | what account handling amounts to where one worker runs it | abstract specification |
| `Residents` | `register_user`, `confirm_registration_otp`, user and apartment operations of `AdminService` | component; with one worker implements `AccountBook` |
| `Reports` | `get_results` and `get_topic_report`, reading `VotingService`'s tables | composition: extends `VotingService` |
| `TopicAdmin` | `create_topic`, `set_topic_observers`, the residents' ways to the counts | composition: extends `Reports` |
| `VoteFlow` | the vote wizard, `routes/voting.py`, the resend route | composition: extends `VotingService`, with `OtpDesk` |
| `AccountFlow` | the registration wizard, `routes/auth.py`, the administrators' user routes and pages | composition: extends `Residents`, with `OtpDesk` |
| `MCOtpService`, `MCVotingService`, `MCResidents`, `MCTopicAdmin`, `MCVoteFlow`, `MCAccountFlow` | instances for TLC (`Reports` is checked through `MCTopicAdmin`) | model checking |
| `OtpDeskProofs`, `OtpServiceProofs`, `VotingServiceProofs`, `ResidentsProofs`, `ReportsProofs`, `TopicAdminProofs`, `VoteFlowProofs`, `AccountFlowProofs` | theorems about the module they are named after | proofs |

The grain is the same in every component: **one action is one autocommitted SELECT, or one
write transaction**. Per worker, `pc` says between which two steps its handler is and `req`
holds the handler's locals, among them the columns it read. `Abort` ends a handler at any
step (exception, "database is locked", time-out, killed worker): `get_db` rolls back what is
not committed, and what is committed stays. A request refused by its first SELECT changes
nothing and is a stuttering step. Definitions under a comment "Variant" are alternatives a
plausible bug would give; no specification uses them: they are substituted for the
definition after them to see that a property notices.

### OtpDesk and OtpService

`OtpDesk` keeps of an OTP its key and whether it is live. Its steps are `Issue`
(`create_otp`), `Load` (the SELECT of `verify_otp`), then `Accept`, `Exhaust` or `Refuse`
(its three ends), and `Revoke` (a delivery that failed). Codes, times and attempts are gone:
whether a code matches, or a new OTP is refused, is open. The flows use it instead of
`OtpService`, which would make them too large; `ImplementsDesk` justifies that.

In `OtpService`, `otp_logs` is the table, a sequence whose positions are the ids (rows are
never deleted); `outbox` the background tasks queued in the workers' memories; `ghost` and
`accepts` are history.

| Code | Action |
|---|---|
| `create_otp`, rate-limit SELECT (`otp_service.py:98`) | `CreateOtp` |
| invalidate, INSERT, COMMIT (107-123); route queues the message | `CreateWrite` |
| background `provider.send_otp` | `Dispatch` |
| `send_otp` delivered / failed and invalidated (149-169) | `SendDelivered`, `SendFailed` |
| `verify_otp` SELECT (180-192) and the limit (201) | `VerifyLookup` |
| too many attempts, COMMIT (202-203) | `VerifyExhausted` |
| `attempts += 1`, COMMIT (210-211) | `VerifyCount` |
| compare, mark used, COMMIT (213-225) | `VerifyCompare` |
| gunicorn recycles the worker | `WorkerRestart` |

No route calls `OTPService.send_otp`: every route calls `create_otp` and hands the message
to the provider in a background task. `SendDelivered` and `SendFailed` model it as it
stands.

`Courses` says how far a row can have come with its workers: for each count up to the
limit, how many workers are past it, none of them able to set the row back below it.
`GuessRaceBounded` counts them: an OTP is compared at most C(n + m, m) - 1 times with n
workers and a limit of m, which is m for one worker (the README's limit), 9 for two workers
and 164 for eight with the limit of 3.

A hash keyed by a secret is a term of its two arguments. Codes are drawn from a small set,
so equal codes of different rows do occur. Two rows created at one instant may be returned
in either order, as the ORDER BY allows.

### VotingService and BallotBox

`votes` and `vote_tracking` are sequences of rows; options, modes and windows are constants
because no code updates them. `authorised` is what `get_current_user` and `cast_vote` see of
an account: approved and active. `told` collects the answers voters received.

| Code | Action |
|---|---|
| `cast_vote`: check the user (112-113) | `CastUser` |
| topic status, window, option (115-133) | `CastTopic` |
| `has_voted` (135) | `CastTracking` |
| INSERT vote, INSERT tracking, COMMIT, IntegrityError (138-175) | `CastCommit` |
| `AuditService.log` and the answer (177-194) | `CastAudit` |
| `get_my_vote`, two SELECTs (215-237) | `MyVoteTracking`, `MyVoteRow` |
| `update_topic_status`, `toggle_user`, time | `UpdateTopicStatus`, `ToggleUser`, `Tick` |

`BallotBox` states the promise with neither workers nor tables: ballots only grow, one per
voter and topic, and "recorded" or "already voted" is said only when it is true.
`ImplementsBallotBox` maps the tables to it: the ballots are read off `votes`, the voter of
an anonymous row being the one the hash was made for.

### Residents and AccountBook

`users` and `apartments` are functions from ids and numbers to rows or `NULL`; a new user
gets the highest id plus one, as SQLite gives it. `verified` and `owner` are history.

| Code | Action |
|---|---|
| `register_user`: phone SELECT (79-91) | `RegisterSelect` |
| apartment SELECT (93-96) | `RegisterApartment` |
| count (98-117) | `RegisterCount` |
| INSERT user, COMMIT; with a new apartment | `RegisterInsert`, `RegisterCreate` |
| restart: DELETE by id, then all of the above under the lock (83-126) | `RegisterRestart` |
| `confirm_registration_otp` SELECT, UPDATE | `ConfirmSelect`, `ConfirmCommit` |
| `approve_user`, `reject_user`, `toggle_user` | `Approve...`, `RejectUser`, `Toggle...` |
| `create_apartment`, `update_apartment` | `CreateApartment`, `UpdateApartment` |

An UPDATE on a row that is gone raises `StaleDataError` and changes nothing; a DELETE of one
is only a warning. A confirmation may come whenever a row is `pending_otp`: any phone can
obtain a registration OTP through `/auth/resend-otp`.

`AccountBook` forgets ids, `is_active`, handlers and copies: a set of entries, one per
phone, each with apartment, status, and whether its phone was checked and a password given.
A step makes one new entry, in the place of the one its phone had: registered, registered
again while the check is open, confirmed, approved, rejected, disabled or enabled.
`ImplementsBook` reads the entries off `users`: a restart that deletes a row and inserts
another under the same id is one step of the book, an approval that changes three columns
too. It holds for one worker; section 5 says what a second one can do.

### Reports

`Reports` extends `VotingService`: its steps are those of `VotingService`, the reader's
variables unchanged, and those of the readers (`rpc`, `rep`), the tables unchanged. A count
is the set of rows counted, so that a property can say *which* votes are in it.

| Code | Action |
|---|---|
| `get_results`: topic, options (`voting_service.py:252-270`) | `ResultsOpen` |
| `get_topic_report`: topic (`report_service.py:27-40`) | `ReportOpen` |
| tracking rows counted (41-45) | `ReportTotal` |
| votes of one option counted, added to the total by `get_results` only | `CountOption` |
| percentages and answer | `Assemble`, `Answer` |

Between `ReportTotal` and the last `CountOption` votes arrive: the parts of a report may
exceed its total. `ReportAddsUp` states what remains: the counts cover the total, and the
total covers every vote cast before the count began.

### TopicAdmin

`created` says which topics have a row, `observers` is the table `topic_observers`; both are
written by administrators, each in a worker of his own, while voters and readers go on.
`viewer` is the resident a reader's request came from and the route that was asked, `NULL`
for an administrator; `rights` is history: what that resident has been, observer or
authorised, since the request.

| Code | Action |
|---|---|
| `create_topic` with its options and observers (`admin_service.py:194-247`) | `CreateTopic` |
| `set_topic_observers`: SELECTs (277-289) | `SaveSelect` |
| flush and COMMIT: the difference to the list read, or an exception (290-291) | `SaveCommit`, `SaveAbort` |
| `/vote/topics/{id}/results`, `/reports/topics/{id}`: the account (`dependencies.py:15-27`) | `Ask` |
| `is_observer` (`routes/voting.py:168`), then `get_results` | `CheckObserver` |
| `topic_report` (`routes/reports.py:25-34`) | `BeginReport` |
| the handler dies | `AskAbort` |
| `get_results`, `get_topic_report`, counting | `Read`: a step of `Reports` |

### VoteFlow

`wizard` is `st.session_state` per browser session: the resident logged in, the step
(`list`, `otp_pending`, `voted`), topic, option, and whether an answer is awaited. `serving`
says per worker which request it runs, for which session, and how far the route has come;
within `cast_vote` the handler's steps are those of `VotingService`, within `verify_otp`
those of the desk. `picked` (ballots asked for in the wizard), `handed` (choices found in a
session by whoever logged in over it, with the step found) and `vouchers` (per vote, the
acceptance that let it through) are history.

`_do_login` replaces token and user and nothing else, and the login page can be had while
somebody is logged in ("Setup Admin", "← Back to Home", "Login to Vote"). So `Login` leaves
step, topic and option of the session as they are. A resident who logs in over another's
session at the confirmation can ask for an OTP and cast the other's choice; one who does so
at "Vote Recorded!" is shown the other's vote. `HandedOn` is what this adds to what was
picked or counted, and the properties allow no other way.

| Code | Action |
|---|---|
| `_do_login` (`ui/page_modules/login.py:63-77`), `logout` (`ui/utils/components.py:33-37`) | `Login`, `Logout` |
| `ui/page_modules/vote.py`: pick and send, confirm, resend, cancel, back | `Pick`, `Confirm`, `ResendOtp`, `Cancel`, `BackToTopics` |
| the client's time-out, or a click that restarts the script | `GiveUp` |
| `/vote/initiate`: token, `has_voted` (`routes/voting.py:94-102`) | `InitiateVote` |
| `create_otp` or 429, also for `/auth/resend-otp` | `IssueOtp` |
| `/vote/cast`: `verify_otp` (136-140) | `CastVerify`, `CastVerdict` |
| `cast_vote` (143-151) | `CastBegin`, `CastGoes`, `CastEnds` |
| the handler dies | `RouteAborts` |

A request that was given up keeps running without a session (`Orphan`): its effects stay,
its answer is heard by nobody.

### AccountFlow

`otp_step` is the set of phones whose wizard asks for the code, `page` what an
administrator's screen shows, `tokens` the tokens given out, each with the account as it was
then. `reviewed` and `born` are history: what administrators approved, as it was shown, and
how many OTPs had been taken when a row was inserted.

| Code | Action |
|---|---|
| `/auth/register`: `register_user`, then `create_otp` or 429 (`routes/auth.py:36-69`) | `Register`, `RegisterGoes`, `RegisterOtp` |
| `/auth/register/verify-otp`: `verify_otp`, `confirm_registration_otp` (72-86) | `Verify`, `Verdict`, `ConfirmBegins`, `ConfirmEnds` |
| `/auth/resend-otp`; "Re-enter details" (`ui/page_modules/register.py`) | `ResendOtp`, `ReEnterDetails` |
| `/auth/login` | `Login` |
| pending list shown; approve and reject by the id shown (`ui/page_modules/admin_panel.py`) | `ListPending`, `Approve`, `Reject`, `AdminEnds` |
| disable, enable; apartments | `Toggle`, `AdminEnds`, `AdminApartment` |
| the handler dies | `RouteAborts` |

`WizardMoves` lets the page stay where it is although the request succeeded: the client gave
up. Whoever was approved is assumed to know the password, the permissive case.

## 3. What the runs check

| Run | Instance | Shows |
|---|---|---|
| `otp_workers` | 1 phone, 2 codes, 2 workers, limit 2, clock 0..2, 2 rows | what several workers keep: one live OTP per key, no revival, one acceptance and one OTP per window *and worker*, a message always has its row; a race wins at most 5 guesses; `OtpDesk` is implemented |
| `otp_single` | 2 phones, both entry points, 1 worker, limit 3, clock 0..3 | the documented promises with one worker: three guesses, single use, one OTP per window |
| `otp_guess_race` | as `otp_workers` | *violation*: more guesses than the limit |
| `voting_race` | 1 resident, 2 workers, 2 topics, 2 options of the identified one, windows that end with the first instant, clock 0..1 | one vote, pairs, honest answers, no phantom audit row, `BallotBox` implemented, every cast ends |
| `voting_anonymity` | 1 resident, 1 worker | *violation*: the audit row of an anonymous vote holds resident and option |
| `residents_two` | 2 phones, 1 apartment, 3 ids, 2 workers | one account per phone, an id keeps its phone |
| `residents_limit` | 2 phones, 1 apartment, 1 worker | *violation*: the voter limit is exceeded |
| `residents_enable` | 1 worker | *violation*: approved without a password |
| `vote_flow` | 2 residents at one browser, 2 workers, 2 anonymous topics, 1 OTP each | one anonymous vote each; what is counted was picked, or found at a log-in over the session that held it; what is shown as recorded is counted; every vote has an acceptance of its voter's OTP to itself, and an OTP lets one vote at most through each worker |
| `vote_handed` | 2 residents at one browser, 1 worker, 1 topic | *violation*: a resident's vote was selected by another |
| `account_flow` | 2 phones, 1 apartment, 3 ids, 2 OTPs, 1 worker | columns stay consistent, nobody registers past the limit, `AccountBook` is implemented, so that rejection lasts and no account is set back; ids on screens and in tokens keep their meaning; a token was earned; a page that asks for a code has an account |
| `topics` | 2 residents, 1 anonymous topic open at one instant, 2 options, 1 voters' worker, 1 reader, 2 administrators | counts cover totals; one late vote per worker; the list agrees with the check; saves touch what they saw; counts reach residents only over a route that admitted them |

**Bounds.** Two workers give every race of the code, for each check is separated from its
write by one gap and a handler reads a row once. One resident through two workers is the
race for one ballot; a second one adds only rows that the constraints and SELECTs of the
first ignore, and is there where votes are counted (`topics`) or a browser is shared
(`vote_flow`). Two OTP rows let one supersede the other; the clock covers a window before,
inside and after the rate limit and the expiry. A window of a single instant makes both of
its ends happen. Two phones and three ids let an id be freed and given again while another
handler holds it. In `vote_flow` one browser session suffices for concurrent requests of one
resident, because those it gave up keep running in the other worker; two topics let a late
answer arrive for the topic that was left. `MaxTime`, `MaxLogs`, `MaxOtps`, `MaxRows` and
`MaxId` bound clock, OTP rows and ids in the guards; `late` stops counting at 2, where the
property has already failed; `guesses` needs no bound, because the race has one. With two
workers and a limit of 2 the run has as many guesses as `GuessRaceBounded` allows (5), so
the bound is exact. Two runs have a CONSTRAINT: `topics` goes on only from states with at
most two requests under way (`TwoProcesses`: every pair of a voter, a reader and two
administrators, not three at once), `vote_flow` from those with at most three of the four
choices made, or one choice and one log-in over the session that holds it (`FewChoices`).
After such a log-in the second resident has no OTP yet, so the resend issues one there;
elsewhere in that run it meets the rate limit. In `vote_flow` and `topics` the audit rows
and histories that no guard and no property of the run reads are left out of the VIEW, and
in `vote_flow` the choice that a session at the list, or a request for another OTP, still
carries. Symmetry is used where no property names a member of the set, and not in the run
with a liveness property. `NoDoubleVote` is checked for identified topics in `voting_race`
and for anonymous ones in `vote_flow`. The theorems below remove the bounds, the constraint
and the view.

**Deadlock** is checked in every run: administrators and voters can always begin something.

**Fairness** (`FairSpec`, run `voting_race`): weak fairness of the steps of the running
handler of each worker. It is what the code gives: a handler is straight-line code, its body
never awaits another handler, and a worker that stops is killed by gunicorn's time-out,
which is `Abort`. Nothing is assumed of administrators, of voters or of the clock. A
transaction is one step, so the wait for SQLite's lock is not modelled, and `CastAnswered`
says nothing of it; it says that no sequence of reads and answers leaves a handler stuck.

## 4. What is proved

With TLAPS, for all values of the constants that satisfy the named assumptions
(`OtpAssumption`, `VotingAssumption`, `ResidentsAssumption`, `FlowAssumption`,
`TopicAdminAssumption`: types of the constants, that `NULL` is not a value, and that "draft"
is a status). A theorem whose name begins with `SingleWorker`, and `HeldIds`, `Approved` and
`FlowAccounts`, assume that `Workers` has one member, `LoneSave` that `Admins` has;
`GuessRace` and `AtMostOneEach` assume that `Workers` is finite. Every property of a passing
run has a theorem, but for the liveness.

**OtpDeskProofs.** `Keeps`: a step keeps the key of every row and every acceptance; both
flows cite it through INSTANCE. `DeadStay`: no step revives a row. `TakenOnceEach`: one
worker takes a password at most once (a row it holds was live when it was loaded, and dies
by being taken).

**OtpServiceProofs.** `Typing`. `DeadRowsStayDead` rests on the lemma `RowsKept`: every
write keeps key, hash and creation time of every row, keeps the table's length or appends
one row, and never sets `is_active` of an old row. With that, `OneActive` is inductive: only
`CreateWrite` makes a live row, and it invalidates the key's others in the same transaction.
`AcceptOnce` needs the strengthening `AcceptInv`: an accepted row is dead, and a worker
between SELECT and comparison has not accepted that row, which is true because it was live
when that worker loaded it and the worker does one thing at a time. `Spaced` needs
`SpacingInv`: a worker about to insert has no row of that key younger than the limit,
because time passes only forward and it is the only one that inserts as itself.
`SingleWorkerSingleUse` and `SingleWorkerRateLimit` are the instances with one worker: the
documented promises. `OnRecord` rests on rows being appended only. `SingleWorkerBudget`
needs `BudgetInv`: a row has had at most as many guesses as it counts attempts, and the
count a handler is about to write back is the one in the row; the latter is true of one
worker only.

`GuessRace` is what remains of that limit for several workers, and holds although increments
are lost and the count is set back. Counting attempts proves nothing then, so the measure is
the row's course (`Progress`): for each count k, the number of workers past it (`Past`: the
row counts k, and the worker holds no copy with less). Writing a count takes the course to
a later one in lexicographic order, even when it sets the count back, because the worker
gives up its own stale copy, and below the smaller of copy and count nothing changes
(`CountMovesOn`). A handler that dies with a stale copy moves it on as well, and everything
else leaves it (`OthersMoveOn`, `CompareStaysPut`, `OtherRowStaysPut`). The invariant
`RaceInv` says that comparisons made and about to be made are no more than the courses left
behind; there are finitely many courses (`CoursesFinite`), and the one the row is on is not
behind it. No induction over the limit or the number of workers is needed.

`Implements` maps each step to a step of `OtpDesk` or a stutter, a row becoming
its key and `is_active`, a handler between SELECT and comparison its loaded row.

**VotingServiceProofs.** The invariant is `TableInv == Paired /\ Distinct /\ Handlers`:
position by position the vote and its tracking row were made for one resident, topic and
option; no two positions are of one resident and topic; a handler past `CastTopic` holds an
option of its topic. The lemma `Lookups` is the heart: on paired tables the SELECTs of
`has_voted`, the two UNIQUE constraints (NULL columns included) and the lookup of
`get_my_vote` all say "this resident has a pair", in either mode. `NoDouble` and `Matching`
follow. `OneLateVote` needs `LateInv`, which says how many votes a worker can have landed at
each step of its handler since the topic was last open. `Implements` shows each step to be a
step of `BallotBox` or a stutter; it needs `Landed`, that a handler which is about to answer
has its ballot in the box. `NoPhantom` needs `AuditInv` (an audit row names a ballot in the
box, one per resident and topic, and of the handlers about to log no two have the same pair,
nor one that is logged already), `MineHonest` needs `MineInv` (a handler between the two
SELECTs of `get_my_vote` has a ballot to find). `ListedAccepted` compares the two window
checks at every instant.

**ResidentsProofs.** `OneAccount` and `StableIds` follow from `IdInv`. The id of a deleted
row comes back only if it was the highest, so the invariant says that no id beyond the
highest in use has ever been given (`AboveUsed`), that the row just below the highest is
there, so that deleting the highest makes its own id the next one (`TopFollows`), and that a
restarting handler holds an id of its own phone (`RestartsOwn`). `SingleWorkerCredentials`
and `SingleWorkerPastOtp` use `OneInv`: with one worker what a handler read is still so when
it writes (`Fresh`), and each row's columns agree (`Good`). `SingleWorkerFlags` and
`SingleWorkerRejection` follow. `SingleWorkerLimit`: an apartment's count, taken by the
handler that inserts, is still the count when it inserts. `SingleWorkerBook` shows each step
to be a step of `AccountBook` or a stutter; it rests on `Fresh` and `Good` too, and on
`OneAccount`, without which an entry would not be *the* entry of its phone. No run lists
`PastOtpKept` and `RejectionSticks`: a book that neither sets an entry back nor approves a
rejected one has both.

**ReportsProofs.** `Underneath`: a run of `Reports` is, its readers hidden, a run of
`VotingService`, so what is proved of the tables holds under the readers. `AddsUp` needs
`ReportsInv`: in the middle of a count every row of the total is counted already or belongs
to an option still to be counted. It rests on `Matching`, because the total is taken from
one table and the counts from the other, and on `VotesGrow`: rows are appended and never
changed.

**TopicAdminProofs.** `ReportsUnderneath`: with observers and viewers hidden, a run of
`TopicAdmin` is one of `Reports`, so the theorems on totals and tables hold under it.
`SavesTouch` needs no more than that a save is of an existing topic (`SavesExisting`).
`TopicsKeepVotes` carries those over: one vote each, votes and tracking in pairs, few late
votes, lists that agree with the check, totals that add up, the ballot box. `LoneSave`: with
one worker for the administrators a save is never rolled back and leaves exactly the
residents it chose, because the list it read is still the list (`Current`); with two,
`SavesTouch` is what is left. `AdmittedCounts` needs that `rights` only grow during a
request (`RightsGrow`) and that a resident's reader that counts does so on the topic and
over the route asked for, past that route's checks (`Admitted`).

**VoteFlowProofs.** `Underneath` and `DeskUnderneath`: hiding the rest, a run of `VoteFlow`
is one of `VotingService` and one of `OtpDesk`; what is proved of those holds in it.
`AsChosen` needs `WizardInv`: what a request asks, and what a session at `otp_pending`
holds, was picked by its resident or found by logging in over the session that held it
(`AskedPicked` and `HeldPicked`, over `Chosen`, which only grows: `ChosenGrows`), a session
logged out is back at the list (`LoggedOutIdle`), and the request a session waits for is its
own and of the step it is at (`Agrees`): that fails as soon as a given-up request could
still answer. `LoginKeeps` is the step that had to be looked at: a log-in over a session
leaves what it holds in `handed`, and nobody serves that session then (`NobodyServes`).
`Confirmed` adds `ShownVotes`. `Vouched` needs `VouchInv`: a route past its verdict holds a
ticket, an acceptance of the resident's own OTP, that stands behind no vote and that no
other route holds. `VotesPerOtp` combines it with `TakenOnceEach`: one worker casts one vote
with an OTP, which `VotesVouched` includes; so n workers cast at most n (`AtMostOneEach`, by
an injection of those votes into the workers) and one worker one (`SingleWorkerOtp`).
`FlowNoDouble` and `FlowImplements` carry the service's promises over to the composition.

**AccountFlowProofs.** `Underneath` and `DeskUnderneath` as above, for `Residents` and the
desk. `Wizards` holds for any number of workers: a route between the account's COMMIT and
the OTP has a row of its phone (`Registers`), since a row is only deleted by a restart,
which inserts one of the same phone in the same transaction (`AccountsStay`; the restart's
id is of its own phone by the invariant `IdInv` of `ResidentsProofs`). `HeldIds` and
`Approved` are for one worker and need `TrailInv`: a verified row has an OTP taken after it
was inserted (`VerifiedVouched`, with `BornBefore`); credentials mean that the registration
was reviewed as it stands (`CredentialsReviewed`); what is on a screen or in a token stands
(`HeldStand`); tokens were earned (`TokensEarned`); and what the handler has read is still
so (`Knows`). With a second worker `HeldStand` fails, as section 5 says of restarts.
`RowsMove` lists what a step can do to a row, once for all of these. `FlowAccounts` carries
what `ResidentsProofs` shows for one worker over to the routes.

`TokensAreOwners` is what several workers leave of `Approved`. A restart may delete a row
that another worker has confirmed or approved meanwhile, so a token can be for an apartment
that nobody reviewed (TLC finds it with two workers and two apartments in 15 steps). But
its id never meant another phone, that phone took an OTP, and an administrator approved that
id as that phone's. `OwnerInv` says so of tokens, of pages, of rows with the columns that
follow from it, and of what a handler holds (`KnowsOwner`); it rests on `owner`, which never
changes its mind about an id (`OwnersStay`, from `IdInv`), where the one-worker proof rests
on the rows.

**Only model-checked**: the liveness property `CastAnswered` and, with it, that its fairness
conditions are enabled when they should be; TLAPS proves neither liveness under fairness nor
ENABLED. No module has a RECURSIVE operator, so nothing is left out on that account. The
closed form C(n + m, m) of the number of courses is arithmetic that TLC confirms for the
values of the runs: the theorem speaks of the set itself. The five runs of section 5 refute
their properties, so there is nothing to prove of them, but `SingleWorkerBudget` proves the
first of these properties for one worker, and `GuessRace` says by how much it can fail.

## 5. Where code and documentation differ

Each is a run that TLC ends with a counterexample; `PROJECT.json` quotes the lines.

- `otp_guess_race`: two workers read the same `attempts` and write the same increment. The
  same gap lets two workers accept one OTP and create two in one window; what remains true
  of several workers is `GuessRaceBounded`, `AcceptOncePerWorker` and `SpacedPerWorker`.
- `vote_handed`: a log-in over an open session keeps the step, topic and option of the
  resident before, so a vote may be counted that its voter never selected.
- `voting_anonymity`: the VOTE_CAST row of an anonymous vote stores user and option.
- `residents_limit`: the limit is checked at registration only and does not count the
  registrations waiting for their OTP. `AdmittedWithinLimit` is what one worker keeps of it.
- `residents_enable`: disabling and enabling a pending registration approves it, without a
  password.

`CredentialsFollowVerification` and `ImplementsBook` are checked and proved for one worker.
With a second one, a restart deletes by id the row it read as `pending_otp`, whatever became
of it (`auth_service.py:82-87`), and an approval writes over a rejection or a disabling that
came after its SELECT (`admin_service.py:48-60`); the code has nothing against either, and
no run shows them. `TokensAreOwners` is what remains true of tokens, `residents_two` checks
what remains of phones and ids.

**The counts of a topic.** `/reports/topics/{id}` asks for an approved account and nothing
more (`routes/reports.py:25-34`), so any resident has the full counts of any topic at any
time. The interface says otherwise: `ui/page_modules/vote.py:9-10` "Full aggregate results
are restricted to appointed election observers + admin", `admin_panel.py:281-282` "All other
voters see only their own vote", `:352` "results not visible to voters". And
`vote.py:254-256` makes them "available only to appointed election observers after the voting
window closes", a time that neither `/vote/topics/{id}/results` nor `get_results` looks at.
`CountsToAdmitted` states what the code does, with the report as one of the ways, and must
not be read as the promise of these lines. That they are not kept follows from the routes as
they stand; it takes no interleaving, and there is no run for it.

`otp_service.py:160` says of the invalidation after a failed delivery "so the user can retry
immediately without rate-limit wait"; the rate limit counts invalid rows too (53-64), so it
would refuse the retry. No route calls `send_otp`, so no resident meets this.

The audit row of a vote can be missing: its transaction fails alone
(`audit_service.py:37-41`) or the worker dies before it. `NoPhantomAudit` states what holds:
the trail never claims too much.

Also without a run, since no line promises otherwise: a generated password that is lost with
its answer cannot be had again, because `approve_user` refuses an approved account.

## 6. Not modelled, and why

- Providers, schemas, scripts, shell and deployment: no state that the other parts read. The
  outcomes of a provider are the inputs of `Dispatch` and `Send...`; schemas restrict the
  inputs.
- Password hashing and token signing: one-way terms at most. A token's expiry is a request
  refused.
- The bootstrap of an administrator (`routes/admin.py:35-68`): a SELECT and an INSERT of an
  account that is approved at once, under a key from the environment. Administrators neither
  register nor vote in the models. Its comment says "One-time"; the code does not look
  whether there is an administrator already.
- The request limits per address (`main.py:30` and the decorators of the routes): counters
  in memory; a request refused changes nothing.
- The dashboard and the report pages: single reads that are shown.
- `TopicAdmin` takes an account as approved when it is `authorised`, approved and active;
  the code's filter on observers reads the status alone (`admin_service.py:225-233,
  277-289`). The two agree where `FlagMatchesStatus` holds, with one worker.
- `RegisterRestart` leaves out that the ORM sets `user_id` to NULL in rows that refer to the
  deleted user. Where one worker runs, that user waits for an OTP and has neither votes nor
  tracking rows; only the audit rows lose their link.
- `HeldIdsKeepMeaning` covers the ids of the pending list and of tokens. What the "All
  Voters" list showed is not kept: `Toggle` may name any id at any time, with either value.
- CSV and Excel layouts, and the rendering of the interface: formatting.
- The connection pool, and the exact wait for the write lock: a wait that fails is `Abort`.
- PostgreSQL, which the README offers as a migration: its isolation differs from what is
  modelled here.

## 7. Plan

Done: the components `OtpService`, `VotingService`, `Residents`, `Reports`, `TopicAdmin`;
the abstract `OtpDesk`, `BallotBox` and `AccountBook` with their refinements; the
compositions `VoteFlow` and `AccountFlow`; theorems for all of them, and for several workers
the bounds that remain (`GuessRace`, `AtMostOneEach`, `TokensAreOwners`). What is left:

1. `AuditTrail`: an abstract log of every action, implemented up to lost rows, as
   `NoPhantomAudit` states it for votes.
2. The lost password: a way back is a decision about the program; once it is made, a
   liveness property of `AccountFlow`.
3. Two workers in `AccountFlow`: `HeldIds` and `Approved` need the restart to look at the
   row it deletes; the invariant is ready for it.
4. PostgreSQL: `VotingService` and `Residents` under read-committed isolation.
