# TLA+ models of nlh4j

nlh4j is a library of Java modules for web, desktop and Android applications (Spring, Quartz,
Doma, MongoDB, WebSocket) with the pages of an administration client in AngularJS. Most of its code
is stateless helpers, adapters of other libraries and vendored JavaScript. The models in this
directory are of the parts that keep state which several threads, several processes, overlapping
requests or a crash can get at: the parts whose errors a unit test hardly reaches.

Every definition that stands for code is listed in `PROJECT.json` under `map`, with the file and
the lines it translates. What is marked external there (Quartz, the job store, JavaMail and the
mail server, the websocket container, `java.util` iterators, a subclass's `run()`) is modelled
from how the code uses it. Paths of pages are given below relative to
`src/modules/web-client/src/main/java/META-INF/resources/WEB-INF/resources/js/`.

## 1. Inventory

| Part | State it keeps | Operations | Who calls them |
|---|---|---|---|
| `MultiThreading` (utilities) | list of child threads, `sharedData` map, interrupt flags | `run`, `addTask`, `removeTask`, `setSharedData`, `interrupt`, `close` | its own thread and any client thread |
| Chat room: `ChatServiceImpl`, `TextWebSocketHandler` (core) | `conns` (synchronized set), `nickNames` (concurrent map) | open, message, transport error, close | threads of the websocket container |
| Job scheduler: `JobSchedulerImpl`, `JobSchedulerUtils`, `BaseIntervalJob` (core) | the Quartz scheduler and its persistent job store | `schedule`, `start`, `shutdown`, `reschedulerJobsInStore`, pause, resume, unschedule, delete; `execute` with `removeMe` | application threads, Quartz workers, server start and stop |
| Start date of a job: `BaseIntervalJob.setStartDate`, `DateUtils` | `startTime` of the job | `setStartDate`, `setStartTime`, the delay in `schedule` | whoever schedules a job |
| Incoming mail job: `AbstractIncomingEmailJob` (core) | the read flags of an IMAP inbox | `doJob`, `processMessages` | Quartz workers (it is a `BaseIntervalJob`) |
| SQL file repository (core) | three concurrent maps | look-up, lazy creation, `clearCache` | request threads |
| Mongo observers: `SimpleObserve`, `ObserveThread` (mongo) | `observed` flag, position in the change stream | `observe`, `observeResume` | threads; `ObserveThread` is a `MultiThreading` |
| Android tasks and player (android) | attempts, exceptions; player, handler | `doInBackground`, callbacks; play, pause, seek | main and background thread |
| Login and online users (web-core) | rows of online users | login, logout, listing | request threads |
| Role assignment screen: `S0102.js` (web-client), `SystemRoleServiceImpl` (web-base) | two lists of roles, their caches of selected rows, validity of the form, the identity of the group; the roles of the group, and which modules are offered | `onGroup`, `onRoles`, `onSelect`, `onAssign`, dragging, `onSave`; `searchRolesBy`, `saveOrUpdate` | the user, and the answers of the server in any order |
| List screens: `S0101.js` and others (web-client), `SystemRoleServiceImpl`, `AbstractMasterController` | the page of rows, `searching`, the requests under way; the groups | `onSearch`, paging, `onDelete`; `findEntities`, `delete` | the user and the answers of the server |
| Page block: `config.js`, `factories.js`, `ajaxService` of `services.js` (web-client) | the backdrop, its spinner and notice, `__backdropOnLoad`, `__offline`, `_offBackdrop`, the listeners of `$$digest` | `turnBackdrop`, `turnOffline`, `$digest`, load, server check, `post` | every task of the browser |
| Socket client (web-client) | one STOMP connection, its subscriptions | `onSocket` | the notification directive |
| User administration (web-base) | database rows | save, delete | request threads |
| Filters, interceptors, controllers, pagination, templates, thumbnailers, license check, SMS, FCM, numbers in words, utilities | none that outlives a call | look-ups and formatting | request threads |

How they interact: jobs are created by the application with a start date (start date of a job),
are given to the scheduler, are executed by Quartz workers and remove themselves from the store;
the incoming mail job is one such job. `ObserveThread` extends `MultiThreading`. The chat room is
driven by the container only. The screens send their requests through `ajaxService.post`, which turns
the page block on and lets it go, and are answered by the controllers and services of the same
entity. The parts share no other state.

What is hard, and which property answers to it, is listed in `PROJECT.json` under `hazards`, at
the line where it bites. In short:

* lists and sets are iterated without their lock (`MultiThreading`, chat room);
* two calls of a library decide one thing (`checkExists` then `scheduleJob`; `getTrigger` then
  `rescheduleJob`; find unread mail then mark it);
* the process may die between an effect and its record (jobs, mail);
* one message, task or connection of several fails in the middle of a loop;
* milliseconds are computed in 32 bits and days are counted as 24 hours;
* the pages send requests without waiting for the ones before, and what an answer replaces may have
  been edited, or answered anew, in the meantime;
* a save replaces more than the screen has shown (all roles of a group, those of disabled modules too);
* one state is kept in several places (a role in a list, in a cache and as a highlighted row; the block
  of the page in two elements and three flags) and each handler updates some of them.

## 2. Modules

| Module | Models | Run by | Proofs |
|---|---|---|---|
| `MultiThreading` | the task group | `MCMultiThreading` | `MultiThreading_proofs` |
| `ChatPresence` | abstract: who is present, who has been told of whom | through `ChatService` | `Promises_proofs`, `ChatService_proofs` |
| `ChatService` | the chat room; implements `ChatPresence` | `MCChatService` | `ChatService_proofs` |
| `JobStore` | abstract: a store that jobs enter and leave, and their executions | through `JobScheduler` | `Promises_proofs`, `JobScheduler_proofs` |
| `JobScheduler` | scheduler, store and life of a job; implements `JobStore` | `MCJobScheduler` | `JobScheduler_proofs` |
| `JobStartDate` | from a date to the start of a trigger | `MCJobStartDate` | `JobStartDate_proofs` |
| `MailQueue` | abstract: executions that claim unread messages and hand them over | through `IncomingMail` | `Promises_proofs`, `IncomingMail_proofs` |
| `IncomingMail` | executions of the mail job on one inbox; implements `MailQueue` | `MCIncomingMail` | `IncomingMail_proofs` |
| `RoleBoard` | abstract: roles on the two sides of a board, submissions, what is granted | through `RoleAssign` | `Promises_proofs`, `RoleAssign_proofs` |
| `RoleAssign` | the role assignment screen and its server; implements `RoleBoard` | `MCRoleAssign` | `RoleAssign_proofs` |
| `PageBlock` | the backdrop of the page and all that turns it on and off | through `ListScreen` | `ListScreen_proofs` |
| `ListScreen` | a list screen and its server, composed with `PageBlock` | `MCListScreen` | `ListScreen_proofs` |

Each specification is parameterised by CONSTANTS with a named assumption; the `MC` module only
defines values for them. Operators whose comment begins with *Slip* are deliberately wrong
versions of the definition after them. They are used by no specification: they are put in its
place to see that the property named for it in `PROJECT.json` notices.

### MultiThreading

A method that is not synchronized is split at each access to the shared list or map. `it` is one
fail-fast iterator per thread: its position and whether its `expectedModCount` still equals
`modCount`; `hasNext` compares the position with the size only, so a stale iterator can also end
silently. `main` is the position in `run()`, `call` the position of each client inside a public
method. `Thread.start` on a started thread throws and is swallowed, as in the code. `flag` is the
interrupt status: a dead thread has none, a thread that is not started may or may not record an
interrupt (this depends on the JDK). A task that catches `InterruptedException` and goes on is a
member of `Swallows`. `stillAlive(TRUE)`, which also prunes the list, is called by no class of the
repository and is left out.

### ChatService

One record per connection for the message being handled (`msg`) and one for the close being
handled (`cls`). A broadcast is a record of the connections its iterator still has to visit and
whether it is still fresh; a modification of `conns` makes the broadcasts in progress stale, and a
stale one throws at its next step or, at the end of the set, just ends: the joins this cuts short
are kept in the history `torn`. A send can fail with an `IOException`, which the code logs, or
with the `IllegalStateException` of a connection that is being written to by another thread, which
leaves the handler; the container then closes the connection of the sender. `seen` is what each
client has been told. Nicknames are represented by the session that chose them: the code does not keep
two users from taking one nickname, and what then happens (the clients are told of one name for both,
and to remove it when the first of them leaves) is not modelled. The order of the collections and the
texts are left out. `Overlapping` is the set of sessions whose close the
container may report while a message of theirs is being handled; containers differ in this.

`ChatPresence` is the room without connections and broadcasts: users come, go, learn of each other and
are struck off. `PresenceSpec` is `Presence!Spec` under the mapping at the end of `ChatService`: a user is
present from the end of the announcement (`Settled`) until the connection ends, what a client knows is
`seen`, and the announcements cut short are `torn`. The many steps of a join are learning steps or none,
up to the one by which the user comes, which asks that everyone present and the user know of one another.

### JobScheduler

A call of Quartz is atomic, a method of `JobSchedulerImpl` that makes several is not: `call` says
where each caller is between them. `trig` and `left` are the trigger of each job in the store,
`work` is what each Quartz worker does inside `execute`. A trigger that waits may fire at any
moment (time is left out here and treated in `JobStartDate`), also while an earlier execution of the
job goes on, for the jobs do not forbid concurrent execution. `Restart` is the end of the process,
orderly or not, at any point; the store survives, what callers and workers were doing does not.
A scheduler that has been shut down cannot be started again in the same process. Not modelled: the
exclusion of jobs by name from `reschedulerJobsInStore`, several trigger groups, the job data.

`JobStore` is what is left of it without Quartz: a job is new, stored, spent (no execution is left) or gone,
and leaves only executed, on request, or spent with a process that dies. `StoreSpec` is `Store!Spec` under
the mapping `Place`, read off the trigger, and `Executing`, read off the workers: the calls of Quartz
that one method makes map to one step of the store and stutters.

### JobStartDate

Minutes from the first local midnight; `Midnight` gives the minute each local day begins, so that a
day may have 23 or 25 hours. The product `getStartTime() * 60 * 1000` is an `int` in the code. TLC's
integers have 32 bits too, so the model counts in ticks of 32 ms, of which a minute has exactly
1875, and wraps at 2^27 where the code wraps at 2^32. Scheduling is taken to follow at once.

### IncomingMail

Each worker executes `doJob`: search, then for each message found: test the copy of its flag in the
open folder, set the flag on the server, create the callable, submit it and wait. `done` and
`aborted` are the two ways to the `finally` clause. A broken connection while the flag is set leaves
open whether the server has it and closes the folder (`MarkFails`); `isSet` or `setFlag` may also throw
with the folder open, whereupon the execution is aborted and its `finally` clause marks all it has
found (`MarkThrows`). `createCallable` parses the message and may throw. Executions may
overlap, and `Refresh` is the server telling an open folder of flags that others have set. Left
out: POP3, whose server keeps no flags, the parsing itself, and a user marking a message unread
again.

`MailQueue` keeps of it what is unread and what each execution may still hand over. `MailSpec` is
`Queue!Spec` with `Claims`: the messages the loop has not come to, and the one that is marked and not yet
given to a callable. What the `finally` clause marks is what the execution gives up: the abstract
specification shows the loss of `mail_aborted` as `GiveUp`.

### RoleAssign and RoleBoard

A callback of the browser is one step. `req` follows the request of each list, `save` each saving
request; answers come in any order, before or after the user has acted, or are lost. `cache[side]` is
`srcSelection` or `destSelection`: each entry has its role and whether its row is still in the table,
for `row.index()` of a row that has been taken out is -1 and `_select` then ignores it. `high` is the
set of rows with the class `selected`. `Visits` is what the loop of `_reset` comes to: it deletes from
the array it runs over, so that a live entry makes it skip the one behind (the rows it skips stay
highlighted although nothing is selected; this is why a highlighted row need not be cached, and why
`SelectedShown` states the other direction only). `twice` names the roles a list holds two times;
`ng-repeat` draws such a list no more and the model follows the screen up to there.

The group is asked for before its lists. `GroupComes` has the four answers the page tells apart: the
group; an empty one, for which both lists are asked; null, for which only the source is; and an error.
`group` remembers whether the page knows the identity of the group, without which a save is refused
(`Accepted`).

`offered` is what the two list queries can return at all: `SystemRoleServiceImpl` asks for enabled
modules, and `findRolesBy.sql` and `findUnRolesBy.sql` keep leaves that are not common. An answer is the
offered part of what is granted or not (`Of`). `ModuleChanges` is the module screen of another user that
adds or removes a module there. A save, on the other hand, is one transaction that deletes *all* roles of
the group and inserts those that were sent (`ServerStores`). **A save thus revokes the roles of disabled,
common and inner modules without the screen having shown them, however careful its user is.** The
properties do not deny this: what they say of revoked roles they say of those that `came`, i.e. that an
answer has brought to the screen. Nothing in the repository says that such roles should be kept, so
this is stated here and under `hazards`, and is no finding.

The order of the rows, the rights inside a role and the classes for touched and required lists are left
out, and so are other sessions that edit the same group. `S0403.js` and `S0503.js` are the same code over
other entities.

`hasty`, `dragged` and `taken` are histories of what the user did: acted before both lists had come,
dragged a selected role to the other list, took a role from the destination. `RoleBoard` is what the
screen promises without caches and requests: it deals some of the roles, each on the side it has in the
group. To a careful user (neither hasty nor dragging selected roles) the board is a partition of the roles
dealt, of which the assigned side is submitted; to anyone, only what was submitted is granted, and never the
empty set. A grant replaces all roles, those not dealt included. `BoardSpec` is `Board!Spec` under the
mapping at the end of `RoleAssign`: `shown` when both lists have come, `dealt` what they have brought,
`submitted[i]` the roles of a save until the server has decided on it.

### PageBlock and ListScreen

`PageBlock` gives the effect of each function on the state of the backdrop as an operator, since one
task of the browser calls several of them: `Digest(Post(block))` is a click that posts a request. Both
`turnBackdrop` and `turnOffline` return at once when the backdrop already is as wanted, whichever of
the two elements in it is visible. `Down` and `Up` are the handlers for Offline.js; `checking` is
`SERVER_CHECKING` (`common/const.js`), which is off as shipped: both values are modelled.

`ListScreen` posts through it. `asks` holds every request in the order in which they were posted, with
its state; the server takes them, and the answers come, in any order. An answer may be unreadable: the
callback throws inside `__successHandler`, which logs it, and what the callback has not done is left
undone. `ServerEmpties` is the catch of `findEntities`: copying the rows fails and the answer is an
empty page with status 200. A deletion may also be done after the browser has given up its request, of
which the screen then does not know (`lost`). `shown` is the request whose answer the view shows, 0 if it
shows none that tells of the database, and `cut` whether an answer has come while the server was down.
The total and the rows of a search are two queries; they are taken to see one state of the database. Each
group has one company, for `findGroups.sql` returns a group once for each of its companies. Not modelled:
the keyword of the search, Offline.js's own repeat of failed requests, leaving the page, redirects of an
expired session, and changes by other administrators.
`S0201.js`, `S0401.js` and `S0501.js` are the same code over other entities.

## 3. What the runs check

| Run | Instance | Properties |
|---|---|---|
| `mt_one_caller` | 3 threads, two with one name, 1 client, list of at most 3 | types; `SharedScoped`: `sharedData` names only members between calls; `AllListedStarted`: without interference the start loop skips nobody |
| `mt_two_callers` | 1 thread, 2 clients, list of at most 2 | `RunEnds`: if no task runs for ever, `run()` ends; `EmptyGroupEnds`: an emptied group leaves the polling loop |
| `mt_finish` (violation) | 2 threads, 1 client | `FinishAfterAll`, what the comment of `performFinish` says |
| `chat_room` | 2 users of whom one talks, leaves, and may be closed while a message of its is handled, 1 bystander | types; `RoomSeen`: who is in the room knows everyone in it; `ClosedUnlisted`; `ClosedUnnamed`; `BrokenUnlisted`: a broken connection is unregistered in the end; `PresenceSpec`: the refinement of `ChatPresence` |
| `js_store` | a job for ever and a job of two executions that is scheduled repeatedly, 2 callers, 1 worker, 1 restart | types; `NotLost`; `NoResurrection`; `Executed`; `StoreSpec`: the refinement of `JobStore` |
| `js_forever` (violation) | 1 job, no restart | `RepeatsForever`, what `IntervalJob` says of a repeat count of 0 |
| `jd_days` | 24 days, one of 23 hours and one of 25, delays up to 35791 minutes | types; `NotBeforeDate`, `NotAfterDate`: on the day that was asked for, as far as the clocks allow; `MinutesKept` |
| `jd_far` (violation) | delays of up to 30 days | `MinutesKept` |
| `mail_overlap` | 2 messages, 2 workers | types; `AtMostOnce`, `NotFoundAgain`, `NewMailUnread`; the inductive invariant `MarkInv`; `MailSpec`: the refinement of `MailQueue` |
| `mail_aborted` (violation) | 2 messages, 1 worker | `FinallyMarksProcessed`, what the comment of the `finally` clause says |
| `ra_edit` | 2 roles, one draggable and the other of a module that may be disabled, 2 saves, new and existing group | types; `NoneLost`, `NoneTwice`: every role that has come is in one list and only there; `SelectedShown`: what is assigned is what is highlighted; `RevokedByUser`: of the roles it was shown, a save revokes only what its user took away; `BoardSpec`: the refinement; the inductive invariant `ScreenInv` |
| `ls_search` | 2 groups, 1 row to a page, 4 requests, with and without server check | types; `BlockInv`: a blocked page says why; `ListenersMatch`; `SearchingInv`; `Fresh`: the last search shows the database; `Freed`: the page is let go; `SearchEnds`: the form is enabled again |

What the violations show (details under `findings`):

* `performFinish()` of a task group runs while a task is alive (an interrupted task counts as dead)
  or was never started (its neighbour was removed during the start loop).
* A job with repeat count 0 is executed once: every execution removes its job.
* A delay of more than 35791 minutes (24.8 days) overflows and the job starts at once.
* One unreadable e-mail makes the mail job mark all messages it found as read, processed or not.

Some hypotheses of properties are there because the code does not keep the property without them. The
case that such a hypothesis excludes is a hazard that the property does not catch; `hazards` says so in
the note of each:

* `Overlapping` in `ClosedUnnamed`: a message that is handled when its session is closed can put the
  nickname back;
* `WholeDays` in `NotBeforeDate`: where the clocks are put forward in between, a job starts on the day
  before its start date;
* `hasty` in the properties of `RoleAssign`: acting before both lists have come loses or doubles roles;
  `dragged`: dragging a selected role can add it twice; `Overtaken` in `RevokedByUser`: saves that the
  server takes in the other order; `came`: roles that the screen never shows;
* `cut` in `ListenersMatch`: an answer that comes while the server is down leaves its listener behind;
* the unreadable answer in `SearchingInv` and `SearchEnds`: the form stays disabled;
* the lost deletion, and the search that is overtaken, in `Fresh`;
* one client thread in `SharedScoped`: a second one may put an entry for a task that is being removed;
  `fresh` in `AllListedStarted`: if the list is modified in the start loop, a task is skipped.

### Bounds

* `MaxTasks` in `MultiThreading`: clients add to a list shorter than it only. Three positions are
  enough for an index to become stale in both directions, for a task to be listed twice and for two
  tasks to carry one name. For liveness one thread and two clients suffice, as what can go wrong there is an
  iterator or an index that another client has invalidated.
* `Joiners`, `Talkers`, `Leavers` in `ChatService` say who may do what, to keep three sessions within
  reach. Two joins that overlap are what `RoomSeen` depends on, and one more connection in the set
  is what makes a broadcast stale. The user that leaves is also the one in `Overlapping`, so that its
  close is met at every point of its message, and the other user by an orderly close or none.
* `MaxRestarts` in `JobScheduler`: one restart, at any point, with everything before and after it. One
  worker makes two jobs compete; overlapping executions of one job are covered by the proofs, which
  are for any number of workers. `Reused` says which job objects are scheduled again. The runs have
  both a job that may not and one that may.
* `Horizon` in `JobStartDate`: the last day a date may fall on. Clocks and dates are the first and last
  minutes of each day, its second hour and noon; delays are the values around 0 and around the
  overflow. A clock of the first week meets both changes, before and after.
* `IncomingMail` has no bound but its sets. With two messages one can be in hand while the other is
  still to come; with two workers both may have found the same one.
* `Changing` in `RoleAssign` names the modules that are not always offered: one that may be offered in one
  list and not in the other, or in neither, next to one that always is. The model follows
  `ModuleChanges` while a list is still to be read; later changes have no effect on this screen.
  `MaxSaves` and `MaxCache`: two saves can be stored in either order, and two entries of
  a cache are what `_reset` skips one of. `Draggable` limits who is dragged: one role is enough to be
  selected, dragged and assigned, with another left behind. The run has 1.8 million states; the proofs are
  for any of these values.
* `MaxAsks` in `ListScreen`: a fourth request lets two searches overlap with a deletion and the search that
  follows it. Two groups with one row to a page make the second page disappear with a deletion. The run
  has 720,000 states.

### Fairness, and why the code justifies it

* `MultiThreading`: weak fairness of the group's own thread and of a client inside a method: the JVM
  runs runnable threads, and no method blocks. Nothing is assumed of the tasks; `RunEnds` has as its
  hypothesis that none runs for ever.
* `ChatService`: weak fairness of a handler and of a close that are under way: the container
  dispatches them. Nothing is assumed of the users.
* `JobScheduler`: weak fairness of callers inside a method, of executions and of starting the scheduler
  (the server does it at each start). Strong fairness of the firing of each job: a worker may
  be busy with another job again and again, but Quartz acquires triggers by their next fire time,
  so a job that keeps waiting becomes the oldest. Weak fairness is not enough, since the only
  worker being busy disables firing. The conclusion of `Executed` allows that the scheduler is shut
  down for good, which nothing prevents.
* `ListScreen`: weak fairness of the timer that the load of the page sets and of the interval of the server
  check, for a timer of the browser is due; and of the end of each request, for the browser ends a request
  if only with an error. Nothing is assumed of the user, of the server's work, or of the server
  coming up again.
* The runs of the other modules check no liveness.

Deadlock checking is off for the chat room, the scheduler, the start date and the two screens: when all
connections are closed, or the scheduler is shut down with no restart left, or the job is scheduled,
or the page has been left or its requests are used up, the system has nothing left to do.

## 4. What is proved

All for any values of the constants that satisfy the named assumptions.

* `MultiThreading_proofs`: `TypeCorrect`; `SharedDataScoped` under `SingleCaller` (one client thread
  at a time). The inductive invariant `SharedInv` says where a call stands between its two updates:
  a thread about to be put is still listed, one about to be unlisted is no longer in the map, and the
  map may be ahead of the list only between the two halves of `interrupt`. `AllListedStartedHolds`, by
  `StartedInv`: while no one has modified the list, what the iterator of the start loop has passed is
  started. `FinishAfterAllHolds`, under `OnlySharing`: the property that `mt_finish` refutes holds if the
  clients of a running group neither add, remove nor interrupt. `FinishInv` needs each of the three: an
  addition brings a task that is not started, a removal makes the loop skip one, an interrupt makes a
  live task count as dead. Two lemmas say what
  `RemoveAt` keeps of a list. With two clients the property does not hold, which is why the
  assumption is there: one may put an entry for a task the other has just removed.
* `ChatService_proofs`: `TypeCorrect`, `RoomCorrect`, `RoomSeenHolds`, `ClosedUnlistedHolds`, and
  `ClosedUnnamedHolds` for the sessions outside `Overlapping`. `RoomSeen` alone is not inductive: `RoomInv` lists
  for each pair of users by which way the one still learns of the other (`Learns`), and rests on
  `Lifecycle`, the order in which a connection is opened, broken and closed. `LifecycleHolds` and
  `RoomInvHolds` state the two parts; no run checks them separately, since `RoomSeen` and `ClosedUnlisted`
  follow from them. `ImplementsPresence`: the refinement. `RoomInv` is what it rests on, for it gives the
  user who comes what `Come` asks for, and `Lifecycle` says that a close strikes off only who has left.
* `JobScheduler_proofs`: `TypeCorrect`, `NotLostHolds`, `NoResurrectionHolds`. `StoreInv` adds to `NotLost`
  that whoever is about to remove a job has executed it or was asked to, and that only a job of
  finitely many executions has a completed trigger (a restart removes those). `OnceInv` says that
  a job scheduled once has one pending store at most, before it has ever been stored.
  `ImplementsStore`: the refinement, from both and `KnownInv`, that whatever has a trigger, or is being
  executed, removed or stored again has been stored. One lemma for each way a job moves (`StoreRenews`,
  `StoreLeaves`, `StoreCancels`) serves all calls that move it so.
* `JobStartDate_proofs`: `TypeCorrect`; `StartCorrect`, for any time zone, if 32 bits hold the delay of
  every date and every value (`Bounded`). `DelayKept` shows that the 32-bit product is then exact,
  `DaysAway` what dividing by 24 hours makes of the days between two midnights, `DateStep` that the
  minutes computed lead to the day of the date. `NotBeforeHolds`, `NotAfterHolds` and `MinutesKeptHolds` are
  its parts, under the same hypothesis. `jd_far` shows that the hypothesis cannot be dropped.
* `IncomingMail_proofs`: `TypeCorrect`, `MarkCorrect`, `NotFoundAgainHolds`, `NewMailUnreadHolds`,
  `CountCorrect`, `AtMostOnceHolds`. `MarkInv`: what was handed over, or is in hand, is marked on the server,
  and a loop goes only through what its search has found, of which the rest is read. `CountInv`: for
  each message, the times it was handed over and the executions still pending for it are together no
  more than the workers; a search makes an execution pending only for a message never handed over.
  `ImplementsQueue`: the refinement, from both. That what was found is read or still to come (`MarkInv`) is
  why the `finally` clause marks nothing but claims; that the message in hand is not in the loop any
  more (`CountInv`) is why a claim is handed over once.
* `RoleAssign_proofs`: `TypeCorrect`, `ScreenCorrect`, and from it `NoneLostHolds`, `NoneTwiceHolds`,
  `SelectedShownHolds`, `RevokedByUserHolds` and the refinement `ImplementsBoard`, for any finite set of
  roles and any number of saves. `ScreenInv` has three parts. `CacheInv`: each live entry of a cache is
  highlighted, listed and has no second entry, and without dragging all are live; its lemmas (`Good...`)
  follow one list through each operation on a cache. `LoadInv`: until both lists have come nothing is
  saved and a list shows only what the database has on its side; then the two lists share out what has come.
  `SaveInv`: a role that has come and that its user never took away is, once granted, in the destination,
  and in each save under way that is not overtaken, which is what keeps it granted; of a role that has not
  come nothing can be said. For the refinement each action is shown to be one of the
  board's, or to change nothing that the board shows.
* `ListScreen_proofs`: `Invariant`, and from it `TypeCorrect`, `BlockHolds`, `ListenersHold` and
  `SearchingHolds`; `FreshHolds`; all for any groups, page length and number of requests. `Good` and `Match`
  state of any backdrop what `BlockInv` and `ListenersMatch` state of the page's, so that each function of the
  page block is followed by itself, and a task is what its functions make together. `Fresh` is not
  inductive: `UpToDate` says that the answer of each search, and the one that is shown, is what the
  database has unless it is overtaken by a deletion that the screen does not know of, or by a later
  search; a deletion whose answer has come is followed by one.

* `Promises_proofs`: what the abstract specifications come to by themselves, and so what their
  implementations inherit: `AcquaintedHolds` (`ChatPresence`), `KeptHolds` and `NoReturnHolds` (`JobStore`),
  `NotClaimedAgainHolds` (`MailQueue`) and `PartitionHolds` (`RoleBoard`). They show that the four
  specifications promise what the room, the store, the inbox and the board are for, and
  they need little more than types to be inductive.

Only model-checked: the liveness properties (`RunEnds`, `EmptyGroupEnds`, `BrokenUnlisted`, `Executed`, `Freed`,
`SearchEnds`), since fairness and ENABLED are beyond the prover. Every safety property that a passing run
checks is stated by a theorem; those of the violation runs `js_forever` and `mail_aborted` are false, those
of `mt_finish` and `jd_far` are proved under the hypotheses `OnlySharing` and `Bounded`.

## 5. What is not modelled, and the plan

Left out for good: formatting, parsing, templates, generated code, pure look-ups, image and file
input and output. `PROJECT.json` lists each part with its reason. By far the most lines of the repository
are vendored JavaScript libraries, many in several versions (Angular in five), which
are modelled only as the pages use them; the client's own code is about 10,000 lines, mostly
directives, filters and forms without state of their own.

The SQL files, the table definitions and the entities of the repository are of different versions of the
schema. `findRolesBy.sql` selects columns (`viewable`, `insertable`, ...) that `tables/role.sql` does not
have, and the `Role` entity is mapped to a table `right` (`module_id`, `role_id`) while
`deleteRolesBy.sql` deletes from `role` (`mid`, `gid`); `fn_iv_modules_by_user.sql` reads `u.cid`, which
`tables/user.sql` has and the `User` entity has not. `RoleAssign` takes the roles of a group as one store,
which is what the service code intends; what the program does on a schema that fits only some of these
files is not modelled.

To come, in this order:

1. `SqlFileCache`: request threads and `clearCache` over the three maps of the SQL file repository;
   abstract specification: a look-up returns what a fresh load would return at some moment
   since it began.
2. `MongoObserve`: snapshot, change stream and resume token, with an abstract specification in which
   every change is applied exactly once; composed with `MultiThreading` for `ObserveThread`.
3. `AsyncTask`: attempts, back-off, cancellation and callbacks of the Android tasks.
4. `RoleAdmin`: the roles of the open session against the stored roles, with roll-back, below
   `ServerStores` of `RoleAssign`.
5. `JobLife`: `JobScheduler` and `IncomingMail` composed, the mail job being removed after an execution
   that may have left mail behind, over `JobStore`.
6. An abstract specification of the list screen: a view that shows the last answer asked for.
7. Numbering the schedules of one job name in `JobScheduler`, to treat the job that is scheduled while an
   earlier execution of the same name is about to remove it.
8. `SocketClient`: the connection of the notification directive, its subscriptions and reconnection.
9. `OnlineUsers`: logins of one user that interleave between `findOnlineUser` and the insertion of its row.
