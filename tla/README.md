# agent-media: TLA+ models, model checking and proofs

agent-media gives coding agents one voice. Agents' replies are rendered to
speech, queued behind one playback token, and played on a desk speaker, in
rooms or on a phone; the listener answers by voice or from an app; a server on
each host carries sessions, events and jobs between the host, the phone and
other hosts. Almost all of it is processes that share files, flocks and
sockets, with nobody in charge. These modules model the parts whose
correctness is a matter of interleaving, and say which parts are left.

Paths below are relative to `src/`. `core/` is
`packages/core/src/agent_media_core/`, `server/` is
`packages/server/src/agent_media_server/`.

## What is here

| Module | What it is |
|---|---|
| `VoiceQueue` | abstract: one voice, conversations heard in order |
| `SpeechLock` | the playback token and waiter registry of `core/intake/submit.py` |
| `MCSpeechLock` | its small instances |
| `SpeechLockProofs` | theorems about it, and that it implements `VoiceQueue` |
| `RemoteCall` | abstract: a command on another host runs at most once |
| `PhoneJobs` | jobs relayed to another host: `server/phone_jobs.py`, `jobs-worker.py` |
| `MCPhoneJobs` | its small instances |
| `PhoneJobsProofs` | theorems about it, and that it implements `RemoteCall` |
| `DuckDebt` | what a reply does to rooms, music and the phone's media, and how it is put back: `core/route/coordinator.py`, `music_rooms.py` |
| `Rendezvous` | where a spoken question waits for its answer: `core/capture/rendezvous.py` |
| `InputClaim` | who owns the next utterance when the microphone is not on this host: `core/call_guard.py`, `capture/input_claim.py`, `entrypoints/speech_state.py` |
| `SessionHost` | the host of agent sessions: `server/sessiond.py` |
| `ThreadEvents` | the event stream of an open thread: `server/thread_events.py` |
| `SpeechFrames` | the phone's player as numbered frames: `server/speech_frames.py`, `session_events.py` |
| `DuckDebtProofs`, `RendezvousProofs`, `InputClaimProofs`, `SessionHostProofs`, `ThreadEventsProofs`, `SpeechFramesProofs` | theorems about these six |
| `MCDuckDebt`, `MCRendezvous`, `MCInputClaim`, `MCSessionHost`, `MCThreadEvents`, `MCSpeechFrames` | their small instances |

To check a run: `tlc -config <run>.cfg <its MC module>.tla`; a proof:
`tlapm <module>Proofs.tla`. `PROJECT.json` lists runs with their modules, the
lines every definition models, theorems, hazards and findings.

## The system

### Core: one voice

**Playback token and speech queue** (`core/intake/submit.py`, class
`_SpeechPlaybackLock`; `core/cli.py`, the replay command). State: an exclusive
`flock`; a directory with one JSON file per waiter (rank, submission stamp,
session, pending or waiting, pid); one supersede marker per session.
Operations: `announce`, `acquire`, `take_within`, `_take`,
`_preempting_rank`, `_claim_rank`, the sibling tests, `should_yield`,
`yield_to_higher`, `step_aside`, `_mark_supersede`, `should_abort`, `release`,
`handed_off`/`adopt`. One process per reply; they meet only in those files.
Hard: a decision is three directory scans while others register and leave; a
process may die anywhere; a waiter gives up on a stalled holder and goes on
without the token. Correct when: one reply speaks at a time; a conversation is
heard in order; nothing is left behind; nobody starves. **Modelled.**

**Holds, flush, cuts** (`core/intake/submit.py`): `speech-hold*` markers with
owner and expiry, a flush marker with a stamp, a record per session of what a
Stop cut. Written by the call guard, the app's routes and hooks; read by every
submission. Hard: read-then-unlink and read-modify-write with no lock.
Correct when a live hold is never removed by a reader that saw its
predecessor, and a cut drops what was submitted before it and nothing after
the listener's next turn. **Partly**: SpeechLock has their effects, InputClaim
a hold's marker file.

**Submission body** (`_submit_event`): render threads, streaming lead, the
sentence loop and follow loop, mutes, history rows. **Partly**: what it does
with the token, and in which order, is in SpeechLock.

**Interruption coordinator** (`core/route/coordinator.py`): ducks or pauses
music, rooms, the book and remote players round a reply. State: duck markers
in the state store (a volume owed per room), the deferred duck, the
background pre-pause. Hard: a speaker killed while the rooms are low; partial
failure of a restore; a pause that lands after the wait for it ended.
Correct when every lowered volume is owed what the listener had, and is put
back. **Partly**: `DuckDebt`; the book's pause, the DJ cue, desktop players
over MPRIS, the music's fades and the policy tables are left out.

**Answer rendezvous and input claim** (`core/capture/rendezvous.py`,
`input_claim.py`): an asker publishes a socket and a question under a name;
whoever has a transcript offers it there and types it into the pane when it
is not taken. Hard: two askers, a lost acknowledgement, removal by name of
what has been replaced. A phone claims the next utterance by a heartbeat, each beat of
which also holds speech. Hard there: a release in flight when the microphone
goes hot again, a lost request. Correct when an utterance goes somewhere, no
asker unpublishes another, a hot microphone has the floor and a cold one comes
to free it. **Modelled** (`Rendezvous`, `InputClaim`).

**State store** (`core/state/store.py`): SQLite rows all processes share.
**Sinks** (`core/sinks/`): mpv, Mopidy, book and phone players over sockets;
the cross-host claim of the phone's player. **Render and transcription**: text
to audio and back. **Intake hooks and MCP** (`core/intake/hook_*.py`,
`core/mcp_server.py`): harness events to submissions. Not modelled: I/O, or only a source of events that
the models already let happen at any time. The claim of the phone's player is a
candidate. **Call guard**: watches the phone's microphone and asserts holds.
**Partly**: `InputClaim` has its heartbeat; how a call is detected is not
modelled.

### Server: sessions, threads, devices

**Phone and host jobs** (`server/phone_jobs.py`,
`packages/core/services/jobs-worker/jobs-worker.py`, `core/phone_run.py`).
State: `_JOBS`, `_QUEUE`, `_WORKERS` under one condition variable; the worker's
connection and job threads. Operations: `run`/`restart`/`update`, `serve`,
`result`; the worker's `_handle`, `_answer`. Hard: a stream that is gone but
still counted, late and repeated answers, restarts of either end, a pairing
taken back under an open stream. Correct when a command runs at most once and
a caller is never told something false about it. **Modelled.**

**Session host** (`server/sessiond.py`, `driver/`): owns headless agent
sessions and their child processes; sends, parks, resumes, drains for a
restart, holds messages while one is pending, answers approvals. State: a
record per session on disk, the child, pending approvals, held messages, what
a stop cut off. Hard: a crash between saving and sending; parking against a
message that comes in; messages held and messages new. Correct when a session
never has two writers, a held message is delivered once and in order, and work
that was cut off is taken up once. **Partly**: `SessionHost`, for Claude sessions,
without the usage limit, interrupts and failed spawns. Beside it: **moves** (a conversation to another project, deferred while busy),
**seal** (encrypt a thread's trail, then remove it), **reap** (close idle
sessions, never a busy one): not modelled.

**Threads, events, asks** (`server/thread_events.py`, `asks.py`, `send.py`,
`stop.py`): one watcher per thread shared by its connections, with bounded
queues; questions answered key by key in a pane; Stop. Hard: the last
subscriber leaving as one arrives, what changes between a snapshot and its
stream, a queue that is full, a dialog that changes under the keys. Correct
when a connection's snapshot and its events add up to the thread. **Partly**:
`ThreadEvents`; asks, send and stop are not modelled.

**Frames to the phone's player** (`server/speech_frames.py`,
`session_events.py`): commands are applied to a model of the player here and
sent as frames; the phone's reports are folded back in. Hard: a report that
predates the last frame, a stream that broke and replays, a restart. Correct
when no frame is left out or repeated, and the model comes to say what the
phone plays. **Partly**: `SpeechFrames`, with one device and without the
brokers' claim.

**Pairing and accounts** (`server/devices.py`, `auth.py`): pairing codes burned
on first success, a token per device. **Partly**: PhoneJobs has revocation.

**Contents** (contacts, timeline, search, notes): storage and formatting behind
HTTP routes. Not modelled.

### Around them

The visual canvas (presentation), the voice bridge and Snapcast packages, the
engine, shim and intake plugins (adapters to outside services), the Android
companion (an Android service), and the installer, updater and
`restart_services` (host set-up) are not modelled. They reach the models as
callers, listeners, or what a job runs.

### How the parts meet

A hook or an MCP call submits a reply; `_submit_event` announces it, renders,
waits for holds, takes the token, asks the coordinator to lower what is
playing, claims a player through a sink, plays sentence by sentence, and gives
everything back. The call guard and the app set holds, flushes and cuts
through marker files; the guard's heartbeat claims the input, and no question
is armed on this host meanwhile (`claimed` of Rendezvous is InputClaim's
`claim`, taken at any moment). The session host runs the agents whose hooks
submit; threads and events show it all to the app; the app's answers go back
through send, the driver or the rendezvous. What a sink plays on the phone goes
through the frames. Jobs reach the phone and other hosts down
streams the devices dial. No component calls back into the token: what they
share with it is files.

## SpeechLock

Each *clip* is one reply, thinking read-out or replay, with a process of its
own; `pc[c]` is where it is:

| State | Where the code is |
|---|---|
| `idle`, `stamped`, `render` | before `_submit_event`; `started_at` taken; announced and rendering |
| `gate` | `_wait_speech_hold`, then `acquire` |
| `mark` | inside `_mark_supersede`, marker read and not yet written |
| `try` | in the loop of `_take`/`take_within`, without the flock |
| `scan`, `claim`, `sibs` | flock held, before each of the three reads of the registry |
| `taken` | `acquire` returned: superseded? thinking over? a hold landed? |
| `cleared` | flushed, cut, unwatched? else claim the player |
| `head`, `mind`, `play` | sentence loop: should it end; should it yield; the sentence |
| `gap`, `aside` | token given up: the yield's grace; paused and stepped aside |
| `done`, `crashed` | |

`reg`, `rank`, `seq` are the waiter files; `token` is the open file description
that holds the flock; `loose` are the clips whose take returned with no
descriptor (`_fd is None`) and that go on regardless; `marker` is the supersede
marker, `floor` the TTL's age limit. `ahead` is a history variable: which
siblings were already queued when a clip was submitted.

Every read of the registry is a step of its own, because between two of them
others register, re-rank, leave and die. `_preempting_rank`, `_claim_rank` and
the sibling tests are three reads; the two sibling tests are one, since nothing
distinguishes them but the moment. A scan also unlinks dead pids' files
(`Reaped`).

Left out of it, on purpose: the earcon's displaced marker; navigation between
sentences; mutes and presence except as a nondeterministic drop
(`Silenced`, `DropQueued`, `DropSpeaking`); the periodic re-announcement during
a hold beyond the first (it rewrites the same entry); `step_aside`'s probe of
the lock beyond "registers again afterwards". (Only pending entries have a
TTL; a waiting one counts as long as its process lives.) A replay's session is `replay:<pid>`,
its own, so `NoSession`. Timeouts are not clocked: `GiveUpBusy` may happen
whenever the holder is paused or wedged, which is what the code's test for
"has not moved on" detects.

### Runs

| Run | Instance | Question |
|---|---|---|
| `lock_order` | replies `a1`, `a2` (a question, HIGH) of A, thinking `t` of B; holds; renders past the TTL | does every way out give back token and entry, and is the conversation heard in order? |
| `lock_barge` | `a1` on the playlist lane, may be paused or wedge; superseding URGENT `a3`; replay `r`; a flush | one voice unless somebody went on without the token; what was superseded does not start |
| `lock_live` | `a1`, `a2` (may crash) of A, `b1` of B; fairness | does every reply end; is this VoiceQueue? |

**Bounds.** Two sentences: one boundary to yield at and a return to it. Three
clips: a holder, a sibling behind it and a rival, which is the smallest set
where priority inheritance, the deferral between two waiters and the
conversation's order all bear; a cycle of deferrals needs the three. Each clip
is submitted once. `MayAge`, `MayHold`, `MayPause`, `MayWedge`, `MayCrash`,
`MayFlush` and `Playlist` switch behaviour on per run, so that each run has the
ones its question is about; the proofs have all of them, for any number of
clips. (`MayAge = "hold"` lets the TTL pass only while a hold waits, for
looking at holds apart from slow renders; no run needs it.) Clips all end, and then
nothing moves: hence `CHECK_DEADLOCK FALSE`. That they do all end is
`EveryReplyEnds`.

**Fairness** (`lock_live` only): weak for each clip's process, and strong for
`Lock`. A waiter polls every 0.2 s and a clip that defers holds the flock only
while it reads a few small files; a lock that comes free again and again is
found free by each waiter sooner or later. No fairness is assumed of the
listener, the clock or of crashes.

**What the properties say.** `TokenInUse` and `NoGhostWaiter` are the ways out:
a dozen of them, each of which must unlock and unlink. `OneVoice` names the
only exception the code makes. `HeardInOrder` names every way a reply may give
its place up (ended, died, unserialized, handing back to a hold, past its TTL;
and a wedged one, on which waiters time out); nothing else may let a later
sibling through first. `DroppedNeverStarts` crosses three processes'
reads of the marker. `EveryReplyEnds` is what priority inheritance
(`_claim_rank`) is for: without it, a question behind its own earlier reply and
a rival conversation hand the token round for ever (the mutant `OwnClaimOnly`
shows that). `ImplementsVoiceQueue` says that in the absence of stalls, holds,
TTLs and speech that skips the queue all of this is a queue with one voice.

## PhoneJobs

A caller's thread queues a job and waits; one thread per stream takes what is
its device's and of a kind the stream named, and writes it; the worker runs it
in a thread and posts the answer up to three times. `table`, `queue`, `workers`
are `_JOBS`, `_QUEUE`, `_WORKERS`; `taken` and `done` the job's fields; `out`
what a stream's thread has dequeued and not yet written; `link` the connection
as it really is, which the server learns of late; `posts` answers on their
way, which may arrive after anything. A step is what one thread does while it
holds the condition variable, or one write to a socket.

`caller` ends `answered` (an exit code), `refused` (255/404/503: nobody took
it) or `unknown` (a timeout after it was taken, or the server went away).
The distinction matters: after `refused` the caller tries another way, so it
must never be said of a command that runs.

The run `jobs_relay` sends a restart and an update to a laptop with two
connections: the first from a worker too old to take an update, the second its
replacement, which the server may see before it notices that the first is dead.
Both may drop, the worker may die with jobs running, the server restarts once,
the pairing may be taken back. `Tries = 2` where the code has 3: what matters is
that an attempt may be late while another is under way. Each stream connects
once and one server restart is modelled; a third connection would meet the same
states the second does.

`NothingOutlivesItsWait` ties table and queue to the callers that wait.
`ImplementsRemoteCall` is the promise: at most one run, no exit code without
it, no refusal of what runs. `EveryCallEnds` and `StreamLetGo` need a caller's
bounded wait and a stream thread that wakes at least every `PING_S`, and both
are in `FairSpec`; nothing is assumed of network, workers or answers.

Left out: field checks of a restart, cleaning and size limits of results, the
order within the queue (a stream takes all of its own at once), lost posts (one
never handled), and the ids
`MEDIA_JOBS_DEVICES` adds to the paired ones (such a device would keep its
stream when revoked, as the phone does).

## DuckDebt

A reply may lower two things and pause a third: the rooms' Snapcast volumes
(`volume`, with `own` what the listener gave each), the music player
(`loud`, `playing`), and the phone's media (`phone`). Each reply has a
`Coordinator` in a process of its own; what they share is the `rooms_duck`
marker (`owed`), the `music_duck` marker (`debt`) and the now-playing row
(`row`), all SQLite rows that outlive a process. `plan`, `todo`, `failed`,
`base`, `ducked` are one coordinator's locals; `deferred`, `pauser`, `paused`
its fields. `pc` follows `before_speech` and `after_speech`, `ducker` follows
`_interrupt_music`, which on the phone's lane runs on whichever of the report
stream and the grace timer comes first. A step is one round trip to SQLite, to
one client, to the player or to the phone.

`duck_debt`: a local reply and one of the phone's lane; two rooms, of which one
may be deleted; a duck or a restore refused once; either process may die at
any step; the listener moves a dial once. Two volumes beside the duck level:
enough to tell a volume from within a duck from the one before. One refusal
lets a restore fail for a room and the next reply find the rest.

`LoweredIsOwed` is the hard half: at *every* step a room or the music that is
lower than the listener put it has exactly the listener's value in a marker
that survives; the first capture must be kept by a second reply and an owed
room must not be captured again at the duck level. `RestoresAll` and `NextPays`
say that the debts are paid: by the replies themselves if nothing fails, by the
next reply that ends normally if one was killed. (`PayDebt` always succeeds:
`_music_unduck` clears the marker even when the unduck failed,
coordinator.py:1011–1016, so a refusal there loses the music's debt.)

`Races` names three overlaps that the run leaves out, since each breaks
`LoweredIsOwed` or `RestoresAll` once it is admitted, which TLC shows with
`Races = {"dial"}`, `{"duck"}` or `{"aside"}`: a change of the listener's dial
between a read of the volumes and the marker or restore built from it is
overwritten (`music_rooms.py`:87); a deferred duck that is still under way as
its reply ends pauses or lowers the music after its debt was looked at; a reply
that steps aside in the middle of `before_speech` goes on lowering rooms while
another one restores them and clears the marker. Also outside: a pre-pause
that lands after `before_speech` stopped waiting for it (14 s,
coordinator.py:595), so `Decide` and `CancelPrePause` wait.

## Rendezvous

An *asker* is a `converse` call; `pc` follows `__enter__`, `wait` and
`__exit__` one system call at a time: look at the name, probe the socket there,
unlink a dead one, write the question, bind and hard-link. `name` is whose
socket the fixed path leads to, `question` whose text the other file has,
`listens` the open sockets, `backlog` the connections not accepted (a probe is
one). A *word* is a transcript the voice bridge offers: connected, waiting for
the acknowledgement for two seconds, then typed into the pane.

`rendezvous`: three interchangeable askers, one of which may die anywhere, two
transcripts, and a claim of the input that comes and goes. Two askers race on
the name; the third is the one that finds what the race left.

`WordsKept`: words acknowledged are with exactly one asker, words in flight are
at an open socket. `LinkTakesNothing`: the link takes the name from nobody who
listens. `AskedIsArmed`: whoever listens has the name and the question, unless
two askers were between such steps at once (`overlap`): `__exit__` unlinks both
files by name, so an asker that leaves takes a newcomer's files with it.
`NotClobbered` is stated and no run checks it: TLC refutes it in 8 steps. The
probe by which a second asker looks whether the first is alive is itself a
connection (rendezvous.py:133), and `wait` takes a connection that says nothing
for the end of the wait (rendezvous.py:259), so the question of the first ends
with no answer, though the test `test_concurrent_converse_is_refused_not_clobbered`
means it to be left alone.

Left out: the rename used where the file system has no hard links, and the
asker that dies after its acknowledgement (the words are gone with it, and
nobody is left to say so).

## InputClaim

`Start` and `Stop` are the microphone going hot and cold (`ClaimHeartbeat`);
`worker` and `rel` are its beat and release threads, a generation each;
`req` the requests on their way to the speech-state server, each handled by a
thread, with the file `claim` and the subprocesses `jobs` that write and lift
the hold's `marker`, a file with an expiry: emptied, then written; lapsed; read
by a waiting reply (`reader`), which removes a lapsed one by name. `troubles` are requests lost, or answered after their sender gave up
(`left`).

`input_claim`: one phone, hot twice, two troubles: the release of the first
conversation meets the claim of the second, and either may be lost. Weak
fairness for each thread, handler, job and the expiry; none for the microphone,
losses or readers. One reader per marker: a second one would remove it at a
later moment, which the first may, too.

`HotIsClaimed` is `_release_once`'s promise that a late release costs the next
conversation nothing. `HotIsHeld` and `SilenceReleases` are what the whole is
for, in both directions, whatever was lost; without the beat, or without the
expiry, they fail (their mutants).

The marker's two races are in the model, and HotIsHeld tells what mends them,
the next beat. In the meantime a reply may start under a live hold: a reader
that saw a lapsed marker unlinks the one written since (submit.py:1844), and one
that reads between the emptying and the writing (`write_text`, submit.py:1793)
finds no hold at all.

What is known and outside: the hold and lift subprocesses are not ordered, so
a lift may run after the hold that follows it and only the next beat repairs
it; a DELETE that timed out at the phone is not looked at again; a beat that
outlives the two-second join in `stop` claims again, silently, until it expires
after 67 s; `release` compares and then unlinks, so another owner's
fresh claim may go (`HotIsClaimed` therefore speaks of one phone).

## SessionHost

`Supervisor` runs one child per live session. `state`, `proc`, `leaving`,
`card`, `queued`, `tasks`, `held`, `cut` and `due` are the fields of
`Session`; `alive` is which processes the system runs, which the host learns of
late (`OnExit`); `inbox` what a child has not begun; `at`, `todo`, `rel` where
the request threads and the release thread are. `log` and `cuts` are history. A
step lies between taking the host's lock and giving it up.

| Run | Instance | Question |
|---|---|---|
| `session_host` | one session, two messages (one mail), cards, a background task, parking by hand, a death of the child, a restart pending, one stop or crash | is what was held kept in order, what was cut off taken up once, a card its process's, and each write read by one process? |
| `session_live` | two sessions, room for one process, orphans that linger; fairness | does a held message go out? |

A second session matters only for the cap and its evictions, hence
`session_live`; a second message is one that comes while the first is held or
being delivered. Fairness: weak for each thread, the release thread, a child
that has input to begin or was told to end, the reader of its exit, and the
next start. None for an answer to a card; `HeldGoesOut` asks that the session
is in the end not blocked by a card, a pending restart or the cap.

`SoleReader` is `_await_exit`'s "two writers on one session"; `HeldKept`,
`ResumedOnce` and `CardOfItsProcess` each span a stop, a crash and the next
start. What the model shows beside them: with `Linger = TRUE` (a child that
outlives a host that died, until `_kill_orphans`' signal takes effect) TLC
refutes `SoleReader`; a crash between clearing `cut_off` and sending the note
loses the resume (once, never twice: `ResumedOnce`); a crash between writing a
held message and removing it sends it twice; a new message may overtake held
ones while they go out (sessiond.py:2105).

Left out: failed spawns, the usage limit, opencode and antigravity (which have
no child per session), interrupts, modes and transcripts.

## ThreadEvents

`table`, `subs`, `stopped` are `_WATCHERS` and its watcher's fields; `wat`,
`sent`, `got` the watcher's thread between two reads, what it took note of and
what it has read and not yet put; `at`, `queue`, `dropped`, `view` a
connection's thread, its bounded queue and what its client shows. The thread of
talk is `now`: versions of messages that appear and are replaced, and of one
`Field` that stands for everything re-read whole. A watcher is named by the
connection that started it; connections are numbered as they come.

`thread_events`: three connections (one starts the watcher, one shares it, one
comes as the last leaves), two at a time, one message and the field with two
versions each, queues of one event so that they fill, one failed first read.
Weak fairness of each watcher's thread and connection's thread only.
`ServedByOne` (the last leaving as one arrives), `InStep` (what is noted as sent
is shown, queued or lost with a connection that is dropped), `NoGap` (no event
shown over one that was lost) and `CatchesUp` except for the connections the finding
is about (`early`) and watchers whose first read failed (`blind`: thread_events.py:228
and 364, what changes before their first successful read is noted and never sent).

`opened_together` (finding): a connection that joins while the first one's
baseline is being read.

Left out: the cap over all threads, renaming of a thread, gzip and pings, the
debounce, a read that fails in the middle, and values that change and change
back between two reads (versions only rise).

## SpeechFrames

`model`, `seq`, `moved`, `frames`, `streams` are the hub's; `late` and `stale`
say which frames are older than `LOST_S` and `REPLAY_S`; `opening` a stream whose
cursor is read and which is not registered yet (session_events.py:303–306); `wire`,
`player`, `applied` the phone's side, which is not in this repository and is
taken to do what `Model.apply` does. A list of clips is how many there are, with
`cut` the ones a short count put aside. A run of the server numbers its frames
from the clock, hence `Base`.

`speech_frames`: two frames in each of two runs, two streams, one stream that
breaks unnoticed or app that ends, one report under way which may be arbitrarily
old. Two frames are a move and something before or after it; a break, a second
stream and a restart are what replay and numbering are for. Weak fairness of the
phone's applying and reporting, of the handling of reports and of time; nothing
of the streams. (With two breaks the run has 2.4 million states and passes, too.)

`EveryFrameOnce`: through breaks, replays and restarts, nothing is skipped or
repeated but what waited `REPLAY_S`. `OldNewsStays`: a report changes what the
model plays only if it knows every move, or the phone has been behind for
`LOST_S`. `ComesToAgree`: in the end model and phone say the same. `JumpNotUndone`
is the docstring's stronger promise ("so a jump just made is not undone by old
news") and no run checks it: TLC refutes it in 8 states, and the Python does the
same when it is run through them. `_lost` (speech_frames.py:496–515) looks only
at the oldest frame the phone is behind, so once that one is 15 s old, a report
built before a reply that was just sent makes the model idle and empty again.

Left out: the broker's claim and another server's, a second device and the
choice of output, observers, the relay upstream, playhead, pause and volume, and
the limit of 200 kept frames. A phone that has applied nothing and reconnects
starts at "now": what was sent in between is lost to it, and `since` says so.

## What is proved

Every theorem is for any values of the constants: any clips, sessions, ranks
and listeners, any jobs, devices and tries, any connections and queue lengths,
any askers, words, phones, rooms, frames, crashes and refusals. They rest on the
assumptions the modules name (`ClipsAssumption`, `ClipDataAssumption`,
`ChoiceAssumption`, `JobsAssumption`, `ThreadAssumption`, `DuckAssumption`,
`RendezvousAssumption`, `ClaimAssumption`, `HostAssumption`,
`FramesAssumption`): types of the constants, names that stand for "nobody" and
are nobody's, and that the set of clips is finite. TLC evaluates them in every
run. Where a theorem needs more it says so before `PROVE`; the table has it.

| Property | Theorem | Only where |
|---|---|---|
| SpeechLock: `TypeOK`, `TokenInUse`, `NoGhostWaiter`, `OneVoice` | `TypeCorrect`, `TokenReleased`, `NoEntryLeftBehind`, `VoiceIsOne` | |
| `HeardInOrder` | `CanonicalOrder` | |
| `DroppedNeverStarts` | `SupersededIsDropped` | `OneSuperseder` |
| `ImplementsVoiceQueue` | `LockImplementsQueue` | `Calm` |
| PhoneJobs: `TypeOK`, `NothingOutlivesItsWait`, `ImplementsRemoteCall` | `JobsTypeCorrect`, `NothingLeftQueued`, `RelayImplementsCall` | |
| ThreadEvents: `TypeOK`, `ServedByOne`, `InStep`, `NoGap` | `EventsTypeCorrect`, `EveryoneServed`, `NothingFallsBetween`, `NoGapShown` | |
| DuckDebt: `TypeOK` | `DebtIsTyped` | |
| `LoweredIsOwed`, `RestoresAll`, `NextPays` | `LoweredStaysOwed`, `AllIsRestored`, `NextOnePays` | `Races = {}` |
| Rendezvous: `TypeOK`, `WordsKept`, `AskedIsArmed`, `LinkTakesNothing` | `RendezvousTypes`, `WordsAreKept`, `ListenerIsAsked`, `LinkTakesNobodysName` | |
| InputClaim: `TypeOK`, `HotIsClaimed` | `ClaimIsTyped`, `HotStaysClaimed` | |
| SessionHost: `TypeOK`, `CardOfItsProcess`, `HeldKept`, `ResumedOnce` | `HostIsTyped`, `CardIsItsOwn`, `HeldIsKept`, `ResumedAtMostOnce` | |
| `SoleReader` | `OneReader` | `~Linger` |
| SpeechFrames: `TypeOK`, `EveryFrameOnce`, `OldNewsStays` | `FramesAreTyped`, `FramesOnceEach`, `NewsInTime` | |

The three conditions are where the code leaves off, not where the proof does:
TLC refutes each property once its condition is dropped. `OneSuperseder` is that a
conversation has one superseding clip: two race on the marker (below).
`Races = {}` and `~Linger` are described with DuckDebt and SessionHost. `Calm` is
what VoiceQueue abstracts from: nobody pauses, wedges, holds speech or outlives a
TTL, and all clips are replies above LOW, since a LOW one and a replay may go
on without the voice; crashes, yields, supersedes and flushes remain.

The arguments, by inductive invariant:

- **SpeechLock**, `IInv`: `OneVoice` follows from `HoldsOrLoose` (a clip
  that scans the registry holds the token, one past its take holds it or is
  loose), which needs `TokenInUse`, since `release()` frees the lock only by
  looking at who owns it, and the entries' states (`NoGhostWaiter`). `OrderInv`
  adds that a sibling in `ahead[b]` has an earlier stamp than `b` and keeps a
  waiter entry while it renders or queues, and that a bump never makes a reply
  urgent: so the last read of `b`'s take misses no sibling still to be heard.
  `SupersedeInv` adds that a superseder has left its stamp before it queues
  (`Marked`), and `DropsFirst`: while a reply with the token is between its look at
  the marker and its first sentence, a superseder has not begun, as nobody gives
  up on a holder that is neither paused nor wedged. `CalmInv` is what the
  refinement needs: a clip keeps an entry from its announcement to its take
  (`PlaceKept`) and no TTL passes. `StepOfStage` says, action by action, what
  becomes of the clip's stage; `VoiceStep` that each such change is a step of
  VoiceQueue. A return from the take is one because the reads missed nobody
  (`AskersWait`), a yield because the one it saw asks.
- **PhoneJobs**, `JobsInv`: a job is in the queue, in one stream's frames, or
  handed out, never in two of these; it is marked taken before it is written
  and run at most once; whoever was told `refused` never had it taken.
- **ThreadEvents**, `EventsInv`: a watcher listed is one that runs and has
  subscribers (`TableInv`); a version noted was read earlier (`FreshInv`); a
  failed put closes its connection for good (`LossInv`); what was noted for
  a connection is on its queue, shown or lost (`NotedInv`).
- **DuckDebt**, `DebtInv`: one reply is between the token and its end
  (`TokenInv`); as it restores the rooms, the marker is its plan, and a room is as
  the listener had it, or still to do, or failed (`RoomOf`); where it
  is in ducking the music says what the marker holds (`MusicOf`); and, with no
  crash and no refusal, what is stopped is to be started by somebody
  (`RestInv`).
- **Rendezvous**, `RendezvousInv`: words at a socket were connected by their
  sender and read by nobody; a reply belongs to one asker, and an
  acknowledgement is its first; and, as long as no two askers overlapped, nobody
  listens while one arms or leaves, and the name is free when it is linked
  (`AloneInv`).
- **InputClaim**, `BaseInv` and `WaitInv`: for each conversation,
  whose worker and release can be under way (`ThreadInv`); as long as nothing was
  lost or late, a request under way has its sender waiting (`AnsweredInv`); so a hot microphone
  has its claim, or the beat that makes it is on its way, or a release that will
  be followed by one (`ClaimInv`).
- **SessionHost**, `BaseInv`: which processes run, that one of them at most serves
  its session, whose card is up, and what the release thread has in hand (`RelInv`). `HostInv` adds that what is held is held once and for its own
  session, and that what the release thread has sent was written (`HeldInv`); and
  that the notes written, due and under way are no more than the cuts
  (`ResumeInv`).
- **SpeechFrames**, `FramesInv`: a run's frames are numbered without a hole and
  past those of all runs before; the phone's stream is the one opened last; what
  is on the wire is in order, ahead of what was applied and behind the stream's
  cursor; and up to that cursor nothing sent since the phone connected is
  missing but what is on the wire or waited too long (`KnownInv`), which a report
  repeats as of when it was made (`ReportInv`).

Each invariant was model-checked on its run's instance before it was proved.
The proofs have a lemma per group of actions and conjunct, with a step per
action.

Model-checked only: liveness (`EveryReplyEnds`, `EveryCallEnds`, `StreamLetGo`,
`CatchesUp`, `HeldGoesOut`, `HotIsHeld`, `SilenceReleases`, `ComesToAgree`):
it rests on fairness, hence on ENABLED, which the prover does not do. Every
invariant, action property and refinement that a passing run checks is proved.

## Where code and documentation disagree

One has a run, `opened_together`, and an entry in `PROJECT.json`: `NothingLost`,
the comment at thread_events.py:600 that whatever changes while a snapshot is
built "is queued behind it rather than lost". `subscribe` lists the watcher
before its baseline is read, so a second connection may join and build its
snapshot first; what changes between the two never reaches it.

The others came up while modelling. Their modules have the steps, so that each
can be seen again with a formula and a cfg of one's own; no run is kept for them.

1. `NotClobbered` (Rendezvous): the probe of a second asker ends the first one's wait.
2. `JumpNotUndone` (SpeechFrames): a jump just made is undone by old news once an
   older frame was lost.
3. An ambient (LOW) reply that finds the token held is not dropped but plays over
   the holder; only thinking speech looks at `_fd` (submit.py:2396, 4829).
4. The re-announcement during a hold keeps the old stamp, and the TTL is
   measured from it: a long hold costs a reply its place (submit.py:4800, 2178).
5. A paused reply that steps aside is not registered until after its probe; its
   sibling can pass.
6. Two URGENT messages of a conversation interrupt each other at every sentence.
7. Two supersedes race on the marker, and the lower stamp may win.
8. The phone named by the setting keeps its stream, and takes jobs, after it is
   revoked.
9. DuckDebt's three `Races`, and SessionHost's lingering child (above).

## Not modelled

Presentation (visual canvas), storage and formatting behind HTTP routes
(contents), I/O round trips (sinks, render, engines, shims), the Android
service, the installer: none has control flow that the voice depends on beyond
what its callers' models let happen at any time. The state store is modelled
where a component reads a decision from it. Asks (keys typed into a terminal
dialog) depend on how a pane draws itself, which is not in this repository.

Hazards known and without a property: a hold that lands between the wait for
holds and the take (submit.py:4840); the sentence a superseded reply may still
speak after a yield (submit.py:5797); the cut record (below). `PROJECT.json` has
the list.

## Plan

1. `SpeechCut`: the cut record's read-modify-write (submit.py:1615) and its
   modes; the hold's unnamed marker and the lift of everyone's, composed with
   SpeechLock's `hold` as the refinement of one flag.
2. SpeechFrames with the broker's claim, a second device and `select_output`.
3. An abstract `Mailbox` (*each message delivered in order, each cut-off taken
   up once*) that SessionHost implements; its usage limit and interrupts.
4. `Moves` (a deferred move against a busy session, cancel, restart), `Reap` and
   the pairing codes of `devices`.

Theorems to come: the invariants of the modules above, as these are written; and
the order in which held messages are sent as a refinement of `Mailbox`.
