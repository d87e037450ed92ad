# Kannader in TLA+

A formal model of kannader, an SMTP server in Rust, kept beside its code: TLA+
modules for its mail queue, its SMTP server and its SMTP client, TLC configurations that check
them on small instances, and TLAPS proofs for every size of the queue.

## The system

| Part | State | Operations | What is hard about it |
|---|---|---|---|
| `smtp-queue` | tasks on an executor | start-up scans, send, retry, clean up | tasks of one or several processes race on the same mail; crashes at any point |
| `smtp-queue-fs` | files, folders, symlinks | rename, write, remove | several system calls per operation, each may fail or be the last one |
| `smtp-server` | read buffer, session, transaction | read, one handler per command, DATA, STARTTLS | reads cut the stream anywhere, clients pipeline, handlers fail half-way |
| `smtp-message` | codec and parser state | parse, print, escape, unescape | incremental: input and output may stop after any byte |
| `smtp-client` | connection, last error | connect, EHLO, STARTTLS, send | many fall-backs; an answer may be lost after the remote acted on it |
| `kannader` | all of the above | `handle_mail`, start-up, WASM hooks | joins server, queue and client: who answers for a mail, and from when |
| `kannader-config*` | none | generated glue | not modelled |

A client's mail passes through them in this order: `smtp_server::interact` reads
commands and calls `ServerConfig::handle_mail`, which streams the message into a
queue `Enqueuer` and commits it; the queue sends each recipient's copy through a
`Transport` made of `smtp-client`, and retries or gives up as its configuration
says; finally it removes the files.

## Modules

| Module | Models | Lines of code |
|---|---|---|
| `MailQueue` | `smtp-queue` over `smtp-queue-fs`, and the part of `handle_mail` that uses it | `smtp-queue/src/lib.rs`, `smtp-queue-fs/src/lib.rs`, `kannader/src/server_config.rs` |
| `MailLifecycle` | what the queue promises for one recipient | the `Storage` trait |
| `SmtpServer` | one connection: `interact`, `EscapedDataReader`, the part of `handle_mail` that reads | `smtp-server/src/lib.rs`, `smtp-message/src/data.rs`, `misc.rs` |
| `SmtpDialogue` | what a session promises the client | the loop of `interact`, seen from outside |
| `SmtpClient` | one delivery attempt: `Client::connect`, `Sender::send` | `smtp-client/src/lib.rs`, `kannader/src/queue_transport.rs`, `client_config.rs` |
| `MCMailQueue`, `MCSmtpServer`, `MCSmtpClient` | constants for TLC | |
| `MailQueueProofs`, `SmtpClientProofs` | proofs about `MailQueue` and `SmtpClient` | |

`PROJECT.json` gives the source lines of every definition.

### MailQueue

On disk: `link[d]` is the folder (`queue`, `inflight`, `cleanup`) that holds the
symlink of recipient `d`; `destDir`, `files`, `mailDir` and `contents` are the data
folders and files. In memory: `pc[t]` says where each task is. A task is
identified by the instance that runs it, the code that spawned it (`recheck`,
`scan`, `commit`, `sweep`) and its recipient. `enq[m]` follows a mail through
`enqueue` and `commit`.

Each action is a storage call with what the code does up to the next one. Renames
are atomic; `commit`, `reschedule` and `cleanup`, which make several system calls,
are split where another task, or a restart, can see the difference. The calls of
`make_dest_dir` before its symlink are one step, and so are those of `cleanup` on
the folder of one recipient: until the symlink exists, and once it is in the
cleanup folder, nobody else looks there. A failing call that is retried and leaves no trace is a
stuttering step; the others (a failing `commit`, a scan that cannot read an entry,
a `reschedule` that leaves its temporary file) count against `MaxIoErrors`.
`crash(i)` ends an instance: its tasks are gone, the disk stays.

Abstractions and assumptions:

- Dates are left out: a queued mail may be tried at any moment. The one delay that
  matters, `found_inflight_check_delay`, is modelled by its contract (it is longer
  than an attempt): `watch` holds the attempts that were running when the mail was
  listed, and the check waits for them to end.
- A scan visits each entry once, at any moment while it runs, which is what
  reading a directory that changes promises.
- In `cleanup`, listing the mail's folder (`cleanup_list`) and removing the contents
  (`cleanup_contents`) are separate steps.
- The undo of a failed `commit` ignores its errors. Each of its removals may fail,
  and these failures are free (they do not count against `MaxIoErrors`). `spared`
  records the recipients whose files and contents all survived it.
- The remote server may take the mail although the attempt fails (its answer was
  lost); the variables `accepted` and `unsure` record this for the properties.

### SmtpServer

`at` is where `interact` is: before the banner, in its loop, skipping a line that
is no command or is too long, in `handle_mail`, reading what `handle_mail` left,
in `tls_accept`, or returned. `unhandled` holds the characters of
`rdbuf[unhandled]` and `start` the beginning of that range, so that the arithmetic
that decides between compacting the buffer, reading and refusing a line is the
code's own. `reader` is the state of `EscapedDataReader`, `crlf` that of
`next_crlf`.

The client sends the lines of a script. A line is a few characters of the classes
the code tells apart (a verb, `.`, CR, LF, other text), numbered with their line.
Reads return any non-empty prefix of what was sent that fits, or fail. Hooks take
any decision (`Accept`, `Reject`, `Kill`), `can_do_tls` gives any answer at any time,
any reply may fail to be written.

Abstractions and assumptions:

- The grammar of commands is reduced to: this line is that command, or is none. A
  line that is none may be recognised as such before its CRLF was read.
- `NOOP` stands for the five commands that only have a simple handler.
- Hooks do not change the transaction behind `interact`'s back.
- `tls_accept` succeeds only if no clear text is left on the wire: the TLS library
  takes whatever comes next for its handshake.
- `handle_mail` reads with one buffer that is not larger than `rdbuf`, as its
  documentation asks.

### SmtpClient

`at` is where the search for a server is (asking for exchanges, picking one, asking
for its addresses, connecting, in a session, done), `step` the step of the session,
`waiting` whether its reply is awaited. `mxes`, `ips`, `first_error` and
`host_error` are the loop variables of `connect_to_mx` and `connect_to_host`;
`start` and `unhandled` the buffer of `read_reply`, with the code's arithmetic.
`taken` holds the servers that took the mail.

The remote servers are external: they answer the commands in turn, with any kind of
reply, or say 421 and close, close, or fall silent; up to `MaxUnasked` times in a
connection they say something that nobody asked for. A reply travels in pieces; a
read returns any number of them. What was read before the TLS handshake is still in
the buffer after it, as in the code.

Abstractions and assumptions:

- A reply is its kind, the subject of its enhanced code, and whether it offers
  STARTTLS; text that is no reply is of kind `garbage`.
- A server that spoke unasked can have any of its words taken for an answer:
  `RepliesInStep` and `ResultIsTruthful` are about servers that did not. The other
  properties hold for all of them.
- `can_do_tls` and `must_do_tls` are what the configuration says; each time one is
  asked the hook may fail, which `client_config.rs` takes for yes and for no.
  `unheard` records that `must_do_tls` failed.
- `tls_connect` succeeds only on a connection with nothing to read in clear.
- The DNS resolver reports an empty answer as an error.
- Of a reply to the mail that is neither a 2xx nor negative, nobody knows whether
  the server took the mail: both are possible.

## What TLC checks

Deadlock is not an error in these models: the queue rests when every mail is gone,
and a session ends.

| Run | Instance | Properties | States |
|---|---|---|---|
| `queue_crash` | 1 instance, 1 mail for 2 recipients, 1 crash | `QueuedMailReadable`, `NoOrphanedData`, `NoStealing` | 1.7 M |
| `queue_errors` | same, 1 storage error instead | `QueuedMailReadable`, `RefusedNotSent` | 500 k |
| `queue_shared` | 2 instances, 1 recipient, 1 storage error | `RemovedOnlyIfHandled`, `ExclusiveSend` | 660 k |
| `queue_progress` | 1 instance, 1 recipient, 2 crashes, 2 errors, fair | `TypeOK`, `DuplicateOnlyIfUnsure`, `ImplementsLifecycle`, `AckedKeepsMoving`, `CleanupFinishes` | 47 k |
| `server_session` | 408 SMTP scripts of up to 8 lines, buffer of 6 | `TypeOK`, `TooLongIsTooLong`, `EnvelopeAsAcknowledged`, `TlsStartsAfresh`, `ImplementsDialogue` | 3.4 M |
| `server_progress` | LMTP scripts of up to 7 lines, 2 recipients, buffer of 5, fair | `ImplementsDialogue`, `LinesGetHandled`, `SilenceEndsSession` | 560 k |
| `client_attempt` | 2 exchanges, or 1 host with 2 addresses; every kind of reply, of 1 or 2 pieces, buffer of 1, fair | `ResultIsTruthful`, `AtMostOneTakes`, `ClearOnlyIfAllowed`, `AttemptEnds` | 530 k |
| `client_session` | 1 address, a server that speaks once unasked; replies of 1, 2 or 4 pieces, buffer of 3 | `TypeOK`, `ClearOnlyIfAllowed`, `RepliesInStep`, `TooLongIsTooLong` | 2.3 M |

Why the bounds are enough. In the queue, recipients of different mails share
nothing, so one mail with two recipients shows every interaction between
recipients (concurrent cleanups), and two instances every interaction between
processes; two crashes let a restart be interrupted itself. In the server, a
script is an ordinary session with any one line replaced, left out or added, which
puts every command in every state of the transaction. A buffer of six characters
holds two short lines, so that a pipelined command can be complete in it, or
incomplete at its end; lines that fill it exactly or exceed it by one are among
the scripts. In the client, two exchanges or two addresses make every loop go round
once after a failure, and a reply of two pieces exceeds the buffer. In one
connection, a reply of four pieces exceeds the buffer; a reply of one or two pieces
followed by an unasked one, or by a goodbye, leaves a rest in it that is completed in
place, or has to be moved first.

### Disagreements between code and documentation

Four more runs state what a comment or the book says and end in a counterexample.

- `queue_concurrent_send`: instances that share a folder can send the same mail at
  the same time. The delayed check of one takes a mail out of the inflight folder
  that another has started since. The comment on the check relies on a new random
  name for each attempt, but the name stays the same. With a single instance this
  cannot happen (`NoStealing`).
- `queue_early_scan`: the scan at start-up can start the first recipient of a mail
  while `commit` is still creating the others; cleaning up that recipient removes
  the contents of the mail. The book describes an order (all folders first, then all
  symlinks) in which this cannot happen. This is why `QueuedMailReadable`,
  `RefusedNotSent` and `NoOrphanedData` leave out mails in `early`.
- `client_starttls`: what was read behind the reply to STARTTLS stays in the buffer
  and is taken for the first reply of the encrypted session. A comment says that
  pipelining is forbidden there and leaves the check to be written. This is why
  `RepliesInStep` is restricted to servers that speak only when asked.
- `queue_stuck_cleanup`: a `schedule.<uuid>` file left behind by an interrupted
  `reschedule` blocks the removal of its folder for ever. The book says that
  everything in it is removed.

### Fairness

`MailQueue!FairSpec`: every task that can run does (the executor has threads of its
own, and retry loops never stop), attempts end (`AttemptEnds`; the TLS handshake is
assumed not to hang), and a process that died is started again. Nothing is assumed of clients
that hand in mails or of the number of crashes and errors.

`SmtpServer!FairSpec`: a connection with something to read or to do is polled, and
its timers fire. The client owes nothing; neither do `tls_accept` and the queue,
whose failures are possible but never forced.

`SmtpClient!FairSpec`: the attempt is polled and the timers of its reads and writes
fire. The resolver, `TcpStream::connect` and `mail.read` have no timer in the code:
that they return, with an error if need be, is assumed of the operating system and of
the disk. The remote servers owe nothing. `tls_connect` has no timer either, and
depends on the remote server alone, so that an attempt can stay in it for ever;
`AttemptEnds` leaves it out.

## What is proved

### The queue

TLAPS checks these for all constants: any number of instances, mails, recipients,
crashes and errors, from `ConstantsAssumption` alone (`MailOf` maps recipients to
mails, every mail has one).

| Theorem | States |
|---|---|
| `TypeCorrect` | `Spec => []TypeOK` |
| `InflightIsALock` | `Spec => []ExclusiveSend` |
| `NothingDropped` | `Spec => []RemovedOnlyIfHandled` |
| `ResentOnlyIfUnsure` | `Spec => []DuplicateOnlyIfUnsure` |
| `QueuedIsKept` | `Spec => []QueuedMailReadable` |
| `RefusedIsNotSent` | `Spec => []RefusedNotSent` |
| `CleanupIsComplete` | `Spec => []NoOrphanedData` |
| `ChecksAreHarmless` | with one instance, `Spec => []NoStealing` |
| `QueueImplementsLifecycle` | with one instance, `Spec => ImplementsLifecycle` |

The argument goes up in layers, each with an inductive invariant that uses the
ones below.

1. *Types*, then *the lock*: a task that holds a mail not in `stolen` finds its
   symlink in `inflight`, and is the only one. Only `send_start` moves a symlink
   there, and only the holder or a delayed check moves it out.
2. *Handled*: a task that is about to record success, or to drop, has a reason in
   `accepted` or `givenUp`.
3. *Slots* (`SlotsFree`): when a scan or a commit spawns a task, no task with that
   identity is running. Without this a spawn could overwrite a task that is
   sending, and nothing below would be inductive.
4. *Recorded*: whatever the remote took is on its way to be recorded, is recorded,
   or is in `unsure` or `stolen`.
5. *Fresh*: for a mail no scan saw early, what exists on disk follows from how far
   `commit` got, and no task touches it before `commit` returns. From this,
   *readable*; and *refused*: a recipient of a mail whose `commit` failed misses a file
   or the contents, so that no task gets past `read_inflight`, or is in `spared`.
6. *Swept*: as long as something of an accepted mail is
   left, some recipient is left, or some cleanup that will still look at it, or that
   saw it is the last (`ListedEmpty`). This
   is the argument that two concurrent cleanups cannot leave the contents to each
   other.
7. *SingleInv*: with one instance, a mail in the list of a
   delayed check is not being sent by anyone. This gives `NoStealing`, and that
   gives the step simulation of `MailLifecycle`.

Frame lemmas (`SpawnFrame`, `VisitFrame`, `TaskStepFrame`, ...) say once what an
action leaves alone, so that each proof of a layer has only the cases that matter.

### The client

For all constants as well: any exchanges, addresses and preferences, any number of
blocks, any sizes of replies, any `Capacity` of `rdbuf` and any bound on what servers
say unasked, from `ClientAssumption` (there is an address for each host, a mail has at
least one block, a reply at least one piece, and `MINIMUM_FREE_BUFSPACE` is positive and
fits in `rdbuf`).

| Theorem | States |
|---|---|
| `ClientIsTyped` | `Spec => []TypeOK` |
| `TooLongDoesNotFit` | `Spec => []TooLongIsTooLong` |
| `ClearIsAllowed` | `Spec => []ClearOnlyIfAllowed` |
| `OneServerAtMost` | `Spec => []AtMostOneTakes` |
| `ResultsAreTruthful` | `Spec => []ResultIsTruthful` |
| `StaysInStep` | `Spec => []RepliesInStep` |

1. *Types* (`TypeInv`): besides `TypeOK`, an address is left when one is dialled, and
   no reply is awaited while the body is sent or TLS negotiated. With the bound on the
   unhandled range this gives `TooLongIsTooLong`: without room, `First` is 0 and the
   whole buffer holds no end of a reply.
2. *Clear* (`ClearInv`): a session without TLS gets past EHLO only if it may.
3. *Mail* (`MailInv`): nobody but the server at `ip` has the mail, and none is awaiting
   its end before the session is in its body. A session that fails before is followed
   by another; one that fails later ends the attempt.
4. *Session* (`SessionInv`), for a server that spoke only when asked: what is in the
   buffer and on the wire, seen as one `Stream`, is at most one reply, to what is being
   waited for, then maybe a goodbye; and if the mail was taken, the answer that says so
   comes first in it. Reading does not change the `Stream` and parsing takes one reply
   off it. Once the attempt is over, a result that is conclusive stays true because
   nothing is left for the server to answer.

Only model-checked: liveness (`AckedKeepsMoving`, `CleanupFinishes`,
`LinesGetHandled`, `SilenceEndsSession`, `AttemptEnds`), which the proof system
cannot handle, and so far everything about `SmtpServer`.

## Not modelled

- Parsing and printing of commands, replies, hostnames and addresses, beyond what
  the server's loop depends on: pure functions over strings.
- The WASM interface and its generated code; hooks are free choices.
- Listening, threads, TLS and DNS libraries.
- The outgoing half of the DATA codec: see the plan.

## Plan

1. `DataCodec`: `EscapingDataWriter`, `EscapedDataReader` and `DataUnescaper`
   byte by byte, checked against a reference definition of dot-stuffing for every
   way of cutting the stream.
2. A composition of server, queue and client: a mail that was acknowledged reaches
   the remote server, or its sender's configuration gave up on it; the transport of
   `MailQueue` as an abstraction of `SmtpClient`.
3. Proofs about `SmtpServer` (type correctness with the bounds of the buffer, the
   envelope, TLS, and the refinement of `SmtpDialogue`).
