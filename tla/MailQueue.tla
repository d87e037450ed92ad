----------------------------- MODULE MailQueue -----------------------------
(***************************************************************************)
(* The outgoing mail queue: the tasks of smtp-queue (Queue::new, send,     *)
(* try_send, cleanup, the three start-up scans, Enqueuer::commit) running  *)
(* over the directories of smtp-queue-fs.                                  *)
(*                                                                         *)
(* A mail m is a folder data/<m> holding `contents' and one sub-folder per *)
(* recipient d; d also names the symlink that moves between the queue,     *)
(* inflight and cleanup folders.  Several server instances may share the   *)
(* folders; each may crash and be started again.  A task is identified by  *)
(* the instance that runs it, the code that spawned it and its recipient.  *)
(*                                                                         *)
(* A rename is one atomic step, as book/src/queue_internals.md assumes.    *)
(* Calls that make several file-system calls are split where another task  *)
(* can tell the difference.  A storage error that is retried with no trace *)
(* left on disk (io_retry_loop!) is a stuttering step.                     *)
(***************************************************************************)
EXTENDS Naturals, FiniteSets

CONSTANTS
    Instances,      \* server processes that may share the queue folder
    Mails,          \* mails handed to Queue::enqueue
    Dests,          \* recipients; also the names of their symlinks
    MailOf,         \* the mail a recipient belongs to
    MaxCrashes,     \* bound on the number of crashes
    MaxIoErrors     \* bound on the storage errors that leave a trace (those
                    \* of a failing commit's own undo are not counted)

ASSUME ConstantsAssumption ==
    /\ MailOf \in [Dests -> Mails]
    /\ \A m \in Mails : \E d \in Dests : MailOf[d] = m
    /\ MaxCrashes \in Nat
    /\ MaxIoErrors \in Nat

Origins == {"recheck", "scan", "commit", "sweep"}

Tasks == Instances \X Origins \X Dests

Inst(t) == t[1]
Origin(t) == t[2]
Dest(t) == t[3]

DestsOf(m) == {d \in Dests : MailOf[d] = m}

Folders == {"inflight", "cleanup", "queue"}

VARIABLES
    \* On disk
    link,       \* the folder a recipient's symlink is in, "none" or "gone"
    destDir,    \* recipients whose folder data/<mail>/<dest> exists
    files,      \* the files of each recipient's folder
    mailDir,    \* mails whose folder data/<mail> exists
    contents,   \* mails whose file data/<mail>/contents exists
    leaked,     \* recipients with an abandoned schedule.<uuid> file
    \* In the processes
    up,         \* each instance: "down", "starting" or "running"
    todo,       \* entries each start-up scan has still to visit
    pc,         \* where each task is
    watch,      \* sends that were running when a found mail was listed
    enq,        \* each mail's progress through enqueue and commit
    undo,       \* recipients a failing commit has still to clean up
    owner,      \* the instance that receives each mail
    \* What happened, for the properties
    accepted,   \* recipients whose mail the remote server took
    unsure,     \* recipients with an acceptance that send_done never recorded
    givenUp,    \* recipients dropped because next_interval returned None
    early,      \* mails picked up by a scan before their commit returned
    stolen,     \* recipients put back in the queue while being sent
    missed,     \* recipients the last start-up scan failed to read
    spared,     \* recipients of a failed commit that its undo left readable
    crashes,
    ioErrors

disk == <<link, destDir, files, mailDir, contents, leaked>>
mailVars == <<enq, undo, owner>>
history == <<accepted, unsure, givenUp, early, stolen, missed,
             spared>>
bounds == <<crashes, ioErrors>>
vars == <<disk, up, todo, pc, watch, mailVars, history, bounds>>

Links == {"none", "queue", "inflight", "cleanup", "gone"}

DestFiles == {"metadata", "schedule"}

SendPC == {"check", "waiting", "reading", "sending", "sent", "failed",
           "resched", "rename", "drop"}
CleanPC == {"rmDest", "list", "rmContents", "rmMail", "rmLink"}
PC == {"idle"} \cup SendPC \cup CleanPC

\* Between a successful send_start and the end of the attempt.
HoldingPC == {"reading", "sending", "sent", "failed"}
Holding(t) == pc[t] \in HoldingPC

\* "failed": the client was told so; "lost": the process died before it replied;
\* "cut": it died while undoing a failed commit.
Enq == {"new", "open", "commit", "unwind", "acked", "failed", "lost", "cut"}

DiskOK ==
    /\ link \in [Dests -> Links]
    /\ destDir \subseteq Dests
    /\ files \in [Dests -> SUBSET DestFiles]
    /\ mailDir \subseteq Mails
    /\ contents \subseteq Mails
    /\ leaked \subseteq Dests

ProcessOK ==
    /\ up \in [Instances -> {"down", "starting", "running"}]
    /\ todo \in [Instances -> [Folders -> SUBSET Dests]]
    /\ pc \in [Tasks -> PC]
    /\ watch \in [Tasks -> SUBSET Tasks]
    /\ enq \in [Mails -> Enq]
    /\ undo \subseteq Dests
    /\ owner \in [Mails -> Instances]

HistoryOK ==
    /\ accepted \subseteq Dests
    /\ unsure \subseteq Dests
    /\ givenUp \subseteq Dests
    /\ early \subseteq Mails
    /\ stolen \subseteq Dests
    /\ missed \subseteq Dests
    /\ spared \subseteq Dests
    /\ crashes \in 0 .. MaxCrashes
    /\ ioErrors \in 0 .. MaxIoErrors

\* The folders, the processes and the record of what happened keep their types:
\* only `metadata' and `schedule' are ever found in a recipient's folder under
\* those names, and the bounds are respected.
TypeOK == DiskOK /\ ProcessOK /\ HistoryOK

Init ==
    /\ link = [d \in Dests |-> "none"]
    /\ destDir = {}
    /\ files = [d \in Dests |-> {}]
    /\ mailDir = {}
    /\ contents = {}
    /\ leaked = {}
    /\ up = [i \in Instances |-> "down"]
    /\ todo = [i \in Instances |-> [f \in Folders |-> {}]]
    /\ pc = [t \in Tasks |-> "idle"]
    /\ watch = [t \in Tasks |-> {}]
    /\ enq = [m \in Mails |-> "new"]
    /\ undo = {}
    /\ owner \in [Mails -> Instances]
    /\ accepted = {}
    /\ unsure = {}
    /\ givenUp = {}
    /\ early = {}
    /\ stolen = {}
    /\ missed = {}
    /\ spared = {}
    /\ crashes = 0
    /\ ioErrors = 0

IoError ==
    /\ ioErrors < MaxIoErrors
    /\ ioErrors' = ioErrors + 1

Goto(t, l) == pc' = [pc EXCEPT ![t] = l]

\* A schedule.<uuid> file stands in the recipient's folder.
HasTmp(d) == d \in leaked \/ \E t \in Tasks : Dest(t) = d /\ pc[t] = "rename"

-----------------------------------------------------------------------------
(* Start-up and crash of an instance                                       *)

\* Mutant: scan_queue is not kept back until the mails in flight are listed.
new_scanning_all(i) ==
    /\ up[i] = "down"
    /\ up' = [up EXCEPT ![i] = "starting"]
    /\ todo' = [todo EXCEPT ![i] = [f \in Folders |-> Dests]]
    /\ UNCHANGED <<disk, pc, watch, mailVars, history, bounds>>

\* Queue::new begins: scan_inflight and scan_pending_cleanup are joined.
new(i) ==
    /\ up[i] = "down"
    /\ up' = [up EXCEPT ![i] = "starting"]
    /\ todo' = [todo EXCEPT ![i] =
                    [f \in Folders |-> IF f = "queue" THEN {} ELSE Dests]]
    /\ UNCHANGED <<disk, pc, watch, mailVars, history, bounds>>

\* Both joined scans are over: scan_queue is spawned and the queue returned.
new_return(i) ==
    /\ up[i] = "starting"
    /\ todo[i]["inflight"] = {}
    /\ todo[i]["cleanup"] = {}
    /\ up' = [up EXCEPT ![i] = "running"]
    /\ todo' = [todo EXCEPT ![i]["queue"] = Dests]
    /\ UNCHANGED <<disk, pc, watch, mailVars, history, bounds>>

\* The lister reaches the name d of a folder: it opens the schedule file
\* through the symlink, and what it finds decides.
Visit(i, f, d) ==
    /\ d \in todo[i][f]
    /\ todo' = [todo EXCEPT ![i][f] = @ \ {d}]

\* The entry is not in the folder, or its schedule cannot be opened.
scan_nothing(i, f, d) ==
    /\ Visit(i, f, d)
    /\ \/ link[d] # f
       \/ f # "cleanup" /\ "schedule" \notin files[d]
    /\ UNCHANGED <<disk, up, pc, watch, mailVars, history, bounds>>

\* A storage error is logged, and what it hit is skipped: one entry, or, when
\* reading the folder itself fails, all the entries not yet visited.
scan_error(i, f, hit) ==
    /\ hit # {}
    /\ hit = todo[i][f] \/ \E d \in todo[i][f] : hit = {d}
    /\ todo' = [todo EXCEPT ![i][f] = @ \ hit]
    /\ IoError
    /\ missed' = missed \cup {d \in hit : link[d] = f}
    /\ UNCHANGED <<disk, up, pc, watch, mailVars, accepted, unsure, givenUp,
                   early, stolen, spared, crashes>>

\* Mutant: the mail found in flight is logged and forgotten.
scan_inflight_log_only(i, d) ==
    /\ Visit(i, "inflight", d)
    /\ link[d] = "inflight"
    /\ "schedule" \in files[d]
    /\ UNCHANGED <<disk, up, pc, watch, mailVars, history, bounds>>

\* A mail found in flight: a task will look again after
\* found_inflight_check_delay.
scan_inflight(i, d) ==
    /\ Visit(i, "inflight", d)
    /\ link[d] = "inflight"
    /\ "schedule" \in files[d]
    /\ Goto(<<i, "recheck", d>>, "check")
    /\ watch' = [watch EXCEPT ![<<i, "recheck", d>>] =
                    {u \in Tasks : Dest(u) = d /\ Holding(u)}]
    /\ missed' = missed \ {d}
    /\ UNCHANGED <<disk, up, mailVars, accepted, unsure, givenUp, early, stolen,
                   spared, bounds>>

\* Mutant: the interrupted removal is logged and forgotten.
scan_pending_cleanup_log_only(i, d) ==
    /\ Visit(i, "cleanup", d)
    /\ link[d] = "cleanup"
    /\ UNCHANGED <<disk, up, pc, watch, mailVars, history, bounds>>

scan_pending_cleanup(i, d) ==
    /\ Visit(i, "cleanup", d)
    /\ link[d] = "cleanup"
    /\ Goto(<<i, "sweep", d>>, "rmDest")
    /\ missed' = missed \ {d}
    /\ UNCHANGED <<disk, up, watch, mailVars, accepted, unsure, givenUp, early,
                   stolen, spared, bounds>>

scan_queue(i, d) ==
    /\ Visit(i, "queue", d)
    /\ link[d] = "queue"
    /\ "schedule" \in files[d]
    /\ Goto(<<i, "scan", d>>, "waiting")
    /\ early' = IF enq[MailOf[d]] \in {"commit", "unwind"}
                THEN early \cup {MailOf[d]} ELSE early
    /\ missed' = missed \ {d}
    /\ UNCHANGED <<disk, up, watch, mailVars, accepted, unsure, givenUp,
                   stolen, spared, bounds>>

\* What the death of its process makes of a mail being received.
Died(e) ==
    IF e \in {"open", "commit"} THEN "lost" ELSE IF e = "unwind" THEN "cut" ELSE e

\* The process dies: every task is gone, the folders stay as they are.
crash(i) ==
    LET mine == {t \in Tasks : Inst(t) = i} IN
    /\ up[i] # "down"
    /\ crashes < MaxCrashes
    /\ crashes' = crashes + 1
    /\ up' = [up EXCEPT ![i] = "down"]
    /\ todo' = [todo EXCEPT ![i] = [f \in Folders |-> {}]]
    /\ pc' = [t \in Tasks |-> IF t \in mine THEN "idle" ELSE pc[t]]
    /\ watch' = [t \in Tasks |->
                    IF t \in mine THEN {} ELSE watch[t] \ mine]
    /\ leaked' = leaked \cup {Dest(t) : t \in {u \in mine : pc[u] = "rename"}}
    /\ unsure' = unsure \cup {Dest(t) : t \in {u \in mine : pc[u] = "sent"}}
    /\ enq' = [m \in Mails |->
                 IF owner[m] = i THEN Died(enq[m]) ELSE enq[m]]
    /\ undo' = {d \in undo : owner[MailOf[d]] # i}
    /\ UNCHANGED <<link, destDir, files, mailDir, contents, owner, accepted,
                   givenUp, early, stolen, missed, spared, ioErrors>>

-----------------------------------------------------------------------------
(* Sending: send and try_send                                              *)

MoveLink(d, from, to) ==
    /\ link[d] = from
    /\ link' = [link EXCEPT ![d] = to]

\* The attempt of t is over: checks that were waiting for it may run.
EndAttempt(t) == watch' = [u \in Tasks |-> watch[u] \ {t}]

\* The delayed check of a mail found in flight.  By the contract of
\* found_inflight_check_delay, the attempts it saw are over by now.  If the
\* symlink is (or is again) in the inflight folder, it goes to the queue.
recheck(t) ==
    LET d == Dest(t) IN
    /\ pc[t] = "check"
    /\ watch[t] = {}
    /\ \/ /\ MoveLink(d, "inflight", "queue")
          /\ Goto(t, "waiting")
          /\ stolen' = IF \E u \in Tasks : Dest(u) = d /\ Holding(u)
                       THEN stolen \cup {d} ELSE stolen
       \/ /\ link[d] # "inflight"
          /\ Goto(t, "idle")
          /\ UNCHANGED <<link, stolen>>
    /\ UNCHANGED <<destDir, files, mailDir, contents, leaked, up, todo, watch,
                   mailVars, accepted, unsure, givenUp, early, missed, spared,
                   bounds>>

\* Mutant: a failed rename is taken for a successful one.
send_start_unchecked(t) ==
    LET d == Dest(t) IN
    /\ pc[t] = "waiting"
    /\ link' = [link EXCEPT ![d] = IF @ = "queue" THEN "inflight" ELSE @]
    /\ Goto(t, "reading")
    /\ UNCHANGED <<destDir, files, mailDir, contents, leaked, up, todo, watch,
                   mailVars, history, bounds>>

\* The wait is over.  A symlink that is no longer in the queue ends the task.
send_start(t) ==
    LET d == Dest(t) IN
    /\ pc[t] = "waiting"
    /\ \/ /\ MoveLink(d, "queue", "inflight")
          /\ Goto(t, "reading")
       \/ /\ link[d] # "queue"
          /\ Goto(t, "idle")
          /\ UNCHANGED link
    /\ UNCHANGED <<destDir, files, mailDir, contents, leaked, up, todo, watch,
                   mailVars, history, bounds>>

\* Metadata and contents are opened; until they can be, the task retries.
read_inflight(t) ==
    LET d == Dest(t) IN
    /\ pc[t] = "reading"
    /\ link[d] = "inflight"
    /\ "metadata" \in files[d]
    /\ MailOf[d] \in contents
    /\ Goto(t, "sending")
    /\ UNCHANGED <<disk, up, todo, watch, mailVars, history, bounds>>

\* Mutant: the error of the transport is ignored.
transport_failure_ignored(t) ==
    /\ pc[t] = "sending"
    /\ Goto(t, "sent")
    /\ UNCHANGED <<disk, up, todo, watch, mailVars, history, bounds>>

\* destination, connect or send fails, and the remote took nothing.
transport_failure(t) ==
    /\ pc[t] = "sending"
    /\ Goto(t, "failed")
    /\ UNCHANGED <<disk, up, todo, watch, mailVars, history, bounds>>

\* The remote server takes responsibility for the mail.  Its reply arrives, or
\* a timeout or a broken connection hides it.
remote_accepts(t) ==
    /\ pc[t] = "sending"
    /\ accepted' = accepted \cup {Dest(t)}
    /\ \/ Goto(t, "sent") /\ UNCHANGED unsure
       \/ Goto(t, "failed") /\ unsure' = unsure \cup {Dest(t)}
    /\ UNCHANGED <<disk, up, todo, watch, mailVars, givenUp, early, stolen,
                   missed, spared, bounds>>

\* Mutant: the symlink is moved back to the queue instead of to cleanup.
send_done_to_queue(t) ==
    /\ pc[t] = "sent"
    /\ EndAttempt(t)
    /\ link' = [link EXCEPT ![Dest(t)] = IF @ = "inflight" THEN "queue" ELSE @]
    /\ Goto(t, "rmDest")
    /\ UNCHANGED <<destDir, files, mailDir, contents, leaked, up, todo,
                   mailVars, history, bounds>>

send_done(t) ==
    LET d == Dest(t) IN
    /\ pc[t] = "sent"
    /\ EndAttempt(t)
    /\ \/ /\ MoveLink(d, "inflight", "cleanup")
          /\ Goto(t, "rmDest")
          /\ UNCHANGED unsure
       \/ /\ link[d] # "inflight"
          /\ Goto(t, "idle")
          /\ unsure' = unsure \cup {d}
          /\ UNCHANGED link
    /\ UNCHANGED <<destDir, files, mailDir, contents, leaked, up, todo,
                   mailVars, accepted, givenUp, early, stolen, missed, spared,
                   bounds>>

\* A failed attempt: back to the queue, then next_interval decides between
\* another attempt and giving up.
send_cancel(t) ==
    LET d == Dest(t) IN
    /\ pc[t] = "failed"
    /\ EndAttempt(t)
    /\ \/ /\ MoveLink(d, "inflight", "queue")
          /\ Goto(t, "resched") \/ Goto(t, "drop")
       \/ /\ link[d] # "inflight"
          /\ Goto(t, "idle")
          /\ UNCHANGED link
    /\ UNCHANGED <<destDir, files, mailDir, contents, leaked, up, todo,
                   mailVars, history, bounds>>

drop(t) ==
    LET d == Dest(t) IN
    /\ pc[t] = "drop"
    /\ \/ /\ MoveLink(d, "queue", "cleanup")
          /\ Goto(t, "rmDest")
          /\ givenUp' = givenUp \cup {d}
       \/ /\ link[d] # "queue"
          /\ Goto(t, "idle")
          /\ UNCHANGED <<link, givenUp>>
    /\ UNCHANGED <<destDir, files, mailDir, contents, leaked, up, todo, watch,
                   mailVars, accepted, unsure, early, stolen, missed, spared,
                   bounds>>

\* Mutant: the old schedule is removed before the new one is in place.
reschedule_in_place(t) ==
    /\ pc[t] = "resched"
    /\ link[Dest(t)] = "queue"
    /\ Dest(t) \in destDir
    /\ files' = [files EXCEPT ![Dest(t)] = @ \ {"schedule"}]
    /\ Goto(t, "rename")
    /\ UNCHANGED <<link, destDir, mailDir, contents, leaked, up, todo, watch,
                   mailVars, history, bounds>>

\* reschedule: the recipient's folder is opened through the queue symlink (as
\* long as it is not there, the call is retried), a new schedule.<uuid> file
\* is written in it, and renamed to `schedule'.
reschedule_write(t) ==
    /\ pc[t] = "resched"
    /\ link[Dest(t)] = "queue"
    /\ Dest(t) \in destDir
    /\ Goto(t, "rename")
    /\ UNCHANGED <<disk, up, todo, watch, mailVars, history, bounds>>

\* Mutant: the new schedule keeps its temporary name.
reschedule_no_rename(t) ==
    /\ pc[t] = "rename"
    /\ files' = [files EXCEPT ![Dest(t)] = @ \cup {"schedule.uuid"}]
    /\ Goto(t, "waiting")
    /\ UNCHANGED <<link, destDir, mailDir, contents, leaked, up, todo, watch,
                   mailVars, history, bounds>>

reschedule_rename(t) ==
    /\ pc[t] = "rename"
    /\ files' = [files EXCEPT ![Dest(t)] = @ \cup {"schedule"}]
    /\ Goto(t, "waiting")
    /\ UNCHANGED <<link, destDir, mailDir, contents, leaked, up, todo, watch,
                   mailVars, history, bounds>>

\* Writing or renaming fails: the next try uses another uuid.
reschedule_error(t) ==
    /\ pc[t] = "rename"
    /\ IoError
    /\ leaked' = leaked \cup {Dest(t)}
    /\ Goto(t, "resched")
    /\ UNCHANGED <<link, destDir, files, mailDir, contents, up, todo, watch,
                   mailVars, history, crashes>>

-----------------------------------------------------------------------------
(* Removing a mail: cleanup                                                *)

\* The recipient's two files and its folder.  A folder that still holds a
\* schedule.<uuid> file cannot be removed: the whole call is retried.
cleanup_dest(t) ==
    LET d == Dest(t)
        stuck == d \in destDir /\ HasTmp(d) IN
    /\ pc[t] = "rmDest"
    /\ \/ /\ link[d] # "cleanup"
          /\ Goto(t, "idle")
          /\ UNCHANGED <<link, files, destDir>>
       \/ /\ MailOf[d] \notin mailDir
          /\ MoveLink(d, "cleanup", "gone")
          /\ Goto(t, "idle")
          /\ UNCHANGED <<files, destDir>>
       \/ /\ MailOf[d] \in mailDir
          /\ link[d] = "cleanup"
          /\ files' = [files EXCEPT ![d] = {}]
          /\ destDir' = IF stuck THEN destDir ELSE destDir \ {d}
          /\ Goto(t, IF stuck THEN "rmDest" ELSE "list")
          /\ UNCHANGED link
    /\ UNCHANGED <<mailDir, contents, leaked, up, todo, watch, mailVars,
                   history, bounds>>

\* Mutant: the contents go with the first recipient.
cleanup_list_unchecked(t) ==
    /\ pc[t] = "list"
    /\ Goto(t, "rmContents")
    /\ UNCHANGED <<disk, up, todo, watch, mailVars, history, bounds>>

\* Mutant: the other symlinks are looked at, not the other folders.
cleanup_list_links(t) ==
    LET d == Dest(t)
        last == \A e \in DestsOf(MailOf[d]) \ {d} : link[e] = "gone" IN
    /\ pc[t] = "list"
    /\ Goto(t, IF last THEN "rmContents" ELSE "rmLink")
    /\ UNCHANGED <<disk, up, todo, watch, mailVars, history, bounds>>

\* The mail's folder is listed: is anything but the contents left in it?  (If
\* the folder itself is gone, only the symlink remains to be removed: so it is
\* here, for the two steps in between find nothing to do.)
cleanup_list(t) ==
    LET should_rm_mail_dir == DestsOf(MailOf[Dest(t)]) \cap destDir = {} IN
    /\ pc[t] = "list"
    /\ Goto(t, IF should_rm_mail_dir THEN "rmContents" ELSE "rmLink")
    /\ UNCHANGED <<disk, up, todo, watch, mailVars, history, bounds>>

cleanup_contents(t) ==
    /\ pc[t] = "rmContents"
    /\ contents' = contents \ {MailOf[Dest(t)]}
    /\ Goto(t, "rmMail")
    /\ UNCHANGED <<link, destDir, files, mailDir, leaked, up, todo, watch,
                   mailVars, history, bounds>>

\* A folder added since the listing makes this fail, and the call is retried.
cleanup_mail(t) ==
    LET m == MailOf[Dest(t)]
        empty == DestsOf(m) \cap destDir = {} IN
    /\ pc[t] = "rmMail"
    /\ mailDir' = IF empty THEN mailDir \ {m} ELSE mailDir
    /\ Goto(t, IF empty THEN "rmLink" ELSE "rmDest")
    /\ UNCHANGED <<link, destDir, files, contents, leaked, up, todo, watch,
                   mailVars, history, bounds>>

cleanup_link(t) ==
    LET d == Dest(t) IN
    /\ pc[t] = "rmLink"
    /\ link' = [link EXCEPT ![d] = IF @ = "cleanup" THEN "gone" ELSE @]
    /\ Goto(t, "idle")
    /\ UNCHANGED <<destDir, files, mailDir, contents, leaked, up, todo, watch,
                   mailVars, history, bounds>>

-----------------------------------------------------------------------------
(* Receiving a mail: handle_mail, FsStorage::enqueue, FsEnqueuer::commit    *)

enqueue(m) ==
    /\ enq[m] = "new"
    /\ up[owner[m]] = "running"
    /\ mailDir' = mailDir \cup {m}
    /\ contents' = contents \cup {m}
    /\ enq' = [enq EXCEPT ![m] = "open"]
    /\ UNCHANGED <<link, destDir, files, leaked, up, todo, pc, watch, undo,
                   owner, history, bounds>>

\* The mail is refused; its folder may already be there and stays.
enqueue_error(m) ==
    /\ enq[m] = "new"
    /\ up[owner[m]] = "running"
    /\ IoError
    /\ mailDir' \in {mailDir, mailDir \cup {m}}
    /\ enq' = [enq EXCEPT ![m] = "failed"]
    /\ UNCHANGED <<link, destDir, files, contents, leaked, up, todo, pc, watch,
                   undo, owner, history, crashes>>

\* The connection breaks, or writing the contents fails: the Enqueuer is
\* dropped uncommitted, and what it created stays.
abandon(m) ==
    /\ enq[m] = "open"
    /\ enq' = [enq EXCEPT ![m] = "failed"]
    /\ UNCHANGED <<disk, up, todo, pc, watch, undo, owner, history, bounds>>

\* commit flushes the contents first.  When that fails the contents are
\* removed, if they can be (the result is ignored); the mail's folder stays, for
\* rmdir is tried in the queue folder.
commit_flush(m) ==
    /\ enq[m] = "open"
    /\ \/ /\ enq' = [enq EXCEPT ![m] = "commit"]
          /\ UNCHANGED <<contents, ioErrors>>
       \/ /\ IoError
          /\ contents' \in {contents, contents \ {m}}
          /\ enq' = [enq EXCEPT ![m] = "failed"]
    /\ UNCHANGED <<link, destDir, files, mailDir, leaked, up, todo, pc, watch,
                   undo, owner, history, crashes>>

\* The recipient commit is working on: all before it are linked.
Current(m, d) ==
    /\ enq[m] = "commit"
    /\ d \in DestsOf(m)
    /\ link[d] = "none"
    /\ \A e \in DestsOf(m) : e \in destDir /\ link[e] = "none" => e = d

\* make_dest_dir, first part: the folder and its two files.
make_dest_dir(m, d) ==
    /\ Current(m, d)
    /\ d \notin destDir
    /\ m \in mailDir
    /\ destDir' = destDir \cup {d}
    /\ files' = [files EXCEPT ![d] = DestFiles]
    /\ UNCHANGED <<link, mailDir, contents, leaked, up, todo, pc, watch,
                   mailVars, history, bounds>>

\* make_dest_dir, last part: the symlink, from which on a scan can see it.
make_dest_link(m, d) ==
    /\ Current(m, d)
    /\ d \in destDir
    /\ link' = [link EXCEPT ![d] = "queue"]
    /\ UNCHANGED <<destDir, files, mailDir, contents, leaked, up, todo, pc,
                   watch, mailVars, history, bounds>>

\* Mutant: the error is returned with nothing undone.
make_dest_error_no_undo(m, d) ==
    /\ Current(m, d)
    /\ IoError
    /\ enq' = [enq EXCEPT ![m] = "failed"]
    /\ UNCHANGED <<disk, up, todo, pc, watch, undo, owner, history, crashes>>

\* make_dest_dir fails at any of its calls (the first one does if the mail's
\* folder is no longer there); the recipients already linked are to be undone.
make_dest_error(m, d) ==
    /\ Current(m, d)
    /\ \/ /\ d \notin destDir
          /\ m \notin mailDir
          /\ UNCHANGED <<destDir, files, ioErrors>>
       \/ /\ d \notin destDir
          /\ IoError
          /\ \/ UNCHANGED <<destDir, files>>
             \/ /\ m \in mailDir
                /\ destDir' = destDir \cup {d}
                /\ \E F \in {{}, {"schedule"}, DestFiles} :
                       files' = [files EXCEPT ![d] = F]
       \/ /\ d \in destDir
          /\ IoError
          /\ UNCHANGED <<destDir, files>>
    /\ enq' = [enq EXCEPT ![m] = "unwind"]
    /\ undo' = undo \cup {e \in DestsOf(m) : link[e] # "none"}
    /\ UNCHANGED <<link, mailDir, contents, leaked, up, todo, pc, watch, owner,
                   history, crashes>>

\* Each of the three removals may fail, and its result is ignored: what made
\* the undo necessary may still be there.  The symlink is left in place.
cleanup_dest_dir(m, d) ==
    /\ enq[m] = "unwind"
    /\ d \in undo \cap DestsOf(m)
    /\ undo' = undo \ {d}
    /\ \E left \in SUBSET files[d] :
           /\ files' = [files EXCEPT ![d] = left]
           /\ \/ destDir' = destDir
              \/ left = {} /\ ~HasTmp(d) /\ destDir' = destDir \ {d}
           /\ spared' = IF left = DestFiles THEN spared \cup {d} ELSE spared
    /\ UNCHANGED <<link, mailDir, contents, leaked, up, todo, pc, watch, enq,
                   owner, accepted, unsure, givenUp, early, stolen, missed,
                   bounds>>

\* So may the removal of the contents; without them nothing is readable.
cleanup_contents_dir(m) ==
    /\ enq[m] = "unwind"
    /\ undo \cap DestsOf(m) = {}
    /\ \/ contents' = contents \ {m} /\ spared' = spared \ DestsOf(m)
       \/ UNCHANGED <<contents, spared>>
    /\ enq' = [enq EXCEPT ![m] = "failed"]
    /\ UNCHANGED <<link, destDir, files, mailDir, leaked, up, todo, pc, watch,
                   undo, owner, accepted, unsure, givenUp, early, stolen, missed,
                   bounds>>

\* Every recipient is linked: the client is told the mail was accepted, and a
\* task is spawned for each recipient.
commit(m) ==
    /\ enq[m] = "commit"
    /\ \A d \in DestsOf(m) : link[d] # "none"
    /\ enq' = [enq EXCEPT ![m] = "acked"]
    /\ pc' = [t \in Tasks |->
                IF /\ Inst(t) = owner[m]
                   /\ Origin(t) = "commit"
                   /\ Dest(t) \in DestsOf(m)
                THEN "waiting" ELSE pc[t]]
    /\ UNCHANGED <<disk, up, todo, watch, undo, owner, history, bounds>>

-----------------------------------------------------------------------------
ScanStep(i) ==
    \/ new_return(i)
    \/ \E d \in Dests : \/ \E f \in Folders : scan_nothing(i, f, d)
                        \/ scan_inflight(i, d)
                        \/ scan_pending_cleanup(i, d)
                        \/ scan_queue(i, d)
    \/ \E f \in Folders, hit \in SUBSET Dests : scan_error(i, f, hit)

SendStep(t) ==
    \/ recheck(t)
    \/ send_start(t)
    \/ read_inflight(t)
    \/ transport_failure(t)
    \/ remote_accepts(t)
    \/ send_done(t)
    \/ send_cancel(t)
    \/ drop(t)
    \/ reschedule_write(t)
    \/ reschedule_rename(t)
    \/ reschedule_error(t)

CleanupStep(t) ==
    \/ cleanup_dest(t)
    \/ cleanup_list(t)
    \/ cleanup_contents(t)
    \/ cleanup_mail(t)
    \/ cleanup_link(t)

EnqueueStep(m) ==
    \/ enqueue(m)
    \/ enqueue_error(m)
    \/ abandon(m)
    \/ commit_flush(m)
    \/ \E d \in Dests : \/ make_dest_dir(m, d)
                        \/ make_dest_link(m, d)
                        \/ make_dest_error(m, d)
                        \/ cleanup_dest_dir(m, d)
    \/ cleanup_contents_dir(m)
    \/ commit(m)

Next ==
    \/ \E i \in Instances : new(i) \/ ScanStep(i) \/ crash(i)
    \/ \E t \in Tasks : SendStep(t) \/ CleanupStep(t)
    \/ \E m \in Mails : EnqueueStep(m)

Spec == Init /\ [][Next]_vars

-----------------------------------------------------------------------------
(* Safety                                                                  *)

\* The queue forgets a recipient (cleanup folder, then no symlink at all) only
\* after the remote server took the mail or next_interval gave up on it;
\* whatever crashes, storage errors and concurrent instances do.
RemovedOnlyIfHandled ==
    \A d \in Dests :
        link[d] \in {"cleanup", "gone"} => d \in accepted \cup givenUp

\* What is queued stays readable: from its symlink's creation until a recipient
\* is handed over, its two files and the contents are on disk, when the client
\* was told the mail is accepted as well as when the process died inside commit.
\* (For mails that no scan saw before commit returned.)
Readable(d) ==
    /\ d \in destDir
    /\ files[d] = DestFiles
    /\ MailOf[d] \in contents

QueuedMailReadable ==
    \A d \in Dests :
        /\ enq[MailOf[d]] \in {"acked", "lost"}
        /\ MailOf[d] \notin early
        /\ link[d] \in {"queue", "inflight"}
        => Readable(d)

\* The inflight folder works as a lock: as long as no delayed check took the
\* mail away from a running attempt, at most one task of any instance is
\* sending it, and its symlink is in the inflight folder.
ExclusiveSend ==
    \A d \in Dests \ stolen :
        \A t \in Tasks : Dest(t) = d /\ Holding(t) =>
            /\ link[d] = "inflight"
            /\ \A u \in Tasks : Dest(u) = d /\ Holding(u) => u = t

\* A mail that the remote took is sent again only if that could not be
\* recorded: the reply was lost, the process died before send_done, or a
\* delayed check put the mail back in the queue during the attempt.
DuplicateOnlyIfUnsure ==
    \A t \in Tasks :
        pc[t] = "sending" /\ Dest(t) \in accepted => Dest(t) \in unsure \cup stolen

\* When all recipients of an accepted mail are gone, so are its contents and
\* its folder: concurrent cleanups do not each leave it to the other.
NoOrphanedData ==
    \A m \in Mails :
        /\ enq[m] = "acked"
        /\ m \notin early
        /\ \A d \in DestsOf(m) : link[d] = "gone"
        => m \notin contents \cup mailDir

\* A mail the client was told is refused is sent to a recipient only where the
\* undo of commit could remove neither that recipient's files nor the contents:
\* the removal of one of the three is enough, although the symlink stays and a
\* scan will find it.  (For mails that no scan saw before commit returned.)
RefusedNotSent ==
    \A d \in Dests :
        enq[MailOf[d]] = "failed" /\ MailOf[d] \notin early
            => d \notin accepted \ spared

\* With one instance, the delayed check of a mail found in flight only ever
\* finds mails that nobody is sending.
NoStealing == stolen = {}

\* What the queue's design notes say of the inflight folder, of any number of
\* instances: they do not send the same mail at the same time.
NoConcurrentSend ==
    \A t, u \in Tasks :
        Holding(t) /\ Holding(u) /\ Dest(t) = Dest(u) => t = u

\* What the documented order of enqueuing (every recipient's folder is written
\* before the first symlink is made) gives: an accepted mail stays readable
\* until it is handed over, whatever the start-up scan sees.
AckedAlwaysReadable ==
    \A d \in Dests :
        enq[MailOf[d]] = "acked" => link[d] \in {"cleanup", "gone"} \/ Readable(d)

-----------------------------------------------------------------------------
(* Refinement                                                              *)

StageOf(folder) ==
    CASE folder = "none" -> "absent"
      [] folder = "queue" -> "queued"
      [] folder = "inflight" -> "sending"
      [] folder = "cleanup" -> "handled"
      [] folder = "gone" -> "forgotten"

Lifecycle == INSTANCE MailLifecycle
                WITH stage <- [d \in Dests |-> StageOf(link[d])],
                     delivered <- accepted

\* With one instance, the folder a symlink is in tells truthfully where the
\* recipient is in its life, across crashes: mails leave the server only while
\* their symlink is in the inflight folder, one at a time.
ImplementsLifecycle == Lifecycle!LifeSpec

-----------------------------------------------------------------------------
(* Liveness                                                                *)

\* The executor's threads run every task that can run, every retry loop tries
\* again, send attempts end (each step of the client has a timeout), and a
\* process that died is started again.
Fairness ==
    /\ \A i \in Instances : WF_vars(new(i)) /\ WF_vars(ScanStep(i))
    /\ \A t \in Tasks : WF_vars(SendStep(t)) /\ WF_vars(CleanupStep(t))

FairSpec == Spec /\ Fairness

\* An accepted mail is never forgotten: from any state it is tried (again), or
\* is handed over, whatever crashes and retries come in between.  (Except for
\* a mail that the last start-up scan could not read, until the next one reads
\* it, and one that a scan saw before commit returned.)
AckedKeepsMoving ==
    \A d \in Dests :
        enq[MailOf[d]] = "acked" ~>
            \/ \E t \in Tasks : Dest(t) = d /\ pc[t] = "sending"
            \/ link[d] \in {"cleanup", "gone"}
            \/ d \in missed
            \/ MailOf[d] \in early

\* A removal that was begun is finished, by the task that began it or after a
\* restart.  (Except where a schedule.<uuid> file was left behind, or the
\* last start-up scan could not read the entry.)
CleanupFinishes ==
    \A d \in Dests :
        link[d] = "cleanup" ~> link[d] = "gone" \/ d \in leaked \cup missed

\* The same, as documented: everything in the recipient's folder is removed,
\* so a file left behind by an interrupted reschedule is no obstacle.
CleanupAlwaysFinishes ==
    \A d \in Dests : link[d] = "cleanup" ~> link[d] = "gone" \/ d \in missed

=============================================================================
