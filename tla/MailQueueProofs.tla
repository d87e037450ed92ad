--------------------------- MODULE MailQueueProofs --------------------------
(***************************************************************************)
(* Proofs about MailQueue, for any number of instances, mails, recipients, *)
(* crashes and storage errors.                                             *)
(*                                                                         *)
(* The last sections are about the life of a mail.  One instance           *)
(* implements MailLifecycle, through any number of crashes and storage     *)
(* errors.  The cleanups of a mail's recipients, run by any number of      *)
(* tasks and instances and interrupted by any number of crashes, together  *)
(* leave nothing of the mail behind.                                       *)
(***************************************************************************)
EXTENDS MailQueue, TLAPS

-----------------------------------------------------------------------------
(* Type correctness                                                        *)

\* The three parts of a task.
LEMMA TaskParts ==
    \A t \in Tasks :
        Inst(t) \in Instances /\ Origin(t) \in Origins /\ Dest(t) \in Dests
  BY Zenon DEF Tasks, Inst, Origin, Dest

\* An instance, an origin and a recipient make a task, whose parts they are.
LEMMA SlotIsTask ==
    ASSUME NEW i \in Instances, NEW o \in Origins, NEW d \in Dests
    PROVE  /\ <<i, o, d>> \in Tasks
           /\ Inst(<<i, o, d>>) = i
           /\ Origin(<<i, o, d>>) = o
           /\ Dest(<<i, o, d>>) = d
  BY Zenon DEF Tasks, Inst, Origin, Dest

\* The initial states are of their types.
LEMMA TypeInit == Init => TypeOK
  BY ConstantsAssumption, SMTT(30)
  DEF Init, TypeOK, DiskOK, ProcessOK, HistoryOK, Links, DestFiles, PC, Enq

\* Every step keeps the types.
LEMMA TypeStep == TypeOK /\ [Next]_vars => TypeOK'
<1>. SUFFICES ASSUME TypeOK, [Next]_vars PROVE TypeOK'
  BY Zenon
<1>. USE ConstantsAssumption DEF TypeOK, disk, mailVars, history, bounds, Goto
<1>1. CASE UNCHANGED vars
  BY <1>1, Zenon DEF vars, DiskOK, ProcessOK, HistoryOK
<1>2. ASSUME NEW i \in Instances, new(i)
      PROVE  TypeOK'
  <2>1. DiskOK'
    BY <1>2, Zenon DEF new, DiskOK
  <2>2. ProcessOK'
    BY <1>2, Zenon DEF new, ProcessOK
  <2>3. HistoryOK'
    BY <1>2, Zenon DEF new, HistoryOK, IoError
  <2>. QED
    BY <2>1, <2>2, <2>3, Zenon
<1>3. ASSUME NEW i \in Instances, new_return(i)
      PROVE  TypeOK'
  <2>1. DiskOK'
    BY <1>3, Zenon DEF new_return, DiskOK
  <2>2. ProcessOK'
    BY <1>3, Zenon DEF new_return, ProcessOK, Folders
  <2>3. HistoryOK'
    BY <1>3, Zenon DEF new_return, HistoryOK, IoError
  <2>. QED
    BY <2>1, <2>2, <2>3, Zenon
<1>4. ASSUME NEW i \in Instances, crash(i)
      PROVE  TypeOK'
  <2>1. DiskOK'
    BY <1>4, TaskParts, ZenonT(30) DEF crash, DiskOK
  <2>2. ProcessOK'
    BY <1>4, Zenon DEF crash, Died, ProcessOK, PC, Enq
  <2>3. HistoryOK'
    BY <1>4, TaskParts DEF crash, HistoryOK, IoError
  <2>. QED
    BY <2>1, <2>2, <2>3, Zenon
<1>5. ASSUME NEW i \in Instances, NEW f \in Folders, NEW d \in Dests,
             scan_nothing(i, f, d)
      PROVE  TypeOK'
  <2>1. DiskOK'
    BY <1>5, Zenon DEF scan_nothing, DiskOK
  <2>2. ProcessOK'
    BY <1>5 DEF scan_nothing, ProcessOK, Visit
  <2>3. HistoryOK'
    BY <1>5, Zenon DEF scan_nothing, HistoryOK, IoError
  <2>. QED
    BY <2>1, <2>2, <2>3, Zenon
<1>6. ASSUME NEW i \in Instances, NEW d \in Dests, scan_inflight(i, d)
      PROVE  TypeOK'
  <2>1. DiskOK'
    BY <1>6, Zenon DEF scan_inflight, DiskOK
  <2>2. ProcessOK'
    BY <1>6 DEF scan_inflight, ProcessOK, Visit, PC, SendPC, Folders, Origins, Tasks
  <2>3. HistoryOK'
    BY <1>6, Zenon DEF scan_inflight, HistoryOK, IoError
  <2>. QED
    BY <2>1, <2>2, <2>3, Zenon
<1>7. ASSUME NEW i \in Instances, NEW d \in Dests,
             scan_pending_cleanup(i, d)
      PROVE  TypeOK'
  <2>1. DiskOK'
    BY <1>7, Zenon DEF scan_pending_cleanup, DiskOK
  <2>2. ProcessOK'
    BY <1>7 DEF scan_pending_cleanup, ProcessOK, Visit, PC, CleanPC, Folders, Origins, Tasks
  <2>3. HistoryOK'
    BY <1>7, Zenon DEF scan_pending_cleanup, HistoryOK, IoError
  <2>. QED
    BY <2>1, <2>2, <2>3, Zenon
<1>8. ASSUME NEW i \in Instances, NEW d \in Dests, scan_queue(i, d)
      PROVE  TypeOK'
  <2>1. DiskOK'
    BY <1>8, Zenon DEF scan_queue, DiskOK
  <2>2. ProcessOK'
    BY <1>8 DEF scan_queue, ProcessOK, Visit, PC, SendPC, Folders, Origins, Tasks
  <2>3. HistoryOK'
    BY <1>8 DEF scan_queue, HistoryOK, IoError
  <2>. QED
    BY <2>1, <2>2, <2>3, Zenon
<1>9. ASSUME NEW i \in Instances, NEW f \in Folders, NEW hit \in SUBSET Dests,
             scan_error(i, f, hit)
      PROVE  TypeOK'
  <2>1. DiskOK'
    BY <1>9, Zenon DEF scan_error, DiskOK
  <2>2. ProcessOK'
    BY <1>9 DEF scan_error, ProcessOK
  <2>3. HistoryOK'
    BY <1>9 DEF scan_error, HistoryOK, IoError
  <2>. QED
    BY <2>1, <2>2, <2>3, Zenon
<1>10. ASSUME NEW t \in Tasks, recheck(t)
       PROVE  TypeOK'
  <2>1. DiskOK'
    BY <1>10, TaskParts DEF recheck, DiskOK, MoveLink, Links
  <2>2. ProcessOK'
    BY <1>10 DEF recheck, ProcessOK, PC, SendPC
  <2>3. HistoryOK'
    BY <1>10, TaskParts, Zenon DEF recheck, HistoryOK, IoError
  <2>. QED
    BY <2>1, <2>2, <2>3, Zenon
<1>11. ASSUME NEW t \in Tasks, send_start(t)
       PROVE  TypeOK'
  <2>1. DiskOK'
    BY <1>11, TaskParts DEF send_start, DiskOK, MoveLink, Links
  <2>2. ProcessOK'
    BY <1>11 DEF send_start, ProcessOK, PC, SendPC
  <2>3. HistoryOK'
    BY <1>11, TaskParts, Zenon DEF send_start, HistoryOK, IoError
  <2>. QED
    BY <2>1, <2>2, <2>3, Zenon
<1>12. ASSUME NEW t \in Tasks, read_inflight(t)
       PROVE  TypeOK'
  <2>1. DiskOK'
    BY <1>12, TaskParts, Zenon DEF read_inflight, DiskOK
  <2>2. ProcessOK'
    BY <1>12, Zenon DEF read_inflight, ProcessOK, PC, SendPC
  <2>3. HistoryOK'
    BY <1>12, TaskParts, Zenon DEF read_inflight, HistoryOK, IoError
  <2>. QED
    BY <2>1, <2>2, <2>3, Zenon
<1>13. ASSUME NEW t \in Tasks, transport_failure(t)
       PROVE  TypeOK'
  <2>1. DiskOK'
    BY <1>13, TaskParts, Zenon DEF transport_failure, DiskOK
  <2>2. ProcessOK'
    BY <1>13, Zenon DEF transport_failure, ProcessOK, PC, SendPC
  <2>3. HistoryOK'
    BY <1>13, TaskParts, Zenon DEF transport_failure, HistoryOK, IoError
  <2>. QED
    BY <2>1, <2>2, <2>3, Zenon
<1>14. ASSUME NEW t \in Tasks, remote_accepts(t)
       PROVE  TypeOK'
  <2>1. DiskOK'
    BY <1>14, TaskParts, Zenon DEF remote_accepts, DiskOK
  <2>2. ProcessOK'
    BY <1>14, Zenon DEF remote_accepts, ProcessOK, PC, SendPC
  <2>3. HistoryOK'
    BY <1>14, TaskParts, Zenon DEF remote_accepts, HistoryOK, IoError
  <2>. QED
    BY <2>1, <2>2, <2>3, Zenon
<1>15. ASSUME NEW t \in Tasks, send_done(t)
       PROVE  TypeOK'
  <2>1. DiskOK'
    BY <1>15, TaskParts DEF send_done, DiskOK, MoveLink, Links
  <2>2. ProcessOK'
    BY <1>15, Zenon DEF send_done, ProcessOK, EndAttempt, PC, CleanPC
  <2>3. HistoryOK'
    BY <1>15, TaskParts, Zenon DEF send_done, HistoryOK, IoError
  <2>. QED
    BY <2>1, <2>2, <2>3, Zenon
<1>16. ASSUME NEW t \in Tasks, send_cancel(t)
       PROVE  TypeOK'
  <2>1. DiskOK'
    BY <1>16, TaskParts DEF send_cancel, DiskOK, MoveLink, Links
  <2>2. ProcessOK'
    <3>1. pc' \in [Tasks -> PC]
      <4>1. PICK l \in {"resched", "drop", "idle"} : pc' = [pc EXCEPT ![t] = l]
        BY <1>16, Zenon DEF send_cancel
      <4>. QED
        BY <4>1, Zenon DEF ProcessOK, PC, SendPC
    <3>2. watch' \in [Tasks -> SUBSET Tasks]
      BY <1>16, Zenon DEF send_cancel, ProcessOK, EndAttempt
    <3>. QED
      BY <1>16, <3>1, <3>2, Zenon DEF send_cancel, ProcessOK
  <2>3. HistoryOK'
    BY <1>16, TaskParts, Zenon DEF send_cancel, HistoryOK, IoError
  <2>. QED
    BY <2>1, <2>2, <2>3, Zenon
<1>17. ASSUME NEW t \in Tasks, drop(t)
       PROVE  TypeOK'
  <2>1. DiskOK'
    BY <1>17, TaskParts, Zenon DEF drop, DiskOK, MoveLink, Links
  <2>2. ProcessOK'
    BY <1>17 DEF drop, ProcessOK, PC, CleanPC
  <2>3. HistoryOK'
    BY <1>17, TaskParts, Zenon DEF drop, HistoryOK, IoError
  <2>. QED
    BY <2>1, <2>2, <2>3, Zenon
<1>18. ASSUME NEW t \in Tasks, reschedule_write(t)
       PROVE  TypeOK'
  <2>1. DiskOK'
    BY <1>18, TaskParts, Zenon DEF reschedule_write, DiskOK
  <2>2. ProcessOK'
    BY <1>18, Zenon DEF reschedule_write, ProcessOK, PC, SendPC
  <2>3. HistoryOK'
    BY <1>18, TaskParts, Zenon DEF reschedule_write, HistoryOK, IoError
  <2>. QED
    BY <2>1, <2>2, <2>3, Zenon
<1>19. ASSUME NEW t \in Tasks, reschedule_rename(t)
       PROVE  TypeOK'
  <2>1. DiskOK'
    BY <1>19, TaskParts, Zenon DEF reschedule_rename, DiskOK, DestFiles
  <2>2. ProcessOK'
    BY <1>19, Zenon DEF reschedule_rename, ProcessOK, PC, SendPC
  <2>3. HistoryOK'
    BY <1>19, TaskParts, Zenon DEF reschedule_rename, HistoryOK, IoError
  <2>. QED
    BY <2>1, <2>2, <2>3, Zenon
<1>20. ASSUME NEW t \in Tasks, reschedule_error(t)
       PROVE  TypeOK'
  <2>1. DiskOK'
    BY <1>20, TaskParts, Zenon DEF reschedule_error, DiskOK
  <2>2. ProcessOK'
    BY <1>20, Zenon DEF reschedule_error, ProcessOK, PC, SendPC
  <2>3. HistoryOK'
    BY <1>20, TaskParts DEF reschedule_error, HistoryOK, IoError
  <2>. QED
    BY <2>1, <2>2, <2>3, Zenon
<1>21. ASSUME NEW t \in Tasks, cleanup_dest(t)
       PROVE  TypeOK'
  <2>1. DiskOK'
    BY <1>21, TaskParts, ZenonT(30) DEF cleanup_dest, DiskOK, MoveLink, Links
  <2>2. ProcessOK'
    BY <1>21, Zenon DEF cleanup_dest, ProcessOK, PC, CleanPC
  <2>3. HistoryOK'
    BY <1>21, TaskParts, Zenon DEF cleanup_dest, HistoryOK, IoError
  <2>. QED
    BY <2>1, <2>2, <2>3, Zenon
<1>22. ASSUME NEW t \in Tasks, cleanup_contents(t)
       PROVE  TypeOK'
  <2>1. DiskOK'
    BY <1>22, TaskParts, Zenon DEF cleanup_contents, DiskOK
  <2>2. ProcessOK'
    BY <1>22, Zenon DEF cleanup_contents, ProcessOK, PC, CleanPC
  <2>3. HistoryOK'
    BY <1>22, TaskParts, Zenon DEF cleanup_contents, HistoryOK, IoError
  <2>. QED
    BY <2>1, <2>2, <2>3, Zenon
<1>23. ASSUME NEW t \in Tasks, cleanup_list(t)
       PROVE  TypeOK'
  <2>1. DiskOK'
    BY <1>23, TaskParts, Zenon DEF cleanup_list, DiskOK
  <2>2. ProcessOK'
    BY <1>23, Zenon DEF cleanup_list, ProcessOK, PC, CleanPC
  <2>3. HistoryOK'
    BY <1>23, TaskParts, Zenon DEF cleanup_list, HistoryOK, IoError
  <2>. QED
    BY <2>1, <2>2, <2>3, Zenon
<1>24. ASSUME NEW t \in Tasks, cleanup_mail(t)
       PROVE  TypeOK'
  <2>1. DiskOK'
    BY <1>24, TaskParts, Zenon DEF cleanup_mail, DiskOK
  <2>2. ProcessOK'
    BY <1>24, Zenon DEF cleanup_mail, ProcessOK, PC, CleanPC
  <2>3. HistoryOK'
    BY <1>24, TaskParts, Zenon DEF cleanup_mail, HistoryOK, IoError
  <2>. QED
    BY <2>1, <2>2, <2>3, Zenon
<1>25. ASSUME NEW t \in Tasks, cleanup_link(t)
       PROVE  TypeOK'
  <2>1. DiskOK'
    BY <1>25, TaskParts, Zenon DEF cleanup_link, DiskOK, Links
  <2>2. ProcessOK'
    BY <1>25, Zenon DEF cleanup_link, ProcessOK, PC
  <2>3. HistoryOK'
    BY <1>25, TaskParts, Zenon DEF cleanup_link, HistoryOK, IoError
  <2>. QED
    BY <2>1, <2>2, <2>3, Zenon
<1>26. ASSUME NEW m \in Mails, enqueue(m)
       PROVE  TypeOK'
  <2>1. DiskOK'
    BY <1>26, Zenon DEF enqueue, DiskOK
  <2>2. ProcessOK'
    BY <1>26, Zenon DEF enqueue, ProcessOK, Enq
  <2>3. HistoryOK'
    BY <1>26, Zenon DEF enqueue, HistoryOK, IoError
  <2>. QED
    BY <2>1, <2>2, <2>3, Zenon
<1>27. ASSUME NEW m \in Mails, enqueue_error(m)
       PROVE  TypeOK'
  <2>1. DiskOK'
    BY <1>27, Zenon DEF enqueue_error, DiskOK
  <2>2. ProcessOK'
    BY <1>27, Zenon DEF enqueue_error, ProcessOK, Enq
  <2>3. HistoryOK'
    BY <1>27 DEF enqueue_error, HistoryOK, IoError
  <2>. QED
    BY <2>1, <2>2, <2>3, Zenon
<1>28. ASSUME NEW m \in Mails, abandon(m)
       PROVE  TypeOK'
  <2>1. DiskOK'
    BY <1>28, Zenon DEF abandon, DiskOK
  <2>2. ProcessOK'
    BY <1>28, Zenon DEF abandon, ProcessOK, Enq
  <2>3. HistoryOK'
    BY <1>28, Zenon DEF abandon, HistoryOK, IoError
  <2>. QED
    BY <2>1, <2>2, <2>3, Zenon
<1>29. ASSUME NEW m \in Mails, commit_flush(m)
       PROVE  TypeOK'
  <2>1. DiskOK'
    BY <1>29, Zenon DEF commit_flush, DiskOK
  <2>2. ProcessOK'
    BY <1>29, ZenonT(30) DEF commit_flush, ProcessOK, Enq
  <2>3. HistoryOK'
    BY <1>29 DEF commit_flush, HistoryOK, IoError
  <2>. QED
    BY <2>1, <2>2, <2>3, Zenon
<1>30. ASSUME NEW m \in Mails, NEW d \in Dests, make_dest_dir(m, d)
       PROVE  TypeOK'
  <2>1. DiskOK'
    BY <1>30, Zenon DEF make_dest_dir, DiskOK
  <2>2. ProcessOK'
    BY <1>30, Zenon DEF make_dest_dir, ProcessOK
  <2>3. HistoryOK'
    BY <1>30, Zenon DEF make_dest_dir, HistoryOK, IoError
  <2>. QED
    BY <2>1, <2>2, <2>3, Zenon
<1>31. ASSUME NEW m \in Mails, NEW d \in Dests, make_dest_link(m, d)
       PROVE  TypeOK'
  <2>1. DiskOK'
    BY <1>31, Zenon DEF make_dest_link, DiskOK, Links
  <2>2. ProcessOK'
    BY <1>31, Zenon DEF make_dest_link, ProcessOK
  <2>3. HistoryOK'
    BY <1>31, Zenon DEF make_dest_link, HistoryOK, IoError
  <2>. QED
    BY <2>1, <2>2, <2>3, Zenon
<1>32. ASSUME NEW m \in Mails, NEW d \in Dests, make_dest_error(m, d)
       PROVE  TypeOK'
  <2>1. DiskOK'
    BY <1>32, SMTT(30) DEF make_dest_error, DiskOK, DestFiles
  <2>2. ProcessOK'
    BY <1>32, Zenon DEF make_dest_error, ProcessOK, Enq, DestsOf
  <2>3. HistoryOK'
    BY <1>32 DEF make_dest_error, HistoryOK, IoError
  <2>. QED
    BY <2>1, <2>2, <2>3, Zenon
<1>33. ASSUME NEW m \in Mails, NEW d \in Dests, cleanup_dest_dir(m, d)
       PROVE  TypeOK'
  <2>1. DiskOK'
    <3>1. PICK left \in SUBSET files[d] : files' = [files EXCEPT ![d] = left]
      BY <1>33, Zenon DEF cleanup_dest_dir
    <3>2. files' \in [Dests -> SUBSET DestFiles]
      BY <3>1, Zenon DEF DiskOK
    <3>3. destDir' \subseteq Dests
      BY <1>33, Zenon DEF cleanup_dest_dir, DiskOK
    <3>. QED
      BY <1>33, <3>2, <3>3, Zenon DEF cleanup_dest_dir, DiskOK
  <2>2. ProcessOK'
    BY <1>33, Zenon DEF cleanup_dest_dir, ProcessOK
  <2>3. HistoryOK'
    BY <1>33, Zenon DEF cleanup_dest_dir, HistoryOK, IoError
  <2>. QED
    BY <2>1, <2>2, <2>3, Zenon
<1>34. ASSUME NEW m \in Mails, cleanup_contents_dir(m)
       PROVE  TypeOK'
  <2>1. DiskOK'
    BY <1>34, Zenon DEF cleanup_contents_dir, DiskOK
  <2>2. ProcessOK'
    BY <1>34, Zenon DEF cleanup_contents_dir, ProcessOK, Enq
  <2>3. HistoryOK'
    BY <1>34, Zenon DEF cleanup_contents_dir, HistoryOK, IoError
  <2>. QED
    BY <2>1, <2>2, <2>3, Zenon
<1>35. ASSUME NEW m \in Mails, commit(m)
       PROVE  TypeOK'
  <2>1. DiskOK'
    BY <1>35, Zenon DEF commit, DiskOK
  <2>2. ProcessOK'
    BY <1>35, Zenon DEF commit, ProcessOK, Enq, PC, SendPC
  <2>3. HistoryOK'
    BY <1>35, Zenon DEF commit, HistoryOK, IoError
  <2>. QED
    BY <2>1, <2>2, <2>3, Zenon
<1>. QED
  BY <1>1, <1>2, <1>3, <1>4, <1>5, <1>6, <1>7, <1>8, <1>9, <1>10, <1>11, 
     <1>12, <1>13, <1>14, <1>15, <1>16, <1>17, <1>18, <1>19, <1>20, <1>21, 
     <1>22, <1>23, <1>24, <1>25, <1>26, <1>27, <1>28, <1>29, <1>30, <1>31,
     <1>32, <1>33, <1>34, <1>35, Zenon
  DEF Next, ScanStep, SendStep, CleanupStep, EnqueueStep

\* Every variable keeps its type whatever the queue's tasks, the scans, the
\* SMTP side and crashes do.
THEOREM TypeCorrect == Spec => []TypeOK
  BY TypeInit, TypeStep, PTL DEF Spec

-----------------------------------------------------------------------------
(* The inflight folder is a lock                                           *)

\* A step that starts no attempt, takes no symlink out of the inflight folder
\* and forgets no theft keeps the lock.
LEMMA LockFrame ==
    ASSUME ExclusiveSend,
           stolen \subseteq stolen',
           \A t \in Tasks : Holding(t)' => Holding(t),
           \A d \in Dests : link[d] = "inflight" => link'[d] = "inflight"
    PROVE  ExclusiveSend'
  BY TaskParts, Zenon DEF ExclusiveSend

\* At the start nothing is being sent.
LEMMA LockInit == Init => ExclusiveSend
  BY Zenon DEF Init, ExclusiveSend, Holding, HoldingPC

\* Every step keeps the sends exclusive: the rename to inflight is the lock.
LEMMA LockStep == TypeOK /\ ExclusiveSend /\ [Next]_vars => ExclusiveSend'
<1>. SUFFICES ASSUME TypeOK, ExclusiveSend, [Next]_vars PROVE ExclusiveSend'
  BY Zenon
<1>. USE DEF Goto, disk, mailVars, history, bounds
<1>1. CASE UNCHANGED vars
  BY <1>1, Zenon DEF vars, ExclusiveSend, Holding
<1>2. ASSUME NEW i \in Instances, new(i) \/ ScanStep(i) \/ crash(i)
      PROVE  ExclusiveSend'
  <2>1. UNCHANGED <<link, stolen>>
    BY <1>2, Zenon
    DEF ScanStep, new, new_return, scan_nothing, scan_inflight,
        scan_pending_cleanup, scan_queue, scan_error, crash
  <2>2. ASSUME NEW t \in Tasks, Holding(t)' PROVE Holding(t)
    <3>1. CASE \E d \in Dests : \/ scan_inflight(i, d)
                                \/ scan_pending_cleanup(i, d)
                                \/ scan_queue(i, d)
      <4>1. PICK d \in Dests : \/ scan_inflight(i, d)
                               \/ scan_pending_cleanup(i, d)
                               \/ scan_queue(i, d)
        BY <3>1, Zenon
      <4>2. \E slot, l : /\ l \in {"check", "rmDest", "waiting"}
                         /\ pc' = [pc EXCEPT ![slot] = l]
        BY <4>1, Zenon DEF scan_inflight, scan_pending_cleanup, scan_queue
      <4>. QED
        BY <2>2, <4>2, Zenon DEF TypeOK, ProcessOK, Holding, HoldingPC
    <3>2. CASE crash(i)
      BY <2>2, <3>2, Zenon DEF Holding, HoldingPC, crash
    <3>3. CASE \/ new(i) \/ new_return(i)
               \/ \E f \in Folders, d \in Dests : scan_nothing(i, f, d)
               \/ \E f \in Folders, hit \in SUBSET Dests : scan_error(i, f, hit)
      BY <2>2, <3>3, Zenon
      DEF Holding, new, new_return, scan_nothing, scan_error
    <3>. QED
      BY <1>2, <3>1, <3>2, <3>3, Zenon DEF ScanStep
  <2>. QED
    BY <2>1, <2>2, LockFrame, Zenon
<1>3. ASSUME NEW t \in Tasks, recheck(t)
      PROVE  ExclusiveSend'
  BY <1>3, TaskParts
  DEF recheck, MoveLink, TypeOK, DiskOK, ProcessOK, ExclusiveSend, Holding, HoldingPC
<1>4. ASSUME NEW t \in Tasks, send_start(t)
      PROVE  ExclusiveSend'
  BY <1>4, TaskParts
  DEF send_start, MoveLink, TypeOK, DiskOK, ProcessOK, ExclusiveSend, Holding, HoldingPC
<1>5. ASSUME NEW t \in Tasks, send_done(t)
      PROVE  ExclusiveSend'
  BY <1>5, TaskParts
  DEF send_done, MoveLink, TypeOK, DiskOK, ProcessOK, ExclusiveSend, Holding, HoldingPC
<1>6. ASSUME NEW t \in Tasks, send_cancel(t)
      PROVE  ExclusiveSend'
  BY <1>6, TaskParts
  DEF send_cancel, MoveLink, TypeOK, DiskOK, ProcessOK, ExclusiveSend, Holding, HoldingPC
<1>7. ASSUME NEW t \in Tasks,
             \/ read_inflight(t) \/ transport_failure(t) \/ remote_accepts(t)
             \/ drop(t) \/ reschedule_write(t) \/ reschedule_rename(t)
             \/ reschedule_error(t) \/ CleanupStep(t)
      PROVE  ExclusiveSend'
  <2>1. /\ \A u \in Tasks : Holding(u)' => Holding(u)
        /\ stolen' = stolen
        /\ \A d \in Dests : link[d] = "inflight" => link'[d] = "inflight"
    BY <1>7, TaskParts, ZenonT(60)
    DEF TypeOK, DiskOK, ProcessOK, Holding, HoldingPC, MoveLink, read_inflight, transport_failure,
        remote_accepts, drop, reschedule_write, reschedule_rename,
        reschedule_error, CleanupStep, cleanup_dest, cleanup_list, cleanup_contents,
        cleanup_mail, cleanup_link
  <2>. QED
    BY <2>1, LockFrame, Zenon
<1>8. ASSUME NEW m \in Mails, EnqueueStep(m)
      PROVE  ExclusiveSend'
  <2>1. /\ \A t \in Tasks : Holding(t)' => Holding(t)
        /\ stolen' = stolen
        /\ \A d \in Dests : link[d] = "inflight" => link'[d] = "inflight"
    BY <1>8, Zenon
    DEF TypeOK, DiskOK, ProcessOK, Holding, HoldingPC, EnqueueStep, enqueue, enqueue_error,
        abandon, commit_flush, Current, make_dest_dir, make_dest_link,
        make_dest_error, cleanup_dest_dir, cleanup_contents_dir, commit
  <2>. QED
    BY <2>1, LockFrame, ZenonT(30)
<1>. QED
  BY <1>1, <1>2, <1>3, <1>4, <1>5, <1>6, <1>7, <1>8, Zenon DEF Next, SendStep

\* However many instances share the folders, and whatever crashes: unless a
\* delayed check takes a mail away from a running attempt, at most one task is
\* between send_start and the end of its attempt, with the symlink in the
\* inflight folder.
THEOREM InflightIsALock == Spec => []ExclusiveSend
  BY TypeCorrect, LockInit, LockStep, PTL DEF Spec

-----------------------------------------------------------------------------
(* Nothing is dropped unhandled                                            *)

SentIsAccepted == \A t \in Tasks : pc[t] = "sent" => Dest(t) \in accepted

HandledInv == SentIsAccepted /\ RemovedOnlyIfHandled

\* At the start nothing is handled.
LEMMA HandledInit == Init => HandledInv
  BY Zenon DEF Init, HandledInv, SentIsAccepted, RemovedOnlyIfHandled

\* A step that sends nothing, and removes nothing that is not already on its
\* way out.
LEMMA HandledFrame ==
    ASSUME HandledInv,
           accepted \subseteq accepted',
           givenUp \subseteq givenUp',
           \A t \in Tasks : pc'[t] = "sent" => pc[t] = "sent",
           \A d \in Dests : link'[d] \in {"cleanup", "gone"} =>
                                link[d] \in {"cleanup", "gone"}
    PROVE  HandledInv'
  BY Zenon DEF HandledInv, SentIsAccepted, RemovedOnlyIfHandled

\* Every step keeps it: only what was accepted or given up is on its way out.
LEMMA HandledStep == TypeOK /\ HandledInv /\ [Next]_vars => HandledInv'
<1>. SUFFICES ASSUME TypeOK, HandledInv, [Next]_vars PROVE HandledInv'
  BY Zenon
<1>. USE DEF Goto, disk, mailVars, history, bounds
<1>1. CASE UNCHANGED vars
  BY <1>1, HandledFrame, Zenon DEF vars
<1>2. ASSUME NEW i \in Instances, new(i) \/ ScanStep(i) \/ crash(i)
      PROVE  HandledInv'
  <2>1. /\ \A t \in Tasks : pc'[t] = "sent" => pc[t] = "sent"
        /\ UNCHANGED <<link, accepted, givenUp>>
    BY <1>2, ZenonT(60)
    DEF TypeOK, ProcessOK, ScanStep, new, new_return, scan_nothing, scan_inflight,
        scan_pending_cleanup, scan_queue, scan_error, crash
  <2>. QED
    BY <2>1, HandledFrame, Zenon
<1>3. ASSUME NEW t \in Tasks, remote_accepts(t)
      PROVE  HandledInv'
  BY <1>3, Zenon
  DEF remote_accepts, TypeOK, ProcessOK, HandledInv, SentIsAccepted, RemovedOnlyIfHandled
<1>4. ASSUME NEW t \in Tasks, send_done(t)
      PROVE  HandledInv'
  BY <1>4, TaskParts, ZenonT(60)
  DEF send_done, MoveLink, TypeOK, DiskOK, ProcessOK, HandledInv, SentIsAccepted,
      RemovedOnlyIfHandled
<1>5. ASSUME NEW t \in Tasks, drop(t)
      PROVE  HandledInv'
  BY <1>5, TaskParts, Zenon
  DEF drop, MoveLink, TypeOK, DiskOK, ProcessOK, HandledInv, SentIsAccepted, RemovedOnlyIfHandled
<1>6. ASSUME NEW t \in Tasks,
             \/ recheck(t) \/ send_start(t) \/ read_inflight(t)
             \/ transport_failure(t) \/ send_cancel(t) \/ reschedule_write(t)
             \/ reschedule_rename(t) \/ reschedule_error(t) \/ CleanupStep(t)
      PROVE  HandledInv'
  <2>1. /\ \A u \in Tasks : pc'[u] = "sent" => pc[u] = "sent"
        /\ UNCHANGED <<accepted, givenUp>>
        /\ \A d \in Dests : link'[d] \in {"cleanup", "gone"} =>
                                link[d] \in {"cleanup", "gone"}
    BY <1>6, TaskParts, ZenonT(60)
    DEF TypeOK, DiskOK, ProcessOK, MoveLink, recheck, send_start, read_inflight,
        transport_failure, send_cancel, reschedule_write, reschedule_rename,
        reschedule_error, CleanupStep, cleanup_dest, cleanup_list, cleanup_contents,
        cleanup_mail, cleanup_link
  <2>. QED
    BY <2>1, HandledFrame, Zenon
<1>7. ASSUME NEW m \in Mails, EnqueueStep(m)
      PROVE  HandledInv'
  <2>1. /\ \A t \in Tasks : pc'[t] = "sent" => pc[t] = "sent"
        /\ UNCHANGED <<accepted, givenUp>>
        /\ \A d \in Dests : link'[d] \in {"cleanup", "gone"} =>
                                link[d] \in {"cleanup", "gone"}
    BY <1>7, ZenonT(60)
    DEF TypeOK, DiskOK, ProcessOK, EnqueueStep, enqueue, enqueue_error, abandon, commit_flush,
        Current, make_dest_dir, make_dest_link, make_dest_error,
        cleanup_dest_dir, cleanup_contents_dir, commit
  <2>. QED
    BY <2>1, HandledFrame, Zenon
<1>. QED
  BY <1>1, <1>2, <1>3, <1>4, <1>5, <1>6, <1>7, Zenon DEF Next, SendStep

\* The queue removes a recipient only after the remote server took the mail or
\* next_interval gave up on it, for any number of instances and crashes.
THEOREM NothingDropped == Spec => []RemovedOnlyIfHandled
<1>1. Spec => []HandledInv
  BY TypeCorrect, HandledInit, HandledStep, PTL DEF Spec
<1>. QED
  BY <1>1, PTL DEF HandledInv

-----------------------------------------------------------------------------
(* No task is spawned over a running one                                   *)

\* What an instance that is down, or still starting, has not spawned yet.
NotSpawned ==
    \A t \in Tasks :
        \/ up[Inst(t)] = "down"
        \/ up[Inst(t)] = "starting" /\ Origin(t) \in {"scan", "commit"}
        => pc[t] = "idle"

\* An entry a scan has still to visit has no task of that scan.
NotVisited ==
    \A t \in Tasks :
        \/ Origin(t) = "recheck" /\ Dest(t) \in todo[Inst(t)]["inflight"]
        \/ Origin(t) = "sweep" /\ Dest(t) \in todo[Inst(t)]["cleanup"]
        \/ Origin(t) = "scan" /\ Dest(t) \in todo[Inst(t)]["queue"]
        => pc[t] = "idle"

\* The scans run one after the other, in a live instance.
ScansInOrder ==
    \A i \in Instances :
        /\ up[i] = "down" => \A f \in Folders : todo[i][f] = {}
        /\ up[i] = "starting" => todo[i]["queue"] = {}

\* Only a running instance receives mail; commit spawns tasks as it returns.
NotCommitted ==
    /\ \A m \in Mails :
          enq[m] \in {"open", "commit", "unwind"} => up[owner[m]] = "running"
    /\ \A t \in Tasks :
          Origin(t) = "commit" /\ enq[MailOf[Dest(t)]] # "acked"
          => pc[t] = "idle"

SlotsFree == NotSpawned /\ NotVisited /\ ScansInOrder /\ NotCommitted

\* A step of a task moves that task only, and no instance and no mail.
LEMMA TaskStepFrame ==
    ASSUME TypeOK, NEW t \in Tasks, SendStep(t) \/ CleanupStep(t)
    PROVE  /\ pc[t] # "idle"
           /\ \A u \in Tasks : u # t => pc'[u] = pc[u]
           /\ UNCHANGED <<up, todo, enq, undo, owner, early, missed, crashes>>
  BY Zenon DEF TypeOK, ProcessOK, Goto, history, bounds, mailVars, SendStep,
         CleanupStep, recheck, send_start, read_inflight, transport_failure,
         remote_accepts, send_done, send_cancel, drop, reschedule_write,
         reschedule_rename, reschedule_error, cleanup_dest, cleanup_list, cleanup_contents,
         cleanup_mail, cleanup_link

\* At the start every slot for a task is free.
LEMMA SlotsInit == Init => SlotsFree
  BY TaskParts, SMTT(30)
  DEF Init, SlotsFree, NotSpawned, NotVisited, ScansInOrder, NotCommitted,
      Folders

\* A step that spawns nothing and gives no scan more to do.
LEMMA SlotsFrame ==
    ASSUME SlotsFree,
           UNCHANGED <<up, enq, owner>>,
           \A i \in Instances, f \in Folders : todo'[i][f] \subseteq todo[i][f],
           \A t \in Tasks : pc[t] = "idle" => pc'[t] = "idle"
    PROVE  SlotsFree'
<1>1. NotSpawned'
  BY TaskParts, Zenon DEF SlotsFree, NotSpawned
<1>2. NotVisited'
  BY TaskParts, Zenon DEF SlotsFree, NotVisited, Folders
<1>3. ScansInOrder'
  BY Zenon DEF SlotsFree, ScansInOrder, Folders
<1>4. NotCommitted'
  BY Zenon DEF SlotsFree, NotCommitted
<1>. QED
  BY <1>1, <1>2, <1>3, <1>4, Zenon DEF SlotsFree

\* A scan that visits a mail takes it, and only it, off its list.
LEMMA VisitFrame ==
    ASSUME TypeOK, NEW i \in Instances, NEW f \in Folders, NEW d \in Dests,
           Visit(i, f, d)
    PROVE  /\ d \in todo[i][f]
           /\ d \notin todo'[i][f]
           /\ \A j \in Instances, g \in Folders : todo'[j][g] \subseteq todo[j][g]
  BY Zenon DEF TypeOK, ProcessOK, Visit

\* A scan visits an entry and spawns its task, whose slot was free.
LEMMA SpawnFrame ==
    ASSUME TypeOK, SlotsFree,
           NEW i \in Instances, NEW o \in Origins, NEW f \in Folders,
           NEW d \in Dests, NEW l \in PC,
           \/ o = "recheck" /\ f = "inflight"
           \/ o = "sweep" /\ f = "cleanup"
           \/ o = "scan" /\ f = "queue",
           Visit(i, f, d),
           Goto(<<i, o, d>>, l),
           UNCHANGED <<up, enq, owner>>
    PROVE  /\ SlotsFree'
           /\ pc[<<i, o, d>>] = "idle"
<1>. DEFINE slot == <<i, o, d>>
<1>1. /\ slot \in Tasks
      /\ Inst(slot) = i
      /\ Origin(slot) = o
      /\ Dest(slot) = d
  BY SlotIsTask, Zenon
<1>2. \A t \in Tasks : t # slot => pc'[t] = pc[t]
  BY Zenon DEF Goto, TypeOK, ProcessOK
<1>. HIDE DEF slot
<1>3. /\ d \in todo[i][f]
      /\ d \notin todo'[i][f]
      /\ \A j \in Instances, g \in Folders : todo'[j][g] \subseteq todo[j][g]
  BY VisitFrame, Zenon
<1>4. up[i] # "down" /\ (o = "scan" => up[i] # "starting")
  BY <1>3, Zenon DEF SlotsFree, ScansInOrder, Folders
<1>5. NotSpawned'
  BY <1>1, <1>2, <1>4, Zenon DEF SlotsFree, NotSpawned
<1>6. NotVisited'
  BY <1>1, <1>2, <1>3, TaskParts, ZenonT(30) DEF SlotsFree, NotVisited, Folders
<1>7. ScansInOrder'
  BY <1>3, ZenonT(30) DEF SlotsFree, ScansInOrder, Folders
<1>8. NotCommitted'
  BY <1>1, <1>2, Zenon DEF SlotsFree, NotCommitted
<1>9. pc[slot] = "idle"
  BY <1>1, <1>3, Zenon DEF SlotsFree, NotVisited
<1>. QED
  BY <1>5, <1>6, <1>7, <1>8, <1>9, Zenon DEF SlotsFree, slot

\* Every step that starts a task finds its slot free, and keeps it so for those to come.
LEMMA SlotsStep == TypeOK /\ SlotsFree /\ [Next]_vars => SlotsFree'
<1>. SUFFICES ASSUME TypeOK, SlotsFree, [Next]_vars PROVE SlotsFree'
  BY Zenon
<1>. USE DEF mailVars
<1>1. CASE UNCHANGED vars
  BY <1>1, SlotsFrame, Zenon DEF vars
<1>2. ASSUME NEW i \in Instances, new(i) PROVE SlotsFree'
  <2>1. NotSpawned'
    BY <1>2, TaskParts, Zenon DEF new, TypeOK, ProcessOK, SlotsFree, NotSpawned
  <2>2. NotVisited'
    BY <1>2, TaskParts, Zenon
    DEF new, TypeOK, ProcessOK, SlotsFree, NotSpawned, NotVisited, Folders
  <2>3. ScansInOrder'
    BY <1>2, Zenon DEF new, TypeOK, ProcessOK, SlotsFree, ScansInOrder, Folders
  <2>4. NotCommitted'
    BY <1>2, Zenon DEF new, TypeOK, ProcessOK, SlotsFree, NotCommitted
  <2>. QED
    BY <2>1, <2>2, <2>3, <2>4, Zenon DEF SlotsFree
<1>3. ASSUME NEW i \in Instances, new_return(i) PROVE SlotsFree'
  <2>1. NotSpawned'
    BY <1>3, TaskParts, Zenon DEF new_return, TypeOK, ProcessOK, SlotsFree, NotSpawned
  <2>2. NotVisited'
    BY <1>3, TaskParts
    DEF new_return, TypeOK, ProcessOK, SlotsFree, NotSpawned, NotVisited, Folders
  <2>3. ScansInOrder'
    BY <1>3, Zenon DEF new_return, TypeOK, ProcessOK, SlotsFree, ScansInOrder, Folders
  <2>4. NotCommitted'
    BY <1>3, Zenon DEF new_return, TypeOK, ProcessOK, SlotsFree, NotCommitted
  <2>. QED
    BY <2>1, <2>2, <2>3, <2>4, Zenon DEF SlotsFree
<1>4. ASSUME NEW i \in Instances, crash(i) PROVE SlotsFree'
  <2>1. NotSpawned'
    BY <1>4, TaskParts, Zenon DEF crash, TypeOK, ProcessOK, SlotsFree, NotSpawned
  <2>2. NotVisited'
    BY <1>4, TaskParts, Zenon
    DEF crash, TypeOK, ProcessOK, SlotsFree, NotVisited, Folders
  <2>3. ScansInOrder'
    BY <1>4, Zenon DEF crash, TypeOK, ProcessOK, SlotsFree, ScansInOrder, Folders
  <2>4. NotCommitted'
    BY <1>4, TaskParts, ConstantsAssumption, Zenon
    DEF crash, Died, TypeOK, ProcessOK, SlotsFree, NotCommitted
  <2>. QED
    BY <2>1, <2>2, <2>3, <2>4, Zenon DEF SlotsFree
<1>5. ASSUME NEW i \in Instances, NEW f \in Folders, NEW d \in Dests,
             scan_nothing(i, f, d)
      PROVE  SlotsFree'
  BY <1>5, SlotsFrame, VisitFrame, Zenon DEF scan_nothing
<1>6. ASSUME NEW i \in Instances, NEW f \in Folders, NEW hit \in SUBSET Dests,
             scan_error(i, f, hit)
      PROVE  SlotsFree'
  <2>1. \A j \in Instances, g \in Folders : todo'[j][g] \subseteq todo[j][g]
    BY <1>6, Zenon DEF scan_error, TypeOK, ProcessOK
  <2>. QED
    BY <1>6, <2>1, SlotsFrame, Zenon DEF scan_error
<1>7. ASSUME NEW i \in Instances, NEW d \in Dests, scan_inflight(i, d)
      PROVE  SlotsFree'
  BY <1>7, SpawnFrame, ZenonT(30) DEF scan_inflight, Origins, Folders, PC, SendPC
<1>8. ASSUME NEW i \in Instances, NEW d \in Dests, scan_pending_cleanup(i, d)
      PROVE  SlotsFree'
  BY <1>8, SpawnFrame, ZenonT(30) DEF scan_pending_cleanup, Origins, Folders, PC, CleanPC
<1>9. ASSUME NEW i \in Instances, NEW d \in Dests, scan_queue(i, d)
      PROVE  SlotsFree'
  BY <1>9, SpawnFrame, ZenonT(30) DEF scan_queue, Origins, Folders, PC, SendPC
<1>10. ASSUME NEW t \in Tasks, SendStep(t) \/ CleanupStep(t)
       PROVE  SlotsFree'
  BY <1>10, TaskStepFrame, SlotsFrame, ZenonT(30)
<1>11. ASSUME NEW m \in Mails, commit(m) PROVE SlotsFree'
  <2>1. up[owner[m]] = "running"
    BY <1>11, ZenonT(30) DEF commit, SlotsFree, NotCommitted
  <2>2. NotSpawned'
    BY <1>11, <2>1, Zenon DEF commit, SlotsFree, NotSpawned
  <2>3. NotVisited'
    BY <1>11, Zenon DEF commit, SlotsFree, NotVisited
  <2>4. ScansInOrder'
    BY <1>11, Zenon DEF commit, SlotsFree, ScansInOrder
  <2>5. NotCommitted'
    BY <1>11, <2>1, TaskParts, ConstantsAssumption, Zenon
    DEF commit, TypeOK, ProcessOK, SlotsFree, NotCommitted, DestsOf
  <2>. QED
    BY <2>2, <2>3, <2>4, <2>5, Zenon DEF SlotsFree
<1>12. ASSUME NEW m \in Mails, EnqueueStep(m), ~ commit(m)
       PROVE  SlotsFree'
  <2>1. /\ UNCHANGED <<up, todo, pc, owner>>
        /\ \A n \in Mails : enq'[n] = "acked" <=> enq[n] = "acked"
        /\ \A n \in Mails : enq'[n] \in {"open", "commit", "unwind"} =>
              \/ enq[n] \in {"open", "commit", "unwind"}
              \/ up[owner[n]] = "running"
    BY <1>12, ZenonT(60)
    DEF TypeOK, ProcessOK, EnqueueStep, enqueue, enqueue_error, abandon,
        commit_flush, Current, make_dest_dir, make_dest_link, make_dest_error,
        cleanup_dest_dir, cleanup_contents_dir
  <2>2. NotSpawned' /\ NotVisited' /\ ScansInOrder'
    BY <2>1, Zenon DEF SlotsFree, NotSpawned, NotVisited, ScansInOrder
  <2>3. NotCommitted'
    BY <2>1, TaskParts, ConstantsAssumption, Zenon DEF SlotsFree, NotCommitted
  <2>. QED
    BY <2>2, <2>3, Zenon DEF SlotsFree
<1>. QED
  BY <1>1, <1>2, <1>3, <1>4, <1>5, <1>6, <1>7, <1>8, <1>9, <1>10, <1>11, <1>12, Zenon
  DEF Next, ScanStep

\* No task is ever started over another one.
LEMMA SlotsAlwaysFree == Spec => []SlotsFree
  BY TypeCorrect, SlotsInit, SlotsStep, PTL DEF Spec

-----------------------------------------------------------------------------
(* A mail the remote took is sent again only if that could not be recorded *)

Recorded ==
    \A d \in Dests :
        d \in accepted /\ d \notin unsure \cup stolen =>
            \/ link[d] \in {"cleanup", "gone"}
            \/ \E t \in Tasks : Dest(t) = d /\ pc[t] = "sent"

\* A step with no new acceptance, that loses no record of one, keeps the records.
LEMMA RecordedFrame ==
    ASSUME Recorded,
           accepted' = accepted,
           unsure \subseteq unsure',
           stolen \subseteq stolen',
           \A d \in Dests : link[d] \in {"cleanup", "gone"} =>
                                link'[d] \in {"cleanup", "gone"},
           \A t \in Tasks : pc[t] = "sent" =>
                                pc'[t] = "sent" \/ Dest(t) \in unsure'
    PROVE  Recorded'
  BY Zenon DEF Recorded

\* Every step keeps the records: an acceptance not yet recorded is known to its task.
LEMMA RecordedStep ==
    TypeOK /\ SlotsFree /\ ExclusiveSend /\ Recorded /\ [Next]_vars => Recorded'
<1>. SUFFICES ASSUME TypeOK, SlotsFree, ExclusiveSend, Recorded, [Next]_vars
              PROVE  Recorded'
  BY Zenon
<1>. USE DEF disk, mailVars, history, bounds
<1>1. CASE UNCHANGED vars
  BY <1>1, RecordedFrame, Zenon DEF vars
<1>2. ASSUME NEW i \in Instances, crash(i) PROVE Recorded'
  <2>1. \A t \in Tasks : pc[t] = "sent" => pc'[t] = "sent" \/ Dest(t) \in unsure'
    BY <1>2, Zenon DEF crash
  <2>. QED
    BY <1>2, <2>1, RecordedFrame, Zenon DEF crash
<1>3. ASSUME NEW i \in Instances, new(i) \/ ScanStep(i)
      PROVE  Recorded'
  <2>1. \A t \in Tasks : pc[t] = "sent" => pc'[t] = "sent"
    <3>1. ASSUME NEW d \in Dests, scan_inflight(i, d)
          PROVE  \A t \in Tasks : pc[t] = "sent" => pc'[t] = "sent"
      <4>1. pc[<<i, "recheck", d>>] = "idle"
        BY <3>1, SpawnFrame, Zenon
        DEF scan_inflight, Origins, Folders, PC, SendPC
      <4>. QED
        BY <3>1, <4>1, ZenonT(30) DEF scan_inflight, Goto, TypeOK, ProcessOK
    <3>2. ASSUME NEW d \in Dests, scan_pending_cleanup(i, d)
          PROVE  \A t \in Tasks : pc[t] = "sent" => pc'[t] = "sent"
      <4>1. pc[<<i, "sweep", d>>] = "idle"
        BY <3>2, SpawnFrame, ZenonT(30)
        DEF scan_pending_cleanup, Origins, Folders, PC, CleanPC
      <4>. QED
        BY <3>2, <4>1, Zenon DEF scan_pending_cleanup, Goto, TypeOK, ProcessOK
    <3>3. ASSUME NEW d \in Dests, scan_queue(i, d)
          PROVE  \A t \in Tasks : pc[t] = "sent" => pc'[t] = "sent"
      <4>1. pc[<<i, "scan", d>>] = "idle"
        BY <3>3, SpawnFrame, Zenon
        DEF scan_queue, Origins, Folders, PC, SendPC
      <4>. QED
        BY <3>3, <4>1, ZenonT(30) DEF scan_queue, Goto, TypeOK, ProcessOK
    <3>. QED
      BY <1>3, <3>1, <3>2, <3>3, Zenon
      DEF new, ScanStep, new_return, scan_nothing, scan_error
  <2>2. UNCHANGED <<accepted, unsure, stolen, link>>
    BY <1>3, Zenon
    DEF new, ScanStep, new_return, scan_nothing, scan_inflight,
        scan_pending_cleanup, scan_queue, scan_error
  <2>. QED
    BY <2>1, <2>2, RecordedFrame, Zenon
<1>4. ASSUME NEW t \in Tasks, remote_accepts(t) PROVE Recorded'
  BY <1>4, TaskParts, Zenon
  DEF remote_accepts, Goto, TypeOK, ProcessOK, Recorded
<1>5. ASSUME NEW t \in Tasks, send_done(t) PROVE Recorded'
  <2>1. Dest(t) \notin stolen => link[Dest(t)] = "inflight"
    BY <1>5, TaskParts, Zenon DEF send_done, ExclusiveSend, Holding, HoldingPC
  <2>2. \A u \in Tasks : u # t => pc'[u] = pc[u]
    BY <1>5, Zenon DEF send_done, Goto, TypeOK, ProcessOK
  <2>3. UNCHANGED <<accepted, stolen>> /\ unsure \subseteq unsure'
    BY <1>5, Zenon DEF send_done
  <2>4. \A d \in Dests : d # Dest(t) => link'[d] = link[d]
    BY <1>5, Zenon DEF send_done, MoveLink, TypeOK, DiskOK
  <2>5. Dest(t) \notin stolen => link'[Dest(t)] = "cleanup"
    BY <1>5, <2>1, TaskParts, Zenon DEF send_done, MoveLink, TypeOK, DiskOK
  <2>6. ASSUME NEW d \in Dests, d \in accepted, d \notin unsure \cup stolen
        PROVE  \/ link'[d] \in {"cleanup", "gone"}
               \/ \E u \in Tasks : Dest(u) = d /\ pc'[u] = "sent"
    <3>1. CASE d = Dest(t)
      BY <2>5, <2>6, <3>1, Zenon
    <3>2. CASE d # Dest(t)
      BY <2>2, <2>4, <2>6, <3>2, Zenon DEF Recorded
    <3>. QED
      BY <3>1, <3>2, Zenon
  <2>. QED
    BY <2>3, <2>6, Zenon DEF Recorded
<1>6. ASSUME NEW t \in Tasks,
             \/ recheck(t) \/ send_start(t) \/ read_inflight(t)
             \/ transport_failure(t) \/ send_cancel(t) \/ drop(t)
             \/ reschedule_write(t) \/ reschedule_rename(t)
             \/ reschedule_error(t) \/ CleanupStep(t)
      PROVE  Recorded'
  <2>1. /\ UNCHANGED <<accepted, unsure>>
        /\ stolen \subseteq stolen'
        /\ pc[t] # "sent"
        /\ \A d \in Dests : link[d] \in {"cleanup", "gone"} =>
                                link'[d] \in {"cleanup", "gone"}
    BY <1>6, TaskParts, ZenonT(30)
    DEF TypeOK, DiskOK, MoveLink, recheck, send_start, read_inflight,
        transport_failure, send_cancel, drop, reschedule_write,
        reschedule_rename, reschedule_error, CleanupStep, cleanup_dest,
        cleanup_list, cleanup_contents, cleanup_mail, cleanup_link
  <2>2. \A u \in Tasks : u # t => pc'[u] = pc[u]
    BY <1>6, TaskStepFrame, ZenonT(30) DEF SendStep
  <2>. QED
    BY <2>1, <2>2, RecordedFrame, Zenon
<1>7. ASSUME NEW m \in Mails, EnqueueStep(m) PROVE Recorded'
  <2>1. \A t \in Tasks : pc[t] = "sent" => pc'[t] = "sent"
    BY <1>7, TaskParts, ZenonT(60)
    DEF SlotsFree, NotCommitted, DestsOf, EnqueueStep, enqueue, enqueue_error,
        abandon, commit_flush, make_dest_dir, make_dest_link, make_dest_error,
        cleanup_dest_dir, cleanup_contents_dir, commit
  <2>2. /\ UNCHANGED <<accepted, unsure, stolen>>
        /\ \A d \in Dests : link[d] \in {"cleanup", "gone"} =>
                                link'[d] \in {"cleanup", "gone"}
    BY <1>7, Zenon
    DEF TypeOK, DiskOK, EnqueueStep, enqueue, enqueue_error, abandon,
        commit_flush, Current, make_dest_dir, make_dest_link, make_dest_error,
        cleanup_dest_dir, cleanup_contents_dir, commit
  <2>. QED
    BY <2>1, <2>2, RecordedFrame, Zenon
<1>. QED
  BY <1>1, <1>2, <1>3, <1>4, <1>5, <1>6, <1>7, Zenon DEF Next, SendStep

\* For any number of instances and crashes: a mail is sent again after the
\* remote server took it only if a reply was lost, the process died before
\* send_done, or a delayed check took the mail away from a running attempt.
THEOREM ResentOnlyIfUnsure == Spec => []DuplicateOnlyIfUnsure
<1>1. Init => Recorded
  BY Zenon DEF Init, Recorded
<1>2. Spec => []Recorded
  BY <1>1, TypeCorrect, SlotsAlwaysFree, InflightIsALock, RecordedStep, PTL
  DEF Spec
<1>3. ExclusiveSend /\ Recorded /\ TypeOK => DuplicateOnlyIfUnsure
  BY TaskParts, SMTT(30)
  DEF ExclusiveSend, Recorded, DuplicateOnlyIfUnsure, Holding, HoldingPC
<1>. QED
  BY <1>2, <1>3, TypeCorrect, InflightIsALock, PTL

-----------------------------------------------------------------------------
(* What the client was told about a mail is true                           *)

\* A mail whose client has no answer yet, and that no scan saw: no task works
\* on it, and what is on disk is what commit has written (or undone) so far.
Untold(m) == enq[m] \in {"new", "open", "commit", "unwind"} /\ m \notin early

FreshDest(m, d) ==
    /\ \A t \in Tasks : Dest(t) = d => pc[t] = "idle"
    /\ link[d] \in {"none", "queue"}
    /\ d \notin accepted
    /\ enq[m] \in {"new", "open"} => link[d] = "none" /\ d \notin destDir
    /\ enq[m] = "commit" =>
        /\ d \in destDir => files[d] = DestFiles
        /\ link[d] = "queue" => d \in destDir
    /\ enq[m] = "unwind" /\ link[d] = "queue" /\ d \notin undo =>
        d \in spared \/ files[d] # DestFiles

Fresh(m) ==
    Untold(m) =>
        /\ enq[m] \in {"open", "commit"} => m \in mailDir \cap contents
        /\ \A d \in DestsOf(m) : FreshDest(m, d)

\* A recipient no scan can find: it has no symlink or no schedule.
Hidden(d) ==
    /\ \A t \in Tasks : Dest(t) = d => pc[t] = "idle"
    /\ link[d] = "none" \/ (link[d] = "queue" /\ "schedule" \notin files[d])

\* A recipient whose tasks do not get past opening its mail.
Stalled(d) ==
    /\ \A t \in Tasks :
          Dest(t) = d => pc[t] \in {"idle", "check", "waiting", "reading"}
    /\ link[d] \in {"none", "queue", "inflight"}
    /\ "metadata" \notin files[d] \/ MailOf[d] \notin contents

Unsent(d) == d \in spared \/ (d \notin accepted /\ (Hidden(d) \/ Stalled(d)))

\* Every recipient of a refused mail that the undo did not leave readable is
\* out of the tasks' reach.
Refused(m) ==
    enq[m] = "failed" /\ m \notin early => \A d \in DestsOf(m) : Unsent(d)

\* A mail whose commit is over, by its return or by the process's death, and
\* that no scan saw before.
Settled(m) == enq[m] \in {"acked", "lost"} /\ m \notin early

\* What the listing of a mail's folder found stays true until the removal of
\* the contents: nobody adds a recipient to a settled mail.
ListedEmpty ==
    \A t \in Tasks : pc[t] = "rmContents" /\ Settled(MailOf[Dest(t)]) =>
        DestsOf(MailOf[Dest(t)]) \cap destDir = {}

ToldTrue ==
    /\ \A m \in Mails : Fresh(m)
    /\ \A m \in Mails : Refused(m)
    /\ ListedEmpty
    /\ QueuedMailReadable

\* At the start nobody was told anything.
LEMMA ToldInit == Init => ToldTrue
<1>. SUFFICES ASSUME Init PROVE ToldTrue
  BY Zenon
<1>1. \A m \in Mails : Fresh(m)
  BY ConstantsAssumption, SMTT(30) DEF Init, Fresh, FreshDest, Untold, DestsOf
<1>2. \A m \in Mails : Refused(m)
  BY Zenon DEF Init, Refused
<1>3. ListedEmpty
  BY Zenon DEF Init, ListedEmpty
<1>4. QueuedMailReadable
  BY ConstantsAssumption, Zenon DEF Init, QueuedMailReadable
<1>. QED
  BY <1>1, <1>2, <1>3, <1>4, Zenon DEF ToldTrue

\* A step that leaves a mail's part of the state alone keeps Fresh.
LEMMA FreshFrame ==
    ASSUME NEW m \in Mails, Fresh(m),
           enq'[m] = enq[m],
           early \subseteq early',
           m \in mailDir \cap contents => m \in mailDir' \cap contents',
           \A d \in DestsOf(m) :
               /\ link'[d] = link[d]
               /\ files'[d] = files[d]
               /\ d \in destDir' <=> d \in destDir
               /\ enq[m] = "unwind" => (d \in undo' <=> d \in undo)
               /\ d \in spared => d \in spared'
               /\ d \in accepted' => d \in accepted
               /\ \A t \in Tasks : Dest(t) = d /\ pc[t] = "idle" => pc'[t] = "idle"
    PROVE  Fresh(m)'
<1>. SUFFICES ASSUME Untold(m)'
              PROVE  /\ enq'[m] \in {"open", "commit"} => m \in mailDir' \cap contents'
                     /\ \A d \in DestsOf(m) : FreshDest(m, d)'
  BY Zenon DEF Fresh, DestsOf
<1>1. Untold(m)
  BY Zenon DEF Untold
<1>2. enq'[m] \in {"open", "commit"} => m \in mailDir' \cap contents'
  BY <1>1, Zenon DEF Fresh
<1>3. ASSUME NEW d \in DestsOf(m) PROVE FreshDest(m, d)'
  <2>1. FreshDest(m, d)
    BY <1>1, <1>3, Zenon DEF Fresh
  <2>. QED
    BY <1>3, <2>1, ZenonT(30) DEF FreshDest
<1>. QED
  BY <1>2, <1>3, Zenon

\* A step that leaves the recipients' part alone, for which FreshDest still has to
\* be looked at because enq changes.
LEMMA FreshByDest ==
    ASSUME NEW m \in Mails,
           Untold(m)' => /\ enq'[m] \in {"open", "commit"} => m \in mailDir' \cap contents'
                         /\ \A d \in DestsOf(m) : FreshDest(m, d)'
    PROVE  Fresh(m)'
  BY Zenon DEF Fresh, DestsOf

\* A task touches its own recipient and mail only.
LEMMA TaskLocal ==
    ASSUME TypeOK, NEW t \in Tasks, SendStep(t) \/ CleanupStep(t)
    PROVE  /\ UNCHANGED <<enq, undo, early, spared>>
           /\ pc[t] # "idle"
           /\ destDir' \subseteq destDir
           /\ contents' \subseteq contents
           /\ \A u \in Tasks : u # t => pc'[u] = pc[u]
           /\ \A d \in Dests : d # Dest(t) =>
               /\ link'[d] = link[d]
               /\ files'[d] = files[d]
               /\ d \in destDir' <=> d \in destDir
               /\ d \in accepted' <=> d \in accepted
           /\ \A m \in Mails : m # MailOf[Dest(t)] =>
               /\ m \in mailDir' <=> m \in mailDir
               /\ m \in contents' <=> m \in contents
<1>. USE DEF TypeOK, DiskOK, ProcessOK, disk, mailVars, history, bounds
<1>1. UNCHANGED <<enq, undo, early, spared>> /\ pc[t] # "idle"
  BY Zenon DEF SendStep, recheck, send_start, read_inflight, transport_failure,
         remote_accepts, send_done, send_cancel, drop, reschedule_write,
         reschedule_rename, reschedule_error, CleanupStep, cleanup_dest,
         cleanup_list, cleanup_contents, cleanup_mail, cleanup_link
<1>5. destDir' \subseteq destDir /\ contents' \subseteq contents
  BY ZenonT(30) DEF SendStep, recheck, send_start, read_inflight,
         transport_failure, remote_accepts, send_done, send_cancel, drop,
         reschedule_write, reschedule_rename, reschedule_error, CleanupStep,
         cleanup_dest, cleanup_list, cleanup_contents, cleanup_mail, cleanup_link
<1>2. \A u \in Tasks : u # t => pc'[u] = pc[u]
  BY TaskStepFrame, Zenon
<1>3. \A d \in Dests : d # Dest(t) =>
        /\ link'[d] = link[d]
        /\ files'[d] = files[d]
        /\ d \in destDir' <=> d \in destDir
        /\ d \in accepted' <=> d \in accepted
  BY TaskParts, ZenonT(60)
  DEF MoveLink, SendStep, recheck, send_start, read_inflight, transport_failure,
      remote_accepts, send_done, send_cancel, drop, reschedule_write,
      reschedule_rename, reschedule_error, CleanupStep, cleanup_dest,
      cleanup_list, cleanup_contents, cleanup_mail, cleanup_link
<1>4. \A m \in Mails : m # MailOf[Dest(t)] =>
        /\ m \in mailDir' <=> m \in mailDir
        /\ m \in contents' <=> m \in contents
  BY ZenonT(30) DEF SendStep, recheck, send_start, read_inflight, transport_failure,
         remote_accepts, send_done, send_cancel, drop, reschedule_write,
         reschedule_rename, reschedule_error, CleanupStep, cleanup_dest,
         cleanup_list, cleanup_contents, cleanup_mail, cleanup_link
<1>. QED
  BY <1>1, <1>2, <1>3, <1>4, <1>5, ZenonT(30)

\* Receiving a mail touches that mail and its recipients only.
LEMMA EnqueueLocal ==
    ASSUME TypeOK, NEW n \in Mails, EnqueueStep(n)
    PROVE  /\ UNCHANGED <<early, accepted>>
           /\ \A m \in Mails : m # n =>
               /\ enq'[m] = enq[m]
               /\ m \in mailDir' <=> m \in mailDir
               /\ m \in contents' <=> m \in contents
           /\ \A d \in Dests : MailOf[d] # n =>
               /\ link'[d] = link[d]
               /\ files'[d] = files[d]
               /\ d \in destDir' <=> d \in destDir
               /\ d \in undo' <=> d \in undo
               /\ d \in spared' <=> d \in spared
           /\ \A t \in Tasks : MailOf[Dest(t)] # n => pc'[t] = pc[t]
<1>. USE DEF TypeOK, DiskOK, ProcessOK, disk, mailVars, history, bounds, DestsOf
<1>1. /\ UNCHANGED <<early, accepted>>
      /\ \A m \in Mails : m # n =>
           /\ enq'[m] = enq[m]
           /\ m \in mailDir' <=> m \in mailDir
           /\ m \in contents' <=> m \in contents
  BY ZenonT(30) DEF EnqueueStep, enqueue, enqueue_error, abandon, commit_flush,
         make_dest_dir, make_dest_link, make_dest_error, cleanup_dest_dir,
         cleanup_contents_dir, commit
<1>2. \A d \in Dests : MailOf[d] # n =>
        /\ link'[d] = link[d]
        /\ files'[d] = files[d]
        /\ d \in destDir' <=> d \in destDir
        /\ d \in undo' <=> d \in undo
        /\ d \in spared' <=> d \in spared
  <2>. SUFFICES ASSUME NEW d \in Dests, MailOf[d] # n
                PROVE  /\ link'[d] = link[d]
                       /\ files'[d] = files[d]
                       /\ d \in destDir' <=> d \in destDir
                       /\ d \in undo' <=> d \in undo
                       /\ d \in spared' <=> d \in spared
    BY ZenonT(30)
  <2>1. CASE \E e \in Dests : make_dest_dir(n, e) \/ make_dest_link(n, e)
    BY <2>1, ZenonT(30) DEF make_dest_dir, make_dest_link, Current
  <2>2. CASE \E e \in Dests : make_dest_error(n, e)
    BY <2>2, ZenonT(30) DEF make_dest_error, Current
  <2>3. CASE \E e \in Dests : cleanup_dest_dir(n, e)
    BY <2>3, Zenon DEF cleanup_dest_dir
  <2>4. CASE \/ enqueue(n) \/ enqueue_error(n) \/ abandon(n)
             \/ commit_flush(n) \/ cleanup_contents_dir(n) \/ commit(n)
    BY <2>4, ZenonT(30)
    DEF enqueue, enqueue_error, abandon, commit_flush, cleanup_contents_dir, commit
  <2>. QED
    BY <2>1, <2>2, <2>3, <2>4, ZenonT(30) DEF EnqueueStep
<1>3. \A t \in Tasks : MailOf[Dest(t)] # n => pc'[t] = pc[t]
  BY Zenon DEF EnqueueStep, enqueue, enqueue_error, abandon, commit_flush,
         make_dest_dir, make_dest_link, make_dest_error, cleanup_dest_dir,
         cleanup_contents_dir, commit
<1>. QED
  BY <1>1, <1>2, <1>3, ZenonT(30)

\* Every step keeps what commit is about to promise: the files of a mail being enqueued.
LEMMA FreshStep ==
    TypeOK /\ (\A m \in Mails : Fresh(m)) /\ [Next]_vars
        => (\A m \in Mails : Fresh(m))'
<1>. SUFFICES ASSUME TypeOK, \A n \in Mails : Fresh(n), [Next]_vars,
                     NEW m \in Mails
              PROVE  Fresh(m)'
  BY Zenon
<1>. Fresh(m)
  BY Zenon
<1>1. CASE UNCHANGED vars
  <2>1. UNCHANGED <<link, files, destDir, mailDir, contents, enq, undo, early,
                    accepted, pc, spared>>
    BY <1>1, Zenon DEF vars, disk, mailVars, history
  <2>. QED
    BY <2>1, FreshFrame, Zenon
<1>2. ASSUME NEW i \in Instances, new(i) \/ new_return(i)
      PROVE  Fresh(m)'
  <2>1. UNCHANGED <<link, files, destDir, mailDir, contents, enq, undo, early,
                    accepted, pc, spared>>
    BY <1>2, Zenon DEF new, new_return, disk, mailVars, history
  <2>. QED
    BY <2>1, FreshFrame, Zenon
<1>3. ASSUME NEW i \in Instances, NEW f \in Folders,
             \/ \E d \in Dests : scan_nothing(i, f, d)
             \/ \E hit \in SUBSET Dests : scan_error(i, f, hit)
      PROVE  Fresh(m)'
  <2>1. UNCHANGED <<link, files, destDir, mailDir, contents, enq, undo, early,
                    accepted, pc, spared>>
    BY <1>3, Zenon DEF scan_nothing, scan_error, disk, mailVars, history
  <2>. QED
    BY <2>1, FreshFrame, Zenon
<1>4. ASSUME NEW i \in Instances, NEW d \in Dests,
             \/ scan_inflight(i, d)
             \/ scan_pending_cleanup(i, d)
             \/ scan_queue(i, d)
      PROVE  Fresh(m)'
  <2>1. UNCHANGED <<link, files, destDir, mailDir, contents, enq, undo, accepted,
                    spared>>
    BY <1>4, ZenonT(30)
    DEF scan_inflight, scan_pending_cleanup, scan_queue, disk, mailVars, history
  <2>2. early \subseteq early'
    BY <1>4, ZenonT(30) DEF scan_inflight, scan_pending_cleanup, scan_queue, history
  <2>3. CASE MailOf[d] # m
    <3>1. ASSUME NEW t \in Tasks, Dest(t) # d PROVE pc'[t] = pc[t]
      <4>1. \A o \in Origins : t # <<i, o, d>>
        BY <3>1, SlotIsTask
      <4>. QED
        BY <1>4, <4>1, Zenon
        DEF scan_inflight, scan_pending_cleanup, scan_queue, Goto, TypeOK,
            ProcessOK, Origins
    <3>2. \A e \in DestsOf(m) : e # d
      BY <2>3, Zenon DEF DestsOf
    <3>. QED
      BY <2>1, <2>2, <3>1, <3>2, FreshFrame, ZenonT(30)
  <2>4. CASE MailOf[d] = m
    <3>. SUFFICES ASSUME Untold(m)' PROVE FALSE
      BY FreshByDest, Zenon
    <3>1. Untold(m)
      BY <2>1, <2>2, Zenon DEF Untold
    <3>2. FreshDest(m, d)
      BY <2>4, <3>1, Zenon DEF Fresh, DestsOf
    <3>3. link[d] = "queue"
      BY <1>4, <3>2, ZenonT(30) DEF scan_inflight, scan_pending_cleanup, scan_queue, FreshDest
    <3>4. m \in early'
      BY <1>4, <2>4, <3>1, <3>2, <3>3, ZenonT(30)
      DEF scan_inflight, scan_pending_cleanup, scan_queue, Untold, FreshDest,
          TypeOK, ProcessOK, Enq
    <3>. QED
      BY <3>4, Zenon DEF Untold
  <2>. QED
    BY <2>3, <2>4, Zenon
<1>5. ASSUME NEW i \in Instances, crash(i) PROVE Fresh(m)'
  <2>. SUFFICES ASSUME Untold(m)' PROVE Fresh(m)'
    BY FreshByDest, Zenon
  <2>1. /\ UNCHANGED <<link, files, destDir, mailDir, contents, early, accepted,
                       spared>>
        /\ enq'[m] = enq[m]
    BY <1>5, Zenon DEF crash, Died, Untold, disk, history, TypeOK, ProcessOK
  <2>2. \A t \in Tasks : pc[t] = "idle" => pc'[t] = "idle"
    BY <1>5, Zenon DEF crash, TypeOK, ProcessOK
  <2>3. \A d \in DestsOf(m) : enq[m] = "unwind" => (d \in undo' <=> d \in undo)
    BY <1>5, <2>1, Zenon DEF crash, Died, DestsOf, TypeOK, ProcessOK
  <2>. QED
    BY <2>1, <2>2, <2>3, FreshFrame, Zenon
<1>6. ASSUME NEW t \in Tasks, SendStep(t) \/ CleanupStep(t) PROVE Fresh(m)'
  <2>. Dest(t) \in Dests
    BY TaskParts, Zenon
  <2>1. UNCHANGED <<enq, undo, early, spared>> /\ pc[t] # "idle"
    BY <1>6, TaskLocal, ZenonT(30)
  <2>2. CASE MailOf[Dest(t)] # m
    <3>1. m \in mailDir' <=> m \in mailDir
      BY <1>6, <2>2, TaskLocal, ZenonT(30)
    <3>2. m \in contents' <=> m \in contents
      BY <1>6, <2>2, TaskLocal, Zenon
    <3>3. \A d \in DestsOf(m) :
            /\ link'[d] = link[d]
            /\ files'[d] = files[d]
            /\ d \in destDir' <=> d \in destDir
            /\ d \in accepted' <=> d \in accepted
      BY <1>6, <2>2, TaskLocal, Zenon DEF DestsOf
    <3>4. \A u \in Tasks : Dest(u) \in DestsOf(m) => pc'[u] = pc[u]
      BY <1>6, <2>2, TaskLocal, Zenon DEF DestsOf
    <3>. QED
      BY <2>1, <3>1, <3>2, <3>3, <3>4, FreshFrame, ZenonT(30)
  <2>3. CASE MailOf[Dest(t)] = m
    <3>1. ~Untold(m)
      BY <2>1, <2>3, Zenon DEF Fresh, FreshDest, DestsOf
    <3>2. ~Untold(m)'
      BY <2>1, <3>1, Zenon DEF Untold
    <3>. QED
      BY <3>2, FreshByDest, Zenon
  <2>. QED
    BY <2>2, <2>3, Zenon
<1>7. ASSUME NEW n \in Mails, EnqueueStep(n) PROVE Fresh(m)'
  <2>0. UNCHANGED <<early, accepted>>
    BY <1>7, EnqueueLocal, ZenonT(30)
  <2>1. CASE n # m
    <3>1. enq'[m] = enq[m] /\ (m \in mailDir' <=> m \in mailDir)
      BY <1>7, <2>1, EnqueueLocal, Zenon
    <3>2. m \in contents' <=> m \in contents
      BY <1>7, <2>1, EnqueueLocal, Zenon
    <3>3. \A d \in DestsOf(m) :
            /\ link'[d] = link[d]
            /\ files'[d] = files[d]
            /\ d \in destDir' <=> d \in destDir
            /\ d \in undo' <=> d \in undo
            /\ d \in spared' <=> d \in spared
      BY <1>7, <2>1, EnqueueLocal, Zenon DEF DestsOf
    <3>4. \A t \in Tasks : Dest(t) \in DestsOf(m) => pc'[t] = pc[t]
      BY <1>7, <2>1, EnqueueLocal, Zenon DEF DestsOf
    <3>. QED
      BY <2>0, <3>1, <3>2, <3>3, <3>4, FreshFrame, ZenonT(30)
  <2>2. CASE n = m
    <3>. SUFFICES ASSUME Untold(m)'
                  PROVE  /\ enq'[m] \in {"open", "commit"} => m \in mailDir' \cap contents'
                         /\ \A d \in DestsOf(m) : FreshDest(m, d)'
      BY FreshByDest, Zenon
    <3>. USE DEF mailVars, history
    <3>0. ~commit(m)
      BY Zenon DEF commit, Untold, TypeOK, ProcessOK
    <3>1. enq[m] \in {"new", "open", "commit", "unwind"}
      BY <1>7, <2>2, Zenon
      DEF EnqueueStep, enqueue, enqueue_error, abandon, commit_flush, Current,
          make_dest_dir, make_dest_link, make_dest_error, cleanup_dest_dir,
          cleanup_contents_dir, commit
    <3>2. Untold(m)
      BY <2>0, <3>1, Zenon DEF Untold
    <3>3. enq'[m] \in {"open", "commit"} => m \in mailDir' \cap contents'
      BY <1>7, <2>2, <3>0, <3>2, ZenonT(60)
      DEF EnqueueStep, enqueue, enqueue_error, abandon, commit_flush, Current,
          make_dest_dir, make_dest_link, make_dest_error, cleanup_dest_dir,
          cleanup_contents_dir, Fresh, TypeOK, ProcessOK
    <3>4. ASSUME NEW d \in DestsOf(m) PROVE FreshDest(m, d)'
      <4>. d \in Dests
        BY Zenon DEF DestsOf
      <4>1. FreshDest(m, d)
        BY <3>2, <3>4, Zenon DEF Fresh
      <4>2. CASE \/ enqueue(m) \/ enqueue_error(m) \/ abandon(m)
                 \/ commit_flush(m) \/ cleanup_contents_dir(m)
        <5>1. enqueue(m) \/ commit_flush(m)
          BY <4>2, Zenon
          DEF enqueue_error, abandon, cleanup_contents_dir, Untold, TypeOK,
              ProcessOK
        <5>2. UNCHANGED <<link, files, destDir, accepted, pc>>
          BY <5>1, Zenon DEF enqueue, commit_flush
        <5>3. enq[m] \in {"new", "open"} /\ enq'[m] \in {"open", "commit"}
          BY <5>1, Zenon DEF enqueue, commit_flush, Untold, TypeOK, ProcessOK
        <5>. QED
          BY <4>1, <5>2, <5>3, ZenonT(30) DEF FreshDest
      <4>3. ASSUME NEW e \in Dests, make_dest_dir(m, e)
            PROVE  FreshDest(m, d)'
        BY <4>1, <4>3, Zenon DEF make_dest_dir, Current, FreshDest, TypeOK, DiskOK
      <4>4. ASSUME NEW e \in Dests, make_dest_link(m, e)
            PROVE  FreshDest(m, d)'
        BY <4>1, <4>4, Zenon DEF make_dest_link, Current, FreshDest, TypeOK, DiskOK
      <4>5. ASSUME NEW e \in Dests, make_dest_error(m, e)
            PROVE  FreshDest(m, d)'
        <5>1. UNCHANGED <<link, accepted, pc>>
          BY <4>5, Zenon DEF make_dest_error
        <5>2. enq'[m] = "unwind" /\ (link[d] = "queue" => d \in undo')
          BY <3>4, <4>5, Zenon DEF make_dest_error, TypeOK, ProcessOK
        <5>. QED
          BY <4>1, <5>1, <5>2, Zenon DEF FreshDest
      <4>6. ASSUME NEW e \in Dests, cleanup_dest_dir(m, e)
            PROVE  FreshDest(m, d)'
        <5>1. UNCHANGED <<link, accepted, pc, enq>> /\ enq[m] = "unwind"
          BY <4>6, Zenon DEF cleanup_dest_dir
        <5>2. CASE d = e
          <6>1. d \in spared' \/ files'[d] # DestFiles
            BY <4>6, <5>2, Zenon DEF cleanup_dest_dir, TypeOK, DiskOK
          <6>. QED
            BY <4>1, <5>1, <6>1, Zenon DEF FreshDest
        <5>3. CASE d # e
          <6>1. /\ files'[d] = files[d]
                /\ d \in undo' <=> d \in undo
                /\ d \in spared => d \in spared'
            BY <4>6, <5>3, Zenon DEF cleanup_dest_dir, TypeOK, DiskOK
          <6>. QED
            BY <4>1, <5>1, <6>1, Zenon DEF FreshDest
        <5>. QED
          BY <5>2, <5>3, Zenon
      <4>. QED
        BY <1>7, <2>2, <3>0, <4>2, <4>3, <4>4, <4>5, <4>6, Zenon DEF EnqueueStep
    <3>. QED
      BY <3>3, <3>4, Zenon
  <2>. QED
    BY <2>1, <2>2, Zenon
<1>. QED
  BY <1>1, <1>2, <1>3, <1>4, <1>5, <1>6, <1>7, Zenon DEF Next, ScanStep

\* A mail seen early stays so.
LEMMA EarlyGrows == TypeOK /\ [Next]_vars => early \subseteq early'
<1>. SUFFICES ASSUME TypeOK, [Next]_vars PROVE early \subseteq early'
  BY Zenon
<1>. USE DEF history
<1>1. CASE UNCHANGED vars
  BY <1>1, Zenon DEF vars
<1>2. ASSUME NEW i \in Instances, new(i) \/ ScanStep(i) \/ crash(i)
      PROVE  early \subseteq early'
  BY <1>2, ZenonT(30)
  DEF new, ScanStep, new_return, scan_nothing, scan_error, scan_inflight,
      scan_pending_cleanup, scan_queue, crash
<1>3. ASSUME NEW t \in Tasks, SendStep(t) \/ CleanupStep(t)
      PROVE  early \subseteq early'
  BY <1>3, TaskLocal, Zenon
<1>4. ASSUME NEW n \in Mails, EnqueueStep(n) PROVE early \subseteq early'
  BY <1>4, EnqueueLocal, Zenon
<1>. QED
  BY <1>1, <1>2, <1>3, <1>4, Zenon DEF Next

\* Only commit, or what comes before it, refuses a mail.
LEMMA EnqChanges ==
    ASSUME TypeOK, [Next]_vars, NEW m \in Mails,
           enq'[m] = "failed", enq[m] # "failed"
    PROVE  EnqueueStep(m)
<1>. USE DEF mailVars
<1>1. ~UNCHANGED vars
  BY Zenon DEF vars
<1>2. ASSUME NEW i \in Instances, new(i) \/ ScanStep(i) PROVE FALSE
  BY <1>2, ZenonT(30)
  DEF new, ScanStep, new_return, scan_nothing, scan_error, scan_inflight,
      scan_pending_cleanup, scan_queue
<1>3. ASSUME NEW i \in Instances, crash(i) PROVE FALSE
  BY <1>3, Zenon DEF crash, Died
<1>4. ASSUME NEW t \in Tasks, SendStep(t) \/ CleanupStep(t) PROVE FALSE
  BY <1>4, TaskLocal, Zenon
<1>5. ASSUME NEW n \in Mails, EnqueueStep(n) PROVE n = m
  BY <1>5, EnqueueLocal, Zenon
<1>. QED
  BY <1>1, <1>2, <1>3, <1>4, <1>5, Zenon DEF Next

\* A step that leaves a recipient's part of the state alone, or ends its tasks,
\* keeps it out of reach.
LEMMA UnsentFrame ==
    ASSUME NEW d \in Dests, Unsent(d),
           link'[d] = link[d],
           files'[d] = files[d],
           MailOf[d] \in contents' => MailOf[d] \in contents,
           d \in spared => d \in spared',
           d \in accepted' => d \in accepted,
           \A t \in Tasks : Dest(t) = d => pc'[t] \in {"idle", pc[t]}
    PROVE  Unsent(d)'
<1>1. Hidden(d) => Hidden(d)'
  BY Zenon DEF Hidden
<1>2. Stalled(d) => Stalled(d)'
  BY Zenon DEF Stalled
<1>. QED
  BY <1>1, <1>2, Zenon DEF Unsent

\* A step keeps every recipient of a refused mail out of reach.
LEMMA UnsentStep ==
    ASSUME TypeOK, [Next]_vars, NEW m \in Mails, NEW d \in DestsOf(m),
           enq[m] = "failed", Unsent(d)
    PROVE  Unsent(d)'
<1>. d \in Dests /\ MailOf[d] = m
  BY Zenon DEF DestsOf
<1>. USE DEF disk, mailVars, history, bounds
<1>1. CASE UNCHANGED vars
  <2>1. UNCHANGED <<link, files, contents, spared, accepted, pc>>
    BY <1>1, Zenon DEF vars
  <2>. QED
    BY <2>1, UnsentFrame, Zenon
<1>2. ASSUME NEW i \in Instances, new(i) \/ new_return(i)
      PROVE  Unsent(d)'
  <2>1. UNCHANGED <<link, files, contents, spared, accepted, pc>>
    BY <1>2, Zenon DEF new, new_return
  <2>. QED
    BY <2>1, UnsentFrame, Zenon
<1>3. ASSUME NEW i \in Instances, NEW f \in Folders,
             \/ \E e \in Dests : scan_nothing(i, f, e)
             \/ \E hit \in SUBSET Dests : scan_error(i, f, hit)
      PROVE  Unsent(d)'
  <2>1. UNCHANGED <<link, files, contents, spared, accepted, pc>>
    BY <1>3, Zenon DEF scan_nothing, scan_error
  <2>. QED
    BY <2>1, UnsentFrame, Zenon
<1>4. ASSUME NEW i \in Instances, NEW e \in Dests,
             \/ scan_inflight(i, e)
             \/ scan_pending_cleanup(i, e)
             \/ scan_queue(i, e)
      PROVE  Unsent(d)'
  <2>1. UNCHANGED <<link, files, contents, spared, accepted>>
    BY <1>4, ZenonT(30) DEF scan_inflight, scan_pending_cleanup, scan_queue
  <2>2. CASE e # d
    <3>1. ASSUME NEW t \in Tasks, Dest(t) = d PROVE pc'[t] = pc[t]
      <4>1. \A o \in Origins : t # <<i, o, e>>
        BY <2>2, <3>1, SlotIsTask
      <4>. QED
        BY <1>4, <4>1, Zenon
        DEF scan_inflight, scan_pending_cleanup, scan_queue, Goto, TypeOK,
            ProcessOK, Origins
    <3>. QED
      BY <2>1, <3>1, UnsentFrame, Zenon
  <2>3. CASE e = d
    <3>. SUFFICES ASSUME d \notin spared, d \notin accepted
                  PROVE  Unsent(d)'
      BY <2>1, Zenon DEF Unsent
    <3>1. ~Hidden(d)
      BY <1>4, <2>3, Zenon DEF Hidden, scan_inflight, scan_pending_cleanup, scan_queue
    <3>2. Stalled(d)
      BY <3>1, Zenon DEF Unsent
    <3>3. PICK o \in Origins, l \in {"check", "waiting"} :
            pc' = [pc EXCEPT ![<<i, o, d>>] = l]
      BY <1>4, <2>3, <3>2, Zenon
      DEF scan_inflight, scan_pending_cleanup, scan_queue, Goto, Stalled, Origins
    <3>4. \A t \in Tasks : pc'[t] \in {pc[t], "check", "waiting"}
      BY <3>3, Zenon DEF TypeOK, ProcessOK
    <3>5. Stalled(d)'
      BY <2>1, <3>2, <3>4, Zenon DEF Stalled
    <3>. QED
      BY <2>1, <3>5, Zenon DEF Unsent
  <2>. QED
    BY <2>2, <2>3, Zenon
<1>5. ASSUME NEW i \in Instances, crash(i) PROVE Unsent(d)'
  <2>1. UNCHANGED <<link, files, contents, spared, accepted>>
    BY <1>5, Zenon DEF crash
  <2>2. \A t \in Tasks : pc'[t] \in {"idle", pc[t]}
    BY <1>5, Zenon DEF crash
  <2>. QED
    BY <2>1, <2>2, UnsentFrame, Zenon
<1>6. ASSUME NEW t \in Tasks, SendStep(t) \/ CleanupStep(t) PROVE Unsent(d)'
  <2>. Dest(t) \in Dests
    BY TaskParts, Zenon
  <2>1. UNCHANGED spared /\ pc[t] # "idle" /\ contents' \subseteq contents
    BY <1>6, TaskLocal, Zenon
  <2>2. CASE Dest(t) # d
    <3>1. /\ link'[d] = link[d]
          /\ files'[d] = files[d]
          /\ d \in accepted' <=> d \in accepted
      BY <1>6, <2>2, TaskLocal, Zenon
    <3>2. \A u \in Tasks : Dest(u) = d => pc'[u] = pc[u]
      BY <1>6, <2>2, TaskLocal, Zenon
    <3>. QED
      BY <2>1, <3>1, <3>2, UnsentFrame, Zenon
  <2>3. CASE Dest(t) = d
    <3>. SUFFICES ASSUME d \notin spared PROVE Unsent(d)'
      BY <2>1, Zenon DEF Unsent
    <3>1. Stalled(d) /\ d \notin accepted
      BY <2>1, <2>3, Zenon DEF Unsent, Hidden
    <3>2. pc[t] \in {"check", "waiting", "reading"}
      BY <2>1, <2>3, <3>1, Zenon DEF Stalled
    <3>3. ~read_inflight(t)
      BY <2>3, <3>1, Zenon DEF Stalled, read_inflight
    <3>4. recheck(t) \/ send_start(t)
      BY <1>6, <3>2, <3>3, ZenonT(60)
      DEF SendStep, CleanupStep, transport_failure, remote_accepts, send_done,
          send_cancel, drop, reschedule_write, reschedule_rename,
          reschedule_error, cleanup_dest, cleanup_list, cleanup_contents,
          cleanup_mail, cleanup_link
    <3>5. UNCHANGED <<files, contents, accepted>>
      BY <3>4, Zenon DEF recheck, send_start
    <3>6. link'[d] \in {"none", "queue", "inflight"}
      BY <2>3, <3>1, <3>4, Zenon
      DEF recheck, send_start, MoveLink, Stalled, TypeOK, DiskOK
    <3>7. pc'[t] \in {"idle", "check", "waiting", "reading"}
      BY <3>4, Zenon DEF recheck, send_start, Goto, TypeOK, ProcessOK
    <3>8. \A u \in Tasks : u # t => pc'[u] = pc[u]
      BY <1>6, TaskLocal, Zenon
    <3>9. Stalled(d)'
      BY <3>1, <3>5, <3>6, <3>7, <3>8, Zenon DEF Stalled
    <3>. QED
      BY <3>1, <3>5, <3>9, Zenon DEF Unsent
  <2>. QED
    BY <2>2, <2>3, Zenon
<1>7. ASSUME NEW n \in Mails, EnqueueStep(n) PROVE Unsent(d)'
  <2>1. n # m
    BY <1>7, ZenonT(30)
    DEF EnqueueStep, enqueue, enqueue_error, abandon, commit_flush, Current,
        make_dest_dir, make_dest_link, make_dest_error, cleanup_dest_dir,
        cleanup_contents_dir, commit
  <2>2. /\ link'[d] = link[d]
        /\ files'[d] = files[d]
        /\ d \in spared' <=> d \in spared
    BY <1>7, <2>1, EnqueueLocal, Zenon
  <2>3. UNCHANGED accepted /\ (m \in contents' <=> m \in contents)
    BY <1>7, <2>1, EnqueueLocal, Zenon
  <2>4. ASSUME NEW t \in Tasks, Dest(t) = d PROVE pc'[t] = pc[t]
    <3>1. MailOf[Dest(t)] # n
      BY <2>1, <2>4, Zenon
    <3>. QED
      BY <1>7, <3>1, EnqueueLocal, Zenon
  <2>. QED
    BY <2>2, <2>3, <2>4, UnsentFrame, Zenon
<1>. QED
  BY <1>1, <1>2, <1>3, <1>4, <1>5, <1>6, <1>7, Zenon DEF Next, ScanStep

\* A mail is refused with its recipients out of reach, and they stay so.
LEMMA RefusedStep ==
    TypeOK /\ ToldTrue /\ [Next]_vars => (\A m \in Mails : Refused(m))'
<1>. SUFFICES ASSUME TypeOK, ToldTrue, [Next]_vars, NEW m \in Mails,
                     enq'[m] = "failed", m \notin early',
                     NEW d \in DestsOf(m)
              PROVE  Unsent(d)'
  BY Zenon DEF Refused, DestsOf
<1>. d \in Dests /\ MailOf[d] = m
  BY Zenon DEF DestsOf
<1>. USE DEF disk, mailVars, history, bounds
<1>1. m \notin early
  <2>1. early \subseteq early'
    BY EarlyGrows, Zenon
  <2>. QED
    BY <2>1, Zenon
<1>2. CASE enq[m] = "failed"
  <2>1. Unsent(d)
    BY <1>1, <1>2, Zenon DEF ToldTrue, Refused
  <2>. QED
    BY <1>2, <2>1, UnsentStep, Zenon
<1>3. CASE enq[m] # "failed"
  <2>1. EnqueueStep(m)
    BY <1>3, EnqChanges, Zenon
  <2>2. \/ enqueue_error(m) \/ abandon(m) \/ commit_flush(m)
        \/ cleanup_contents_dir(m)
    BY <2>1, ZenonT(60)
    DEF EnqueueStep, enqueue, make_dest_dir, make_dest_link, make_dest_error,
        cleanup_dest_dir, commit, Current, TypeOK, ProcessOK
  <2>3. Untold(m)
    BY <1>1, <2>2, Zenon
    DEF Untold, enqueue_error, abandon, commit_flush, cleanup_contents_dir
  <2>4. FreshDest(m, d)
    BY <2>3, Zenon DEF ToldTrue, Fresh
  <2>5. UNCHANGED <<link, files, pc, accepted>>
    BY <2>2, ZenonT(30)
    DEF enqueue_error, abandon, commit_flush, cleanup_contents_dir
  <2>6. link[d] = "none" => Hidden(d)'
    BY <2>4, <2>5, Zenon DEF FreshDest, Hidden
  <2>7. CASE link[d] = "none"
    BY <2>4, <2>5, <2>6, <2>7, Zenon DEF Unsent, FreshDest
  <2>8. CASE link[d] # "none"
    <3>1. link[d] = "queue" /\ cleanup_contents_dir(m)
      BY <2>2, <2>4, <2>8, Zenon
      DEF FreshDest, enqueue_error, abandon, commit_flush
    <3>2. d \in spared \/ files[d] # DestFiles
      BY <2>4, <3>1, Zenon DEF FreshDest, cleanup_contents_dir
    <3>3. CASE contents' = contents \ {m}
      <4>1. Stalled(d)'
        BY <2>4, <2>5, <3>1, <3>3, Zenon DEF Stalled, FreshDest
      <4>. QED
        BY <2>4, <2>5, <4>1, Zenon DEF Unsent, FreshDest
    <3>4. CASE UNCHANGED <<contents, spared>>
      <4>1. files[d] \subseteq DestFiles
        BY Zenon DEF TypeOK, DiskOK
      <4>2. d \in spared \/ "metadata" \notin files[d] \/ "schedule" \notin files[d]
        BY <3>2, <4>1, Zenon DEF DestFiles
      <4>3. "metadata" \notin files[d] => Stalled(d)'
        BY <2>4, <2>5, <3>1, Zenon DEF Stalled, FreshDest
      <4>4. "schedule" \notin files[d] => Hidden(d)'
        BY <2>4, <2>5, <3>1, Zenon DEF Hidden, FreshDest
      <4>. QED
        BY <2>4, <2>5, <3>4, <4>2, <4>3, <4>4, Zenon DEF Unsent, FreshDest
    <3>. QED
      BY <3>1, <3>3, <3>4, Zenon DEF cleanup_contents_dir
  <2>. QED
    BY <2>7, <2>8, Zenon
<1>. QED
  BY <1>2, <1>3, Zenon

\* What a listing found stays true until the contents are removed.
LEMMA ListedStep ==
    TypeOK /\ ToldTrue /\ [Next]_vars => ListedEmpty'
<1>. SUFFICES ASSUME TypeOK, ToldTrue, [Next]_vars, NEW t \in Tasks,
                     pc'[t] = "rmContents", Settled(MailOf[Dest(t)])'
              PROVE  DestsOf(MailOf[Dest(t)]) \cap destDir' = {}
  BY Zenon DEF ListedEmpty, DestsOf
<1>. DEFINE m == MailOf[Dest(t)]
<1>. Dest(t) \in Dests /\ m \in Mails
  BY TaskParts, ConstantsAssumption, Zenon
<1>. Dest(t) \in DestsOf(m)
  BY Zenon DEF DestsOf
<1>. HIDE DEF m
<1>. USE DEF disk, mailVars, history, bounds
<1>0. m \notin early /\ enq'[m] \in {"acked", "lost"}
  BY EarlyGrows, Zenon DEF Settled, m
<1>1. Untold(m) => pc[t] = "idle"
  BY Zenon DEF ToldTrue, Fresh, FreshDest
<1>2. ASSUME pc[t] = "rmContents", Settled(m), destDir' \subseteq destDir
      PROVE  DestsOf(m) \cap destDir' = {}
  BY <1>2, Zenon DEF ToldTrue, ListedEmpty, m
<1>3. ASSUME UNCHANGED vars PROVE DestsOf(m) \cap destDir' = {}
  <2>1. UNCHANGED <<pc, enq, destDir>>
    BY <1>3, Zenon DEF vars
  <2>. QED
    BY <1>0, <1>2, <2>1, Zenon DEF Settled
<1>4. ASSUME NEW i \in Instances, new(i) \/ ScanStep(i)
      PROVE  DestsOf(m) \cap destDir' = {}
  <2>1. UNCHANGED <<destDir, enq>>
    BY <1>4, ZenonT(30)
    DEF new, ScanStep, new_return, scan_nothing, scan_error, scan_inflight,
        scan_pending_cleanup, scan_queue
  <2>2. pc[t] = "rmContents"
    <3>1. ASSUME NEW o \in Origins, NEW d \in Dests,
                 NEW l \in {"check", "rmDest", "waiting"}, Goto(<<i, o, d>>, l)
          PROVE  pc[t] = "rmContents"
      BY <3>1, Zenon DEF Goto, TypeOK, ProcessOK
    <3>. QED
      BY <1>4, <3>1, Zenon
      DEF new, ScanStep, new_return, scan_nothing, scan_error, scan_inflight,
          scan_pending_cleanup, scan_queue, Origins
  <2>. QED
    BY <1>0, <1>2, <2>1, <2>2, Zenon DEF Settled
<1>5. ASSUME NEW i \in Instances, crash(i)
      PROVE  DestsOf(m) \cap destDir' = {}
  <2>1. UNCHANGED destDir /\ pc[t] = "rmContents"
    BY <1>5, Zenon DEF crash
  <2>2. enq[m] \in {"acked", "lost"}
    <3>1. enq[m] \notin {"open", "commit"}
      BY <1>0, <1>1, <2>1, Zenon DEF Untold
    <3>. QED
      BY <1>0, <1>5, <3>1, Zenon DEF crash, Died, TypeOK, ProcessOK
  <2>. QED
    BY <1>0, <1>2, <2>1, <2>2, Zenon DEF Settled
<1>6. ASSUME NEW u \in Tasks, SendStep(u) \/ CleanupStep(u)
      PROVE  DestsOf(m) \cap destDir' = {}
  <2>1. UNCHANGED enq /\ destDir' \subseteq destDir
    BY <1>6, TaskLocal, Zenon
  <2>2. CASE pc[t] = "rmContents"
    BY <1>0, <1>2, <2>1, <2>2, Zenon DEF Settled
  <2>3. CASE pc[t] # "rmContents"
    <3>1. u = t
      BY <1>6, <2>3, TaskLocal, Zenon
    <3>2. cleanup_list(t)
      BY <1>6, <3>1, ZenonT(60)
      DEF SendStep, recheck, send_start, read_inflight, transport_failure,
          remote_accepts, send_done, send_cancel, drop, reschedule_write,
          reschedule_rename, reschedule_error, CleanupStep, cleanup_dest,
          cleanup_contents, cleanup_mail, cleanup_link, Goto, TypeOK, ProcessOK
    <3>3. pc[t] = "list" /\ UNCHANGED destDir
          /\ pc' = [pc EXCEPT ![t] = IF DestsOf(m) \cap destDir = {}
                                     THEN "rmContents" ELSE "rmLink"]
      BY <3>2, Zenon DEF cleanup_list, Goto, m
    <3>. QED
      BY <3>3, Zenon DEF TypeOK, ProcessOK
  <2>. QED
    BY <2>2, <2>3, Zenon
<1>7. ASSUME NEW n \in Mails, EnqueueStep(n)
      PROVE  DestsOf(m) \cap destDir' = {}
  <2>1. CASE n # m
    <3>1. enq'[m] = enq[m] /\ pc'[t] = pc[t]
      BY <1>7, <2>1, EnqueueLocal, Zenon DEF m
    <3>2. \A d \in DestsOf(m) : d \in destDir' <=> d \in destDir
      BY <1>7, <2>1, EnqueueLocal, Zenon DEF DestsOf
    <3>3. DestsOf(m) \cap destDir = {}
      BY <1>0, <3>1, Zenon DEF ToldTrue, ListedEmpty, Settled, m
    <3>. QED
      BY <3>2, <3>3, Zenon
  <2>2. CASE n = m
    <3>1. commit(m)
      BY <1>0, <1>7, <2>2, ZenonT(60)
      DEF TypeOK, ProcessOK, EnqueueStep, enqueue, enqueue_error, abandon,
          commit_flush, Current, make_dest_dir, make_dest_link, make_dest_error,
          cleanup_dest_dir, cleanup_contents_dir
    <3>2. pc[t] = "idle"
      BY <1>0, <1>1, <3>1, Zenon DEF Untold, commit
    <3>. QED
      BY <3>1, <3>2, Zenon DEF commit
  <2>. QED
    BY <2>1, <2>2, Zenon
<1>. QED
  BY <1>3, <1>4, <1>5, <1>6, <1>7, Zenon DEF Next, m

\* Every step keeps what is queued readable until it is handled.
LEMMA ReadableStep ==
    TypeOK /\ ToldTrue /\ [Next]_vars => QueuedMailReadable'
<1>. SUFFICES ASSUME TypeOK, ToldTrue, [Next]_vars,
                     NEW d \in Dests,
                     enq'[MailOf[d]] \in {"acked", "lost"},
                     MailOf[d] \notin early',
                     link'[d] \in {"queue", "inflight"}
              PROVE  Readable(d)'
  BY Zenon DEF QueuedMailReadable
<1>. MailOf[d] \in Mails /\ d \in DestsOf(MailOf[d])
  BY ConstantsAssumption, Zenon DEF DestsOf
<1>. USE DEF disk, mailVars, history, bounds
<1>a. MailOf[d] \notin early
  BY EarlyGrows, Zenon
<1>0. ASSUME UNCHANGED <<link, files, destDir, contents, enq>>
      PROVE  Readable(d)'
  BY <1>0, <1>a, Zenon DEF ToldTrue, QueuedMailReadable, Readable
<1>1. CASE UNCHANGED vars
  BY <1>0, <1>1, Zenon DEF vars
<1>2. ASSUME NEW i \in Instances, new(i) \/ ScanStep(i)
      PROVE  Readable(d)'
  BY <1>0, <1>2, ZenonT(60)
  DEF new, ScanStep, new_return, scan_nothing, scan_error, scan_inflight,
      scan_pending_cleanup, scan_queue
<1>3. ASSUME NEW i \in Instances, crash(i)
      PROVE  Readable(d)'
  <2>1. UNCHANGED <<link, files, destDir, contents>>
    BY <1>3, Zenon DEF crash
  <2>2. enq[MailOf[d]] \in {"acked", "lost", "open", "commit"}
    BY <1>3, Zenon DEF crash, Died, TypeOK, ProcessOK
  <2>3. CASE enq[MailOf[d]] \in {"acked", "lost"}
    BY <1>a, <2>1, <2>3, Zenon DEF ToldTrue, QueuedMailReadable, Readable
  <2>4. CASE enq[MailOf[d]] \in {"open", "commit"}
    <3>1. Fresh(MailOf[d]) /\ Untold(MailOf[d])
      BY <1>a, <2>4, Zenon DEF ToldTrue, Untold
    <3>2. FreshDest(MailOf[d], d) /\ MailOf[d] \in contents
      BY <2>4, <3>1, Zenon DEF Fresh
    <3>. QED
      BY <2>1, <2>4, <3>2, Zenon DEF FreshDest, Readable
  <2>. QED
    BY <2>2, <2>3, <2>4, Zenon
<1>4. ASSUME NEW t \in Tasks, SendStep(t) \/ CleanupStep(t)
      PROVE  Readable(d)'
  <2>. Dest(t) \in Dests
    BY TaskParts, Zenon
  <2>0. UNCHANGED enq
    BY <1>4, TaskLocal, Zenon
  <2>1. link[d] \in {"queue", "inflight"} => Readable(d)
    BY <1>a, <2>0, Zenon DEF ToldTrue, QueuedMailReadable
  <2>2. CASE SendStep(t)
    <3>1. UNCHANGED <<destDir, contents>> /\ (files[d] = DestFiles => files'[d] = DestFiles)
      BY <2>2, TaskParts, ZenonT(60)
      DEF TypeOK, DiskOK, DestFiles, SendStep, recheck, send_start, read_inflight,
          transport_failure, remote_accepts, send_done, send_cancel, drop,
          reschedule_write, reschedule_rename, reschedule_error
    <3>2. link[d] \in {"queue", "inflight"}
      BY <2>2, TaskParts, ZenonT(60)
      DEF TypeOK, DiskOK, MoveLink, SendStep, recheck, send_start, read_inflight,
          transport_failure, remote_accepts, send_done, send_cancel, drop,
          reschedule_write, reschedule_rename, reschedule_error
    <3>. QED
      BY <2>1, <3>1, <3>2, Zenon DEF Readable
  <2>3. CASE CleanupStep(t)
    <3>1. link[d] \in {"queue", "inflight"}
      BY <2>3, TaskParts, ZenonT(60)
      DEF TypeOK, DiskOK, MoveLink, CleanupStep, cleanup_dest, cleanup_list,
          cleanup_contents, cleanup_mail, cleanup_link
    <3>2. Readable(d)
      BY <2>1, <3>1, Zenon
    <3>3. CASE cleanup_contents(t)
      <4>1. UNCHANGED <<files, destDir>> /\ contents' = contents \ {MailOf[Dest(t)]}
        BY <3>3, Zenon DEF cleanup_contents
      <4>2. MailOf[Dest(t)] # MailOf[d]
        <5>1. SUFFICES ASSUME MailOf[Dest(t)] = MailOf[d] PROVE FALSE
          BY Zenon
        <5>2. Settled(MailOf[Dest(t)])
          BY <1>a, <2>0, <5>1, Zenon DEF Settled
        <5>3. DestsOf(MailOf[Dest(t)]) \cap destDir = {}
          BY <3>3, <5>2, Zenon DEF ToldTrue, ListedEmpty, cleanup_contents
        <5>. QED
          BY <3>2, <5>1, <5>3, Zenon DEF Readable
      <4>. QED
        BY <3>2, <4>1, <4>2, Zenon DEF Readable
    <3>4. CASE cleanup_dest(t)
      <4>1. d # Dest(t) \/ UNCHANGED <<files, destDir>>
        BY <3>1, <3>4, Zenon DEF cleanup_dest
      <4>2. d # Dest(t) => files'[d] = files[d] /\ (d \in destDir' <=> d \in destDir)
        BY <1>4, TaskLocal, Zenon
      <4>. QED
        BY <3>2, <3>4, <4>1, <4>2, Zenon DEF cleanup_dest, Readable
    <3>5. CASE cleanup_list(t) \/ cleanup_mail(t) \/ cleanup_link(t)
      BY <3>2, <3>5, Zenon DEF cleanup_list, cleanup_mail, cleanup_link, Readable
    <3>. QED
      BY <2>3, <3>3, <3>4, <3>5, Zenon DEF CleanupStep
  <2>. QED
    BY <1>4, <2>2, <2>3, Zenon
<1>5. ASSUME NEW m \in Mails, EnqueueStep(m)
      PROVE  Readable(d)'
  <2>1. CASE MailOf[d] # m
    <3>1. /\ enq'[MailOf[d]] = enq[MailOf[d]]
          /\ MailOf[d] \in contents' <=> MailOf[d] \in contents
      BY <1>5, <2>1, EnqueueLocal, Zenon
    <3>2. /\ link'[d] = link[d]
          /\ files'[d] = files[d]
          /\ d \in destDir' <=> d \in destDir
      BY <1>5, <2>1, EnqueueLocal, Zenon
    <3>. QED
      BY <1>a, <3>1, <3>2, Zenon DEF ToldTrue, QueuedMailReadable, Readable
  <2>2. CASE MailOf[d] = m
    <3>1. commit(m)
      BY <1>5, <2>2, ZenonT(60)
      DEF TypeOK, ProcessOK, EnqueueStep, enqueue, enqueue_error, abandon,
          commit_flush, Current, make_dest_dir, make_dest_link, make_dest_error,
          cleanup_dest_dir, cleanup_contents_dir
    <3>2. Fresh(m)
      BY Zenon DEF ToldTrue
    <3>. QED
      BY <1>a, <2>2, <3>1, <3>2, ZenonT(30)
      DEF commit, Fresh, FreshDest, Untold, Readable
  <2>. QED
    BY <2>1, <2>2, Zenon
<1>. QED
  BY <1>1, <1>2, <1>3, <1>4, <1>5, Zenon DEF Next

\* What enqueuers are told is true throughout.
LEMMA ToldAlwaysTrue == Spec => []ToldTrue
<1>1. TypeOK /\ ToldTrue /\ [Next]_vars => ToldTrue'
  BY FreshStep, RefusedStep, ListedStep, ReadableStep, Zenon DEF ToldTrue
<1>. QED
  BY <1>1, ToldInit, TypeCorrect, PTL DEF Spec

\* For any number of instances, crashes and storage errors: what is in the
\* queue or in flight keeps its contents and its recipient's two files, of a
\* mail whose client was told it is accepted and of one whose commit the death
\* of the process interrupted (unless a scan saw it before commit returned).
THEOREM QueuedIsKept == Spec => []QueuedMailReadable
  BY ToldAlwaysTrue, PTL DEF ToldTrue

\* Under the same conditions, and whichever removals of a failing commit's undo
\* fail: a recipient of a mail whose client was told it is refused gets it only
\* if neither one of its two files nor the contents could be removed, although
\* commit had linked it already.
THEOREM RefusedIsNotSent == Spec => []RefusedNotSent
<1>1. ToldTrue => RefusedNotSent
  BY ConstantsAssumption, Zenon
  DEF ToldTrue, Refused, Unsent, DestsOf, RefusedNotSent
<1>. QED
  BY <1>1, ToldAlwaysTrue, PTL

OneInstance == \A i, j \in Instances : i = j

-----------------------------------------------------------------------------
(* A delayed check never meets a running attempt                           *)

\* A mail to be checked lies in the inflight folder and nobody sends it: what
\* an instance finds there as it starts was left by a process that died.
Unattended(t) ==
    pc[t] = "check" =>
        /\ Origin(t) = "recheck"
        /\ link[Dest(t)] = "inflight"
        /\ \A u \in Tasks : Dest(u) = Dest(t) => ~Holding(u)

SingleInv ==
    /\ \A t \in Tasks : Origin(t) = "sweep" => pc[t] \notin SendPC
    /\ \A i \in Instances : up[i] = "running" => todo[i]["inflight"] = {}
    /\ \A t \in Tasks : Unattended(t)
    /\ NoStealing

\* A task is determined by its instance, its origin and its recipient.
LEMMA TaskEq ==
    ASSUME NEW t \in Tasks, NEW u \in Tasks,
           Inst(t) = Inst(u), Origin(t) = Origin(u), Dest(t) = Dest(u)
    PROVE  t = u
  BY DEF Tasks, Inst, Origin, Dest

\* With one instance every step keeps its tasks apart: no sweep sends, and nothing
\* takes an inflight mail from the task that holds it.
LEMMA SingleStep ==
    ASSUME OneInstance
    PROVE  TypeOK /\ SlotsFree /\ ExclusiveSend /\ SingleInv /\ [Next]_vars
               => SingleInv'
<1>. SUFFICES ASSUME TypeOK, SlotsFree, ExclusiveSend, SingleInv, [Next]_vars
              PROVE  SingleInv'
  BY Zenon
<1>. USE DEF disk, mailVars, history, bounds
<1>1. CASE UNCHANGED vars
  BY <1>1, Zenon DEF vars, SingleInv, Unattended, Holding, NoStealing
<1>2. ASSUME NEW i \in Instances, new(i) \/ new_return(i) \/ crash(i)
      PROVE  SingleInv'
  <2>1. CASE new(i) \/ new_return(i)
    <3>1. /\ UNCHANGED <<link, pc, stolen>>
          /\ \A j \in Instances : up'[j] = "running" => todo'[j]["inflight"] = {}
      BY <2>1, SMTT(60) DEF new, new_return, SingleInv, Folders, TypeOK, ProcessOK
    <3>. QED
      BY <3>1, Zenon DEF SingleInv, Unattended, Holding, NoStealing
  <2>2. CASE crash(i)
    <3>1. /\ UNCHANGED <<link, stolen>>
          /\ \A t \in Tasks : pc'[t] \in {pc[t], "idle"}
      BY <2>2, Zenon DEF crash
    <3>2. \A j \in Instances : up'[j] = "running" => todo'[j]["inflight"] = {}
      BY <2>2, Zenon DEF crash, SingleInv, Folders, TypeOK, ProcessOK
    <3>. QED
      BY <3>1, <3>2, Zenon
      DEF SingleInv, Unattended, Holding, HoldingPC, SendPC, NoStealing
  <2>. QED
    BY <1>2, <2>1, <2>2, Zenon
<1>3. ASSUME NEW i \in Instances, NEW f \in Folders,
             \/ \E d \in Dests : scan_nothing(i, f, d)
             \/ \E hit \in SUBSET Dests : scan_error(i, f, hit)
      PROVE  SingleInv'
  <2>1. UNCHANGED <<link, up, pc, stolen>>
    BY <1>3, Zenon DEF scan_nothing, scan_error
  <2>2. \E hit : todo' = [todo EXCEPT ![i][f] = @ \ hit]
    BY <1>3, Zenon DEF scan_nothing, scan_error, Visit
  <2>3. \A j \in Instances, g \in Folders : todo'[j][g] \subseteq todo[j][g]
    BY <2>2 DEF TypeOK, ProcessOK
  <2>. QED
    BY <2>1, <2>3, Zenon DEF SingleInv, Unattended, Holding, NoStealing, Folders
<1>4. ASSUME NEW i \in Instances, NEW d \in Dests, scan_inflight(i, d)
      PROVE  SingleInv'
  <2>. DEFINE slot == <<i, "recheck", d>>
  <2>1. slot \in Tasks /\ Origin(slot) = "recheck" /\ Dest(slot) = d
    BY SlotIsTask DEF Origins
  <2>2. pc'[slot] = "check" /\ \A t \in Tasks : t # slot => pc'[t] = pc[t]
    BY <1>4, <2>1, Zenon DEF scan_inflight, Goto, TypeOK, ProcessOK
  <2>. HIDE DEF slot
  <2>3. /\ d \in todo[i]["inflight"]
        /\ \A j \in Instances, g \in Folders : todo'[j][g] \subseteq todo[j][g]
    BY <1>4, VisitFrame, Zenon DEF scan_inflight, Folders
  <2>4. up[i] = "starting"
    BY <2>3, Zenon DEF SlotsFree, ScansInOrder, SingleInv, TypeOK, ProcessOK, Folders
  <2>5. \A u \in Tasks : Dest(u) = d => ~Holding(u)
    BY <2>3, <2>4, TaskParts
    DEF OneInstance, SlotsFree, NotSpawned, NotVisited, SingleInv, Holding,
        HoldingPC, SendPC, Origins
  <2>6. UNCHANGED <<link, up, stolen>> /\ link[d] = "inflight"
    BY <1>4, Zenon DEF scan_inflight
  <2>. QED
    BY <2>1, <2>2, <2>3, <2>5, <2>6, ZenonT(60)
    DEF SingleInv, Unattended, Holding, HoldingPC, NoStealing, Folders
<1>5. ASSUME NEW i \in Instances, NEW d \in Dests,
             scan_pending_cleanup(i, d) \/ scan_queue(i, d)
      PROVE  SingleInv'
  <2>1. PICK o \in {"sweep", "scan"}, l \in {"rmDest", "waiting"} :
            Goto(<<i, o, d>>, l) /\ (o = "sweep" => l = "rmDest")
    BY <1>5, Zenon DEF scan_pending_cleanup, scan_queue
  <2>. DEFINE slot == <<i, o, d>>
  <2>2. slot \in Tasks /\ Origin(slot) = o
    BY SlotIsTask DEF Origins
  <2>3. pc'[slot] = l /\ \A t \in Tasks : t # slot => pc'[t] = pc[t]
    BY <2>1, <2>2, Zenon DEF Goto, TypeOK, ProcessOK
  <2>. HIDE DEF slot
  <2>4. \A j \in Instances, g \in Folders : todo'[j][g] \subseteq todo[j][g]
    BY <1>5, VisitFrame, Zenon DEF scan_pending_cleanup, scan_queue, Folders
  <2>5. UNCHANGED <<link, up, stolen>>
    BY <1>5, Zenon DEF scan_pending_cleanup, scan_queue
  <2>. QED
    BY <2>1, <2>2, <2>3, <2>4, <2>5, ZenonT(60)
    DEF SingleInv, Unattended, Holding, HoldingPC, NoStealing, SendPC, Folders
<1>6. ASSUME NEW t \in Tasks, SendStep(t) \/ CleanupStep(t) PROVE SingleInv'
  <2>. DEFINE d == Dest(t)
  <2>1. /\ d \in Dests
        /\ \A u \in Tasks : u # t => pc'[u] = pc[u]
        /\ UNCHANGED <<up, todo>>
    BY <1>6, TaskStepFrame, TaskParts, Zenon
  <2>2. \A e \in Dests : e # d => link'[e] = link[e]
    BY <1>6, TaskLocal, Zenon
  <2>3. NoStealing'
    BY <1>6, <2>1, ZenonT(30)
    DEF SingleInv, Unattended, NoStealing, SendStep, recheck, send_start,
        read_inflight, transport_failure, remote_accepts, send_done,
        send_cancel, drop, reschedule_write, reschedule_rename,
        reschedule_error, CleanupStep, cleanup_dest, cleanup_list, cleanup_contents,
        cleanup_mail, cleanup_link
  <2>c. ASSUME CleanupStep(t)
        PROVE  /\ pc'[t] \in {"idle", "rmDest", "list", "rmContents", "rmMail", "rmLink"}
               /\ link'[d] # link[d] => link[d] # "inflight"
    BY <2>1, <2>c, Zenon
    DEF Goto, MoveLink, TypeOK, DiskOK, ProcessOK, CleanupStep, cleanup_dest,
        cleanup_list, cleanup_contents, cleanup_mail, cleanup_link
  <2>s. ASSUME SendStep(t)
        PROVE  /\ pc[t] \in SendPC
               /\ pc'[t] # "check"
               /\ pc'[t] \in HoldingPC => Holding(t) \/ link[d] = "queue"
               /\ link'[d] # link[d] => link[d] # "inflight" \/ Holding(t) \/ pc[t] = "check"
    BY <2>1, <2>s, ZenonT(60)
    DEF Holding, HoldingPC, SendPC, Goto, MoveLink, TypeOK, DiskOK, ProcessOK, SendStep,
        recheck, send_start, read_inflight, transport_failure, remote_accepts,
        send_done, send_cancel, drop, reschedule_write, reschedule_rename,
        reschedule_error
  <2>4. Origin(t) = "sweep" => pc'[t] \notin SendPC
    BY <1>6, <2>c, <2>s, Zenon DEF SingleInv, SendPC
  <2>5. /\ pc'[t] # "check"
        /\ pc'[t] \in HoldingPC => Holding(t) \/ link[d] = "queue"
        /\ link'[d] # link[d] => link[d] # "inflight" \/ Holding(t) \/ pc[t] = "check"
    BY <1>6, <2>c, <2>s, Zenon DEF HoldingPC
  <2>6. \A u \in Tasks : pc[u] = "check" /\ pc[t] = "check" /\ Dest(u) = d => u = t
    BY TaskParts, TaskEq, SMTT(30) DEF SingleInv, Unattended, OneInstance
  <2>. QED
    BY <2>1, <2>2, <2>3, <2>4, <2>5, <2>6, TaskParts, ZenonT(30)
    DEF SingleInv, Unattended, Holding
<1>7. ASSUME NEW m \in Mails, EnqueueStep(m) PROVE SingleInv'
  <2>1. \A t \in Tasks : \/ pc'[t] = pc[t]
                         \/ Origin(t) = "commit" /\ pc'[t] = "waiting"
    BY <1>7, ZenonT(30)
    DEF EnqueueStep, enqueue, enqueue_error, abandon, commit_flush,
        make_dest_dir, make_dest_link, make_dest_error, cleanup_dest_dir,
        cleanup_contents_dir, commit
  <2>2. /\ \A d \in Dests : link[d] = "inflight" => link'[d] = "inflight"
        /\ UNCHANGED <<up, todo, stolen>>
    BY <1>7, Zenon
    DEF TypeOK, DiskOK, EnqueueStep, enqueue, enqueue_error, abandon,
        commit_flush, Current, make_dest_dir, make_dest_link, make_dest_error,
        cleanup_dest_dir, cleanup_contents_dir, commit
  <2>. QED
    BY <2>1, <2>2, TaskParts, ZenonT(30)
    DEF SingleInv, Unattended, Holding, HoldingPC, NoStealing, SendPC
<1>. QED
  BY <1>1, <1>2, <1>3, <1>4, <1>5, <1>6, <1>7, Zenon DEF Next, ScanStep

\* So with one instance that holds throughout.
LEMMA SingleAlways == ASSUME OneInstance PROVE Spec => []SingleInv
<1>1. Init => SingleInv
  BY TaskParts, Zenon DEF Init, SingleInv, Unattended, NoStealing, SendPC
<1>. QED
  BY <1>1, SingleStep, TypeCorrect, SlotsAlwaysFree, InflightIsALock, PTL
  DEF Spec

\* With one instance, through any number of crashes: the check that follows
\* found_inflight_check_delay never puts a mail that is being sent back in the
\* queue.
THEOREM ChecksAreHarmless == ASSUME OneInstance PROVE Spec => []NoStealing
  BY SingleAlways, PTL DEF SingleInv

-----------------------------------------------------------------------------
(* The refinement                                                          *)

\* The stage of the lifecycle each place of a mail stands for.
LEMMA StageValues ==
    /\ StageOf("none") = "absent"
    /\ StageOf("queue") = "queued"
    /\ StageOf("inflight") = "sending"
    /\ StageOf("cleanup") = "handled"
    /\ StageOf("gone") = "forgotten"
  BY Zenon DEF StageOf

\* A symlink that moves from one folder to another is a move of the recipient.
LEMMA MoveIsMove ==
    ASSUME TypeOK, NEW d \in Dests, NEW from \in Links, NEW to \in Links,
           MoveLink(d, from, to)
    PROVE  Lifecycle!Move(d, StageOf(from), StageOf(to))
  BY Zenon DEF MoveLink, Lifecycle!Move, TypeOK, DiskOK

\* Every step of the queue that steals nothing is a step of the lifecycle or none.
LEMMA LifecycleStep ==
    TypeOK /\ ExclusiveSend /\ HandledInv /\ NoStealing /\ [Next]_vars
        => [Lifecycle!LifeNext]_(Lifecycle!lifeVars)
<1>. SUFFICES ASSUME TypeOK, ExclusiveSend, HandledInv, NoStealing, [Next]_vars
              PROVE  [Lifecycle!LifeNext]_(Lifecycle!lifeVars)
  BY Zenon
<1>. USE DEF disk, mailVars, history, bounds
<1>0. ASSUME UNCHANGED <<link, accepted, givenUp>>
      PROVE  [Lifecycle!LifeNext]_(Lifecycle!lifeVars)
  BY <1>0, Zenon DEF Lifecycle!lifeVars
<1>1. CASE UNCHANGED vars
  BY <1>0, <1>1, Zenon DEF vars
<1>2. ASSUME NEW i \in Instances, new(i) \/ ScanStep(i) \/ crash(i)
      PROVE  [Lifecycle!LifeNext]_(Lifecycle!lifeVars)
  BY <1>0, <1>2, Zenon
  DEF new, ScanStep, new_return, scan_nothing, scan_error, scan_inflight,
      scan_pending_cleanup, scan_queue, crash
<1>3. ASSUME NEW t \in Tasks, SendStep(t)
      PROVE  [Lifecycle!LifeNext]_(Lifecycle!lifeVars)
  <2>. DEFINE d == Dest(t)
  <2>1. d \in Dests
    BY TaskParts, Zenon
  <2>2. CASE recheck(t)
    BY <1>0, <2>1, <2>2, MoveIsMove, StageValues, Zenon
    DEF recheck, Links, Lifecycle!LifeNext, Lifecycle!Return
  <2>3. CASE send_start(t)
    BY <1>0, <2>1, <2>3, MoveIsMove, StageValues, Zenon
    DEF send_start, Links, Lifecycle!LifeNext, Lifecycle!Attempt
  <2>4. CASE remote_accepts(t)
    <3>1. link[d] = "inflight"
      BY <2>1, <2>4, Zenon
      DEF remote_accepts, ExclusiveSend, NoStealing, Holding, HoldingPC
    <3>. QED
      BY <2>1, <2>4, <3>1, StageValues, Zenon
      DEF remote_accepts, Lifecycle!LifeNext, Lifecycle!Deliver
  <2>5. CASE send_done(t)
    BY <1>0, <2>1, <2>5, MoveIsMove, StageValues, Zenon
    DEF send_done, HandledInv, SentIsAccepted, Links, Lifecycle!LifeNext,
        Lifecycle!Finish
  <2>6. CASE send_cancel(t)
    BY <1>0, <2>1, <2>6, MoveIsMove, StageValues, Zenon
    DEF send_cancel, Links, Lifecycle!LifeNext, Lifecycle!Return
  <2>7. CASE drop(t)
    BY <1>0, <2>1, <2>7, MoveIsMove, StageValues, Zenon
    DEF drop, Links, Lifecycle!LifeNext, Lifecycle!GiveUp
  <2>8. CASE \/ read_inflight(t) \/ transport_failure(t) \/ reschedule_write(t)
             \/ reschedule_rename(t) \/ reschedule_error(t)
    BY <1>0, <2>8, Zenon
    DEF read_inflight, transport_failure, reschedule_write, reschedule_rename,
        reschedule_error
  <2>. QED
    BY <1>3, <2>2, <2>3, <2>4, <2>5, <2>6, <2>7, <2>8, Zenon DEF SendStep
<1>4. ASSUME NEW t \in Tasks, CleanupStep(t)
      PROVE  [Lifecycle!LifeNext]_(Lifecycle!lifeVars)
  <2>1. /\ UNCHANGED <<accepted, givenUp>>
        /\ UNCHANGED link \/ MoveLink(Dest(t), "cleanup", "gone")
    BY <1>4, TaskParts, Zenon
    DEF CleanupStep, cleanup_dest, cleanup_list, cleanup_contents, cleanup_mail, cleanup_link,
        MoveLink, TypeOK, DiskOK
  <2>. QED
    BY <1>0, <2>1, TaskParts, MoveIsMove, StageValues, Zenon
    DEF Links, Lifecycle!LifeNext, Lifecycle!Forget
<1>5. ASSUME NEW m \in Mails, EnqueueStep(m)
      PROVE  [Lifecycle!LifeNext]_(Lifecycle!lifeVars)
  <2>1. /\ UNCHANGED <<accepted, givenUp>>
        /\ UNCHANGED link \/ \E d \in Dests : MoveLink(d, "none", "queue")
    BY <1>5, Zenon
    DEF MoveLink, EnqueueStep, enqueue, enqueue_error, abandon, commit_flush,
        Current, make_dest_dir, make_dest_link, make_dest_error,
        cleanup_dest_dir, cleanup_contents_dir, commit
  <2>. QED
    BY <1>0, <2>1, MoveIsMove, StageValues, Zenon
    DEF Links, Lifecycle!LifeNext, Lifecycle!Enter
<1>. QED
  BY <1>1, <1>2, <1>3, <1>4, <1>5, Zenon DEF Next

\* With one instance, through any number of crashes, storage errors and lost
\* replies: the folder a symlink is in is a truthful record of the recipient's
\* life.  Every step of the tasks is a step of the abstract life cycle, or
\* invisible in it.
THEOREM QueueImplementsLifecycle ==
    ASSUME OneInstance PROVE Spec => ImplementsLifecycle
<1>1. Init => Lifecycle!LifeInit
  BY StageValues DEF Init, Lifecycle!LifeInit
<1>2. Spec => []HandledInv
  BY TypeCorrect, HandledInit, HandledStep, PTL DEF Spec
<1>. QED
  BY <1>1, <1>2, TypeCorrect, InflightIsALock, ChecksAreHarmless, LifecycleStep,
     PTL
  DEF Spec, ImplementsLifecycle, Lifecycle!LifeSpec

-----------------------------------------------------------------------------
(* Cleanup                                                                 *)

\* A cleanup that has still to look for the last recipient: e's symlink keeps
\* a restarted instance (or the running task) at it.
Pending(e) ==
    link[e] = "cleanup" /\ \A t \in Tasks : Dest(t) = e => pc[t] # "rmLink"

Swept(m) ==
    enq[m] = "acked" /\ m \notin early =>
        /\ m \in contents => m \in mailDir
        /\ \A t \in Tasks : MailOf[Dest(t)] = m =>
            /\ pc[t] \in {"list", "rmContents", "rmMail", "rmLink"} => Dest(t) \notin destDir
            /\ pc[t] = "rmMail" => m \notin contents
        /\ \A d \in DestsOf(m) :
            /\ d \in destDir => m \in mailDir
            /\ link[d] = "gone" => d \notin destDir
        /\ m \in mailDir => \E e \in DestsOf(m) : e \in destDir \/ Pending(e)

\* A step that leaves a mail's folders alone and moves its tasks at most to
\* the start of a cleanup or out of it.
LEMMA SweptFrame ==
    ASSUME NEW m \in Mails, Swept(m),
           enq'[m] = enq[m],
           early \subseteq early',
           m \in mailDir' <=> m \in mailDir,
           m \in contents' <=> m \in contents,
           \A d \in DestsOf(m) :
               /\ link[d] = "cleanup" => link'[d] = "cleanup"
               /\ link'[d] = "gone" => link[d] = "gone"
               /\ d \in destDir' <=> d \in destDir,
           \A t \in Tasks : MailOf[Dest(t)] = m =>
               \/ pc'[t] = pc[t]
               \/ pc'[t] \notin {"list", "rmContents", "rmMail", "rmLink"}
    PROVE  Swept(m)'
<1>. SUFFICES ASSUME enq[m] = "acked", m \notin early PROVE Swept(m)'
  BY Zenon DEF Swept
<1>1. \A e \in DestsOf(m) : Pending(e) => Pending(e)'
  BY Zenon DEF Pending, DestsOf
<1>2. m \in mailDir' => \E e \in DestsOf(m) : e \in destDir' \/ Pending(e)'
  BY <1>1, Zenon DEF Swept
<1>3. \A t \in Tasks : MailOf[Dest(t)] = m => Dest(t) \in DestsOf(m)
  BY TaskParts, Zenon DEF DestsOf
<1>4. \A t \in Tasks : MailOf[Dest(t)] = m =>
        /\ pc'[t] \in {"list", "rmContents", "rmMail", "rmLink"} => Dest(t) \notin destDir'
        /\ pc'[t] = "rmMail" => m \notin contents'
  BY <1>3, Zenon DEF Swept
<1>. QED
  BY <1>2, <1>4, Zenon DEF Swept, DestsOf

\* Every step keeps the order in which cleanup removes a mail's files.
LEMMA SweptStep ==
    TypeOK /\ ToldTrue /\ (\A m \in Mails : Swept(m)) /\ [Next]_vars
        => (\A m \in Mails : Swept(m))'
<1>. SUFFICES ASSUME TypeOK, ToldTrue, \A n \in Mails : Swept(n), [Next]_vars,
                     NEW m \in Mails
              PROVE  Swept(m)'
  BY Zenon
<1>. Swept(m)
  BY Zenon
<1>. USE ConstantsAssumption DEF disk, mailVars, history, bounds
<1>1. CASE UNCHANGED vars
  BY <1>1, SweptFrame, Zenon DEF vars
<1>2. ASSUME NEW i \in Instances, new(i) \/ ScanStep(i) PROVE Swept(m)'
  <2>1. \A t \in Tasks : pc'[t] = pc[t]
                           \/ pc'[t] \notin {"list", "rmContents", "rmMail", "rmLink"}
    <3>1. ASSUME NEW o \in Origins, NEW d \in Dests,
                 NEW l \in {"check", "rmDest", "waiting"}, Goto(<<i, o, d>>, l)
          PROVE  \A t \in Tasks :
                    \/ pc'[t] = pc[t]
                    \/ pc'[t] \notin {"list", "rmContents", "rmMail", "rmLink"}
      BY <3>1, Zenon DEF Goto, TypeOK, ProcessOK
    <3>. QED
      BY <1>2, <3>1, Zenon
      DEF new, ScanStep, new_return, scan_nothing, scan_error, scan_inflight,
          scan_pending_cleanup, scan_queue, Origins
  <2>2. UNCHANGED <<link, destDir, mailDir, contents, enq>> /\ early \subseteq early'
    BY <1>2, ZenonT(30)
    DEF new, ScanStep, new_return, scan_nothing, scan_error, scan_inflight,
        scan_pending_cleanup, scan_queue
  <2>. QED
    BY <2>1, <2>2, SweptFrame, Zenon
<1>3. ASSUME NEW i \in Instances, crash(i) PROVE Swept(m)'
  <2>1. CASE enq'[m] # "acked"
    BY <2>1, Zenon DEF Swept
  <2>2. CASE enq'[m] = "acked"
    <3>1. enq[m] = "acked"
      BY <1>3, <2>2, ZenonT(30) DEF crash, Died
    <3>. QED
      BY <1>3, <2>2, <3>1, SweptFrame, ZenonT(30) DEF crash
  <2>. QED
    BY <2>1, <2>2, Zenon
<1>4. ASSUME NEW t \in Tasks, SendStep(t) PROVE Swept(m)'
  <2>1. /\ UNCHANGED <<enq, early, destDir, mailDir, contents>>
        /\ pc'[t] \notin {"list", "rmContents", "rmMail", "rmLink"}
        /\ \A d \in Dests : /\ link[d] = "cleanup" => link'[d] = "cleanup"
                            /\ link'[d] = "gone" => link[d] = "gone"
    <3>. USE DEF SendStep, recheck, send_start, read_inflight, transport_failure,
                 remote_accepts, send_done, send_cancel, drop, reschedule_write,
                 reschedule_rename, reschedule_error
    <3>1. UNCHANGED <<enq, early, destDir, mailDir, contents>>
      BY <1>4, ZenonT(30)
    <3>2. pc'[t] \notin {"list", "rmContents", "rmMail", "rmLink"}
      BY <1>4, ZenonT(60) DEF TypeOK, ProcessOK, Goto
    <3>3. \/ UNCHANGED link
          \/ /\ link[Dest(t)] \in {"inflight", "queue"}
             /\ \E l \in {"inflight", "queue", "cleanup"} :
                    link' = [link EXCEPT ![Dest(t)] = l]
      BY <1>4, Zenon DEF MoveLink
    <3>4. \A d \in Dests : /\ link[d] = "cleanup" => link'[d] = "cleanup"
                           /\ link'[d] = "gone" => link[d] = "gone"
      BY <3>3, Zenon DEF TypeOK, DiskOK
    <3>. QED
      BY <3>1, <3>2, <3>4, Zenon
  <2>2. \A u \in Tasks : u # t => pc'[u] = pc[u]
    BY <1>4, TaskStepFrame, Zenon
  <2>. QED
    BY <2>1, <2>2, SweptFrame, Zenon DEF DestsOf
<1>5. ASSUME NEW t \in Tasks, CleanupStep(t) PROVE Swept(m)'
  <2>. DEFINE d == Dest(t)
  <2>0. /\ d \in Dests
        /\ \A u \in Tasks : u # t => pc'[u] = pc[u]
        /\ UNCHANGED <<enq, early>>
    BY <1>5, TaskParts, TaskStepFrame, Zenon
  <2>1. CASE MailOf[d] # m
    <3>1. \A e \in DestsOf(m) : e \in Dests /\ e # d
      BY <2>1, Zenon DEF DestsOf
    <3>2. /\ m \in mailDir' <=> m \in mailDir
          /\ m \in contents' <=> m \in contents
          /\ \A e \in DestsOf(m) : link'[e] = link[e] /\ (e \in destDir' <=> e \in destDir)
      <4>1. /\ \A e \in Dests : e # d => link'[e] = link[e] /\ (e \in destDir' <=> e \in destDir)
            /\ \A n \in Mails : n # MailOf[d] =>
                 (n \in mailDir' <=> n \in mailDir) /\ (n \in contents' <=> n \in contents)
        BY <1>5, TaskLocal, Zenon
      <4>. HIDE DEF d
      <4>. QED
        BY <2>1, <3>1, <4>1, Zenon
    <3>3. \A u \in Tasks : MailOf[Dest(u)] = m => pc'[u] = pc[u]
      BY <2>0, <2>1, Zenon
    <3>. QED
      BY <2>0, <3>2, <3>3, SweptFrame, Zenon
  <2>2. CASE MailOf[d] = m /\ cleanup_dest(t)
    <3>0. UNCHANGED <<mailDir, contents>> /\ pc[t] = "rmDest" /\ pc \in [Tasks -> PC]
      BY <2>2, Zenon DEF cleanup_dest, TypeOK, ProcessOK
    <3>1. CASE UNCHANGED <<link, destDir>> /\ Goto(t, "idle")
      <4>1. pc'[t] = "idle"
        BY <3>0, <3>1, Zenon DEF Goto
      <4>. QED
        BY <2>0, <3>0, <3>1, <4>1, SweptFrame, Zenon
    <3>2. CASE MailOf[d] \notin mailDir /\ MoveLink(d, "cleanup", "gone") /\ Goto(t, "idle")
               /\ UNCHANGED destDir
      <4>1. pc'[t] = "idle"
        BY <3>0, <3>2, Zenon DEF Goto
      <4>2. \A e \in Dests : e # d => link'[e] = link[e]
        BY <2>0, <3>2, Zenon DEF MoveLink, TypeOK, DiskOK
      <4>. QED
        BY <2>0, <2>2, <3>0, <3>2, <4>1, <4>2, Zenon DEF Swept, DestsOf
    <3>3. CASE UNCHANGED link /\ link[d] = "cleanup" /\ m \in mailDir /\
               \/ destDir' = destDir /\ Goto(t, "rmDest")
               \/ destDir' = destDir \ {d} /\ Goto(t, "list")
      <4>1. \/ destDir' = destDir /\ pc'[t] = "rmDest"
            \/ destDir' = destDir \ {d} /\ pc'[t] = "list"
        BY <3>0, <3>3, Zenon DEF Goto
      <4>2. \A e \in DestsOf(m) : Pending(e) => Pending(e)'
        BY <2>0, <3>0, <3>3, <4>1, Zenon DEF Pending
      <4>3. SUFFICES ASSUME enq[m] = "acked", m \notin early PROVE Swept(m)'
        BY <2>0, Zenon DEF Swept
      <4>4. destDir' # destDir /\ d \in destDir => Pending(d)'
        BY <2>0, <2>2, <3>3, <4>1, <4>3, Zenon DEF Swept, Pending
      <4>5. m \in mailDir' => \E e \in DestsOf(m) : e \in destDir' \/ Pending(e)'
        BY <2>0, <2>2, <3>3, <4>1, <4>2, <4>3, <4>4, Zenon DEF Swept, DestsOf
      <4>. QED
        BY <2>0, <2>2, <3>0, <3>3, <4>1, <4>3, <4>5, Zenon DEF Swept, DestsOf
    <3>. QED
      BY <2>2, <3>1, <3>2, <3>3, Zenon DEF cleanup_dest
  <2>3. CASE MailOf[d] = m /\ cleanup_list(t)
    <3>1. /\ UNCHANGED <<link, destDir, mailDir, contents>> /\ pc[t] = "list"
          /\ \/ pc'[t] = "rmContents"
             \/ DestsOf(m) \cap destDir # {} /\ pc'[t] = "rmLink"
      BY <2>3, Zenon DEF cleanup_list, Goto, TypeOK, ProcessOK
    <3>2. SUFFICES ASSUME enq[m] = "acked", m \notin early PROVE Swept(m)'
      BY <2>0, Zenon DEF Swept
    <3>3. pc'[t] = "rmContents" => \A e \in DestsOf(m) : Pending(e) => Pending(e)'
      BY <2>0, <3>1, Zenon DEF Pending
    <3>4. m \in mailDir' => \E e \in DestsOf(m) : e \in destDir' \/ Pending(e)'
      BY <3>1, <3>2, <3>3, Zenon DEF Swept
    <3>. QED
      BY <2>0, <2>3, <3>1, <3>2, <3>4, Zenon DEF Swept, DestsOf
  <2>6. CASE MailOf[d] = m /\ cleanup_contents(t)
    <3>1. /\ UNCHANGED <<link, destDir, mailDir>> /\ pc[t] = "rmContents"
          /\ contents' = contents \ {m} /\ pc'[t] = "rmMail"
      BY <2>6, Zenon DEF cleanup_contents, Goto, TypeOK, ProcessOK
    <3>2. SUFFICES ASSUME enq[m] = "acked", m \notin early PROVE Swept(m)'
      BY <2>0, Zenon DEF Swept
    <3>3. \A e \in DestsOf(m) : Pending(e) => Pending(e)'
      BY <2>0, <3>1, Zenon DEF Pending
    <3>4. m \in mailDir' => \E e \in DestsOf(m) : e \in destDir' \/ Pending(e)'
      BY <3>1, <3>2, <3>3, Zenon DEF Swept
    <3>. QED
      BY <2>0, <2>6, <3>1, <3>2, <3>4, Zenon DEF Swept, DestsOf
  <2>4. CASE MailOf[d] = m /\ cleanup_mail(t)
    <3>1. /\ UNCHANGED <<link, destDir, contents>> /\ pc[t] = "rmMail"
          /\ \/ DestsOf(m) \cap destDir = {} /\ mailDir' = mailDir \ {m} /\ pc'[t] = "rmLink"
             \/ DestsOf(m) \cap destDir # {} /\ mailDir' = mailDir /\ pc'[t] = "rmDest"
      BY <2>4, Zenon DEF cleanup_mail, Goto, TypeOK, ProcessOK
    <3>. QED
      BY <2>0, <2>4, <3>1, Zenon DEF Swept, Pending, DestsOf
  <2>5. CASE MailOf[d] = m /\ cleanup_link(t)
    <3>1. /\ UNCHANGED <<destDir, mailDir, contents>> /\ pc[t] = "rmLink" /\ pc'[t] = "idle"
          /\ \A e \in Dests : e # d => link'[e] = link[e]
      BY <2>5, Zenon DEF cleanup_link, Goto, TypeOK, DiskOK, ProcessOK
    <3>2. SUFFICES ASSUME enq[m] = "acked", m \notin early PROVE Swept(m)'
      BY <2>0, Zenon DEF Swept
    <3>3. ~Pending(d) /\ d \notin destDir
      BY <2>5, <3>1, <3>2, Zenon DEF Pending, Swept
    <3>4. \A e \in DestsOf(m) : Pending(e) => Pending(e)'
      BY <2>0, <3>1, <3>3, SMTT(30) DEF Pending, DestsOf
    <3>5. m \in mailDir' => \E e \in DestsOf(m) : e \in destDir' \/ Pending(e)'
      BY <3>1, <3>2, <3>4, Zenon DEF Swept
    <3>. QED
      BY <2>0, <2>5, <3>1, <3>2, <3>3, <3>5, ZenonT(60) DEF Swept, DestsOf
  <2>. QED
    BY <1>5, <2>1, <2>2, <2>3, <2>4, <2>5, <2>6, Zenon DEF CleanupStep
<1>6. ASSUME NEW n \in Mails, EnqueueStep(n) PROVE Swept(m)'
  <2>1. CASE n # m
    <3>1. \A e \in DestsOf(m) : e \in Dests /\ MailOf[e] # n
      BY <2>1, Zenon DEF DestsOf
    <3>2. /\ enq'[m] = enq[m] /\ early' = early
          /\ m \in mailDir' <=> m \in mailDir
          /\ m \in contents' <=> m \in contents
          /\ \A e \in DestsOf(m) : link'[e] = link[e] /\ (e \in destDir' <=> e \in destDir)
      BY <1>6, <2>1, <3>1, EnqueueLocal, Zenon
    <3>3. \A u \in Tasks : MailOf[Dest(u)] = m => pc'[u] = pc[u]
      BY <1>6, <2>1, EnqueueLocal, Zenon
    <3>. QED
      BY <3>2, <3>3, SweptFrame, Zenon
  <2>2. CASE n = m /\ commit(n)
    <3>1. Fresh(m)
      BY Zenon DEF ToldTrue
    <3>2. PICK d \in Dests : MailOf[d] = m
      BY Zenon
    <3>3. /\ UNCHANGED disk
          /\ \A t \in Tasks : pc'[t] \in {"waiting", pc[t]}
          /\ enq[m] = "commit" /\ UNCHANGED early
          /\ \A e \in DestsOf(m) : link[e] # "none"
      BY <2>2, Zenon DEF commit
    <3>4. CASE m \notin early
      <4>1. /\ m \in mailDir
            /\ \A e \in DestsOf(m) : e \in destDir /\ link[e] = "queue"
            /\ \A t \in Tasks : Dest(t) \in DestsOf(m) => pc[t] = "idle"
        BY <3>1, <3>3, <3>4, Zenon DEF Fresh, FreshDest, Untold
      <4>2. \A t \in Tasks : MailOf[Dest(t)] = m =>
                pc'[t] \notin {"list", "rmContents", "rmMail", "rmLink"}
        BY <3>3, <4>1, TaskParts, Zenon DEF DestsOf
      <4>. QED
        BY <3>2, <3>3, <4>1, <4>2, Zenon DEF Swept, DestsOf
    <3>. QED
      BY <3>3, <3>4, Zenon DEF Swept
  <2>3. CASE n = m /\ ~commit(n)
    <3>1. enq'[m] # "acked"
      BY <1>6, <2>3, ZenonT(60)
      DEF TypeOK, ProcessOK, EnqueueStep, enqueue, enqueue_error, abandon,
          commit_flush, Current, make_dest_dir, make_dest_link, make_dest_error,
          cleanup_dest_dir, cleanup_contents_dir
    <3>. QED
      BY <3>1, Zenon DEF Swept
  <2>. QED
    BY <2>1, <2>2, <2>3, Zenon
<1>. QED
  BY <1>1, <1>2, <1>3, <1>4, <1>5, <1>6, Zenon DEF Next

\* For any number of instances, recipients and crashes: when the symlinks of
\* all recipients of an accepted mail are gone, its contents and its folder are
\* gone as well (unless a scan saw the mail before commit returned).
THEOREM CleanupIsComplete == Spec => []NoOrphanedData
<1>1. Init => \A m \in Mails : Swept(m)
  BY Zenon DEF Init, Swept
<1>2. Spec => [](\A m \in Mails : Swept(m))
  BY <1>1, SweptStep, TypeCorrect, ToldAlwaysTrue, PTL DEF Spec
<1>3. (\A m \in Mails : Swept(m)) => NoOrphanedData
  BY Zenon DEF Swept, Pending, NoOrphanedData
<1>. QED
  BY <1>2, <1>3, PTL
=============================================================================
