-------------------------- MODULE AppServerProofs --------------------------
(***************************************************************************)
(* Proofs about AppServer, for every set of requests, replies and calls of *)
(* close() and every limit.                                                *)
(***************************************************************************)
EXTENDS AppServer, FiniteSetTheorems, TLAPS

USE LimitsAssumption, ActorsAssumption

\* The stages in which a future runs terminate().
Running == {"closing", "probe", "store", "events", "drain", "slots", "child",
            "reap", "writer"}

\* The requests that hold a permit and are not in the table yet.
Acquired == {r \in Requests : pc[r] = "acquired"}

\* Whoever writes holds the writer lock.
WriterLock == \A w \in Writers : pc[w] = "writing" => holder = w

\* The guard of a cut write leaves a connection that is closed and on which
\* nobody writes.
CutIsFinal ==
  torn \/ pc[Guard] # "idle" => closed /\ \A w \in Writers : pc[w] # "writing"

\* terminate() runs once, in the future that was first.
OneTeardown ==
  /\ shutdown_started <=> teardown.stage # "none"
  /\ \A a \in Actors : pc[a] = "teardown" <=>
       teardown.stage \in Running /\ teardown.owner = a
  /\ teardown.stage \in Running => teardown.owner \in Actors

\* It marks the connection closed before it does anything else.
ClosedFirst ==
  /\ teardown.stage \notin {"none", "closing"} => closed
  /\ slots_closed => closed

\* A request that has not been answered is in the table, and whoever got as far
\* as the pipe before the connection was closed has its answer once the table
\* is drained.
Answered ==
  \A r \in Requests :
    /\ pc[r] \in {"check", "lock", "writing", "waiting"} /\ answer[r] = "none" =>
         r \in pending
    /\ pc[r] \in {"writing", "waiting"} /\ (slots_closed \/ teardown.stage = "slots") =>
         answer[r] # "none"

Inv ==
  /\ TypeOK /\ WriterLock /\ CutIsFinal /\ OneTeardown /\ ClosedFirst /\ Answered
  /\ SlotsAreReturned

----------------------------------------------------------------------------
\* The lock is taken only when it is free, and only by the next to write.
LEMMA WriterLockStep == Inv /\ [Next]_vars => WriterLock'
<1> SUFFICES ASSUME Inv, [Next]_vars PROVE WriterLock'
  OBVIOUS
<1> USE DEF Inv, TypeOK, WriterLock, OneTeardown, Writers, Actors, shared,
            table, queue, stdin, server
<1>1. ASSUME NEW r \in Requests, RequestBegin(r) PROVE WriterLock'
  BY <1>1 DEF RequestBegin, Goto
<1>2. ASSUME NEW r \in Requests, AcquireSlot(r) PROVE WriterLock'
  BY <1>2 DEF AcquireSlot, Goto
<1>3. ASSUME NEW r \in Requests, SlotTimeout(r) PROVE WriterLock'
  BY <1>3 DEF SlotTimeout, Goto
<1>4. ASSUME NEW r \in Requests, InsertPending(r) PROVE WriterLock'
  BY <1>4 DEF InsertPending, Goto
<1>5. ASSUME NEW r \in Requests, ExpireWriting(r) PROVE WriterLock'
  BY <1>5 DEF ExpireWriting, CutWrite, CloseNow, Release
<1>6. ASSUME NEW r \in Requests, ExpireLock(r) PROVE WriterLock'
  BY <1>6 DEF ExpireLock, Goto, Release
<1>7. ASSUME NEW r \in Requests, RecordTimeout(r) PROVE WriterLock'
  BY <1>7 DEF RecordTimeout, Goto
<1>8. ASSUME NEW r \in Requests, Receive(r) \/ ResponseTimeout(r)
      PROVE  WriterLock'
  BY <1>8 DEF Receive, ResponseTimeout, Leave, Goto, Release
<1>9. ASSUME NEW r \in Requests, ExpireTeardown(r) PROVE WriterLock'
  BY <1>9 DEF ExpireTeardown, Goto, Release
<1>10. ASSUME NEW w \in Writers, NEW encodes \in BOOLEAN, WriteCheck(w, encodes)
       PROVE  WriterLock'
  BY <1>10 DEF WriteCheck, Leave, Goto, Release
<1>11. ASSUME NEW w \in Writers, AcquireWriter(w) PROVE WriterLock'
  BY <1>11 DEF AcquireWriter, MayWrite, Leave, Goto, Release
<1>12. ASSUME NEW w \in Writers, WriteDone(w) PROVE WriterLock'
  BY <1>12 DEF WriteDone, Leave, Goto, Release
<1>13. ASSUME NEW w \in Writers, WriteFails(w) PROVE WriterLock'
  BY <1>13 DEF WriteFails, Goto
<1>14. ASSUME NEW w \in Writers, CancelWrite(w) PROVE WriterLock'
  BY <1>14 DEF CancelWrite, CutWrite, CloseNow, Release
<1>15. ASSUME NEW w \in Writers, CancelLock(w) PROVE WriterLock'
  BY <1>15 DEF CancelLock, Leave, Goto, Release
<1>16. ASSUME NEW c \in Closers, Close(c) PROVE WriterLock'
  BY <1>16 DEF Close, Goto
<1>17. ASSUME NEW a \in Actors, Terminate(a) PROVE WriterLock'
  BY <1>17 DEF Terminate, NotFirst, Leave, Goto, Release
<1>18. ASSUME NEW a \in Actors \ {Reader, Guard}, CancelCaller(a)
       PROVE  WriterLock'
  BY <1>18 DEF CancelCaller, Leave, Goto, Release
<1>19. CASE MarkClosed
  BY <1>19 DEF MarkClosed, Step
<1>20. CASE Probe
  BY <1>20 DEF Probe
<1>21. CASE StoreFailure \/ DropEvents
  BY <1>21 DEF StoreFailure, DropEvents, Step
<1>22. CASE Drain
  BY <1>22 DEF Drain, Step
<1>23. CASE CloseSlots
  BY <1>23 DEF CloseSlots, Step
<1>24. CASE KillChild \/ Reap
  BY <1>24 DEF KillChild, MayKill, Reap, Step
<1>25. CASE ReapTimeout \/ TakeWriter
  BY <1>25 DEF ReapTimeout, TakeWriter, Finish, Step, Leave, Goto, Release
<1>26. CASE ReaderStep
  BY <1>26 DEF ReaderStep, ReaderEnd, ReaderReaps, Goto
<1>27. CASE Inbound
  BY <1>27 DEF Inbound, SendEvent, ReaderFails, Goto, Release
<1>28. CASE NextEvent \/ ChildExits
  BY <1>28 DEF NextEvent, ChildExits
<1>29. ASSUME NEW end \in {"stdin", "stdout"}, ChildShuts(end) PROVE WriterLock'
  BY <1>29 DEF ChildShuts
<1>30. CASE UNCHANGED vars
  BY <1>30 DEF vars
<1> QED
  BY <1>1, <1>2, <1>3, <1>4, <1>5, <1>6, <1>7, <1>8, <1>9, <1>10, <1>11, <1>12,
     <1>13, <1>14, <1>15, <1>16, <1>17, <1>18, <1>19, <1>20, <1>21, <1>22,
     <1>23, <1>24, <1>25, <1>26, <1>27, <1>28, <1>29, <1>30
     DEF Next, RequestStep, WriterStep, TeardownStep

\* A cut write closes the connection before the lock is free, and a writer asks
\* whether it is closed once it has the lock.
LEMMA CutStep == Inv /\ [Next]_vars => CutIsFinal'
<1> SUFFICES ASSUME Inv, [Next]_vars PROVE CutIsFinal'
  OBVIOUS
<1> USE DEF Inv, TypeOK, WriterLock, CutIsFinal, OneTeardown, Writers, Actors,
            Causes, Running, shared, table, queue, stdin, server
<1>1. ASSUME NEW r \in Requests, RequestBegin(r) PROVE CutIsFinal'
  BY <1>1 DEF RequestBegin, Goto
<1>2. ASSUME NEW r \in Requests, AcquireSlot(r) PROVE CutIsFinal'
  BY <1>2 DEF AcquireSlot, Goto
<1>3. ASSUME NEW r \in Requests, SlotTimeout(r) PROVE CutIsFinal'
  BY <1>3 DEF SlotTimeout, Goto
<1>4. ASSUME NEW r \in Requests, InsertPending(r) PROVE CutIsFinal'
  BY <1>4 DEF InsertPending, Goto
<1>5. ASSUME NEW r \in Requests, ExpireWriting(r) PROVE CutIsFinal'
  BY <1>5 DEF ExpireWriting, CutWrite, CloseNow, Release
<1>6. ASSUME NEW r \in Requests, ExpireLock(r) PROVE CutIsFinal'
  BY <1>6 DEF ExpireLock, Goto, Release
<1>7. ASSUME NEW r \in Requests, RecordTimeout(r) PROVE CutIsFinal'
  BY <1>7 DEF RecordTimeout, Goto
<1>8. ASSUME NEW r \in Requests, Receive(r) \/ ResponseTimeout(r)
      PROVE  CutIsFinal'
  BY <1>8 DEF Receive, ResponseTimeout, Leave, Goto, Release
<1>9. ASSUME NEW r \in Requests, ExpireTeardown(r) PROVE CutIsFinal'
  BY <1>9 DEF ExpireTeardown, Goto, Release
<1>10. ASSUME NEW w \in Writers, NEW encodes \in BOOLEAN, WriteCheck(w, encodes)
       PROVE  CutIsFinal'
  BY <1>10 DEF WriteCheck, Leave, Goto, Release
<1>11. ASSUME NEW w \in Writers, AcquireWriter(w) PROVE CutIsFinal'
  BY <1>11 DEF AcquireWriter, MayWrite, Leave, Goto, Release
<1>12. ASSUME NEW w \in Writers, WriteDone(w) PROVE CutIsFinal'
  BY <1>12 DEF WriteDone, Leave, Goto, Release
<1>13. ASSUME NEW w \in Writers, WriteFails(w) PROVE CutIsFinal'
  BY <1>13 DEF WriteFails, Goto
<1>14. ASSUME NEW w \in Writers, CancelWrite(w) PROVE CutIsFinal'
  BY <1>14 DEF CancelWrite, CutWrite, CloseNow, Release
<1>15. ASSUME NEW w \in Writers, CancelLock(w) PROVE CutIsFinal'
  BY <1>15 DEF CancelLock, Leave, Goto, Release
<1>16. ASSUME NEW c \in Closers, Close(c) PROVE CutIsFinal'
  BY <1>16 DEF Close, Goto
<1>17. ASSUME NEW a \in Actors, Terminate(a) PROVE CutIsFinal'
  BY <1>17 DEF Terminate, NotFirst, Leave, Goto, Release
<1>18. ASSUME NEW a \in Actors \ {Reader, Guard}, CancelCaller(a)
       PROVE  CutIsFinal'
  BY <1>18 DEF CancelCaller, Leave, Goto, Release
<1>19. CASE MarkClosed
  BY <1>19 DEF MarkClosed, Step
<1>20. CASE Probe
  BY <1>20 DEF Probe
<1>21. CASE StoreFailure \/ DropEvents
  BY <1>21 DEF StoreFailure, DropEvents, Step
<1>22. CASE Drain
  BY <1>22 DEF Drain, Step
<1>23. CASE CloseSlots
  BY <1>23 DEF CloseSlots, Step
<1>24. CASE KillChild \/ Reap
  BY <1>24 DEF KillChild, MayKill, Reap, Step
<1>25. CASE ReapTimeout \/ TakeWriter
  BY <1>25 DEF ReapTimeout, TakeWriter, Finish, Step, Leave, Goto, Release
<1>26. CASE ReaderStep
  BY <1>26 DEF ReaderStep, ReaderEnd, ReaderReaps, Goto
<1>27. CASE Inbound
  BY <1>27 DEF Inbound, SendEvent, ReaderFails, Goto, Release
<1>28. CASE NextEvent \/ ChildExits
  BY <1>28 DEF NextEvent, ChildExits
<1>29. ASSUME NEW end \in {"stdin", "stdout"}, ChildShuts(end) PROVE CutIsFinal'
  BY <1>29 DEF ChildShuts
<1>30. CASE UNCHANGED vars
  BY <1>30 DEF vars
<1> QED
  BY <1>1, <1>2, <1>3, <1>4, <1>5, <1>6, <1>7, <1>8, <1>9, <1>10, <1>11, <1>12,
     <1>13, <1>14, <1>15, <1>16, <1>17, <1>18, <1>19, <1>20, <1>21, <1>22,
     <1>23, <1>24, <1>25, <1>26, <1>27, <1>28, <1>29, <1>30
     DEF Next, RequestStep, WriterStep, TeardownStep

\* The swap of shutdown_started admits one future to the teardown; that future
\* stays in it until the last stage, unless it is dropped.
LEMMA TeardownStepInv == Inv /\ [Next]_vars => OneTeardown'
<1> SUFFICES ASSUME Inv, [Next]_vars PROVE OneTeardown'
  OBVIOUS
<1> USE DEF Inv, TypeOK, WriterLock, CutIsFinal, OneTeardown, Writers, Actors,
            Causes, Running, shared, table, queue, stdin, server
<1>1. ASSUME NEW r \in Requests, RequestBegin(r) PROVE OneTeardown'
  BY <1>1 DEF RequestBegin, Goto
<1>2. ASSUME NEW r \in Requests, AcquireSlot(r) PROVE OneTeardown'
  BY <1>2 DEF AcquireSlot, Goto
<1>3. ASSUME NEW r \in Requests, SlotTimeout(r) PROVE OneTeardown'
  BY <1>3 DEF SlotTimeout, Goto
<1>4. ASSUME NEW r \in Requests, InsertPending(r) PROVE OneTeardown'
  BY <1>4 DEF InsertPending, Goto
<1>5. ASSUME NEW r \in Requests, ExpireWriting(r) PROVE OneTeardown'
  BY <1>5 DEF ExpireWriting, CutWrite, CloseNow, Release
<1>6. ASSUME NEW r \in Requests, ExpireLock(r) PROVE OneTeardown'
  BY <1>6 DEF ExpireLock, Goto, Release
<1>7. ASSUME NEW r \in Requests, RecordTimeout(r) PROVE OneTeardown'
  BY <1>7 DEF RecordTimeout, Goto
<1>8. ASSUME NEW r \in Requests, Receive(r) \/ ResponseTimeout(r)
      PROVE  OneTeardown'
  BY <1>8 DEF Receive, ResponseTimeout, Leave, Goto, Release
<1>9. ASSUME NEW r \in Requests, ExpireTeardown(r) PROVE OneTeardown'
  BY <1>9 DEF ExpireTeardown, Goto, Release
<1>10. ASSUME NEW w \in Writers, NEW encodes \in BOOLEAN, WriteCheck(w, encodes)
       PROVE  OneTeardown'
  BY <1>10 DEF WriteCheck, Leave, Goto, Release
<1>11. ASSUME NEW w \in Writers, AcquireWriter(w) PROVE OneTeardown'
  BY <1>11 DEF AcquireWriter, MayWrite, Leave, Goto, Release
<1>12. ASSUME NEW w \in Writers, WriteDone(w) PROVE OneTeardown'
  BY <1>12 DEF WriteDone, Leave, Goto, Release
<1>13. ASSUME NEW w \in Writers, WriteFails(w) PROVE OneTeardown'
  BY <1>13 DEF WriteFails, Goto
<1>14. ASSUME NEW w \in Writers, CancelWrite(w) PROVE OneTeardown'
  BY <1>14 DEF CancelWrite, CutWrite, CloseNow, Release
<1>15. ASSUME NEW w \in Writers, CancelLock(w) PROVE OneTeardown'
  BY <1>15 DEF CancelLock, Leave, Goto, Release
<1>16. ASSUME NEW c \in Closers, Close(c) PROVE OneTeardown'
  BY <1>16 DEF Close, Goto
<1>17. ASSUME NEW a \in Actors, Terminate(a) PROVE OneTeardown'
  BY <1>17 DEF Terminate, NotFirst, Leave, Goto, Release
<1>18. ASSUME NEW a \in Actors \ {Reader, Guard}, CancelCaller(a)
       PROVE  OneTeardown'
  BY <1>18 DEF CancelCaller, Leave, Goto, Release
<1>19. CASE MarkClosed
  BY <1>19 DEF MarkClosed, Step
<1>20. CASE Probe
  BY <1>20 DEF Probe
<1>21. CASE StoreFailure \/ DropEvents
  BY <1>21 DEF StoreFailure, DropEvents, Step
<1>22. CASE Drain
  BY <1>22 DEF Drain, Step
<1>23. CASE CloseSlots
  BY <1>23 DEF CloseSlots, Step
<1>24. CASE KillChild \/ Reap
  BY <1>24 DEF KillChild, MayKill, Reap, Step
<1>25. CASE ReapTimeout \/ TakeWriter
  BY <1>25 DEF ReapTimeout, TakeWriter, Finish, Step, Leave, Goto, Release
<1>26. CASE ReaderStep
  BY <1>26 DEF ReaderStep, ReaderEnd, ReaderReaps, Goto
<1>27. CASE Inbound
  BY <1>27 DEF Inbound, SendEvent, ReaderFails, Goto, Release
<1>28. CASE NextEvent \/ ChildExits
  BY <1>28 DEF NextEvent, ChildExits
<1>29. ASSUME NEW end \in {"stdin", "stdout"}, ChildShuts(end)
       PROVE  OneTeardown'
  BY <1>29 DEF ChildShuts
<1>30. CASE UNCHANGED vars
  BY <1>30 DEF vars
<1> QED
  BY <1>1, <1>2, <1>3, <1>4, <1>5, <1>6, <1>7, <1>8, <1>9, <1>10, <1>11, <1>12,
     <1>13, <1>14, <1>15, <1>16, <1>17, <1>18, <1>19, <1>20, <1>21, <1>22,
     <1>23, <1>24, <1>25, <1>26, <1>27, <1>28, <1>29, <1>30
     DEF Next, RequestStep, WriterStep, TeardownStep

\* Nobody opens a closed connection, and MarkClosed comes first.
LEMMA ClosedStep == Inv /\ [Next]_vars => ClosedFirst'
<1> SUFFICES ASSUME Inv, [Next]_vars PROVE ClosedFirst'
  OBVIOUS
<1> USE DEF Inv, TypeOK, OneTeardown, ClosedFirst, Running, shared, table,
            queue, stdin, server
<1>1. ASSUME NEW r \in Requests, RequestBegin(r) PROVE ClosedFirst'
  BY <1>1 DEF RequestBegin, Goto
<1>2. ASSUME NEW r \in Requests, AcquireSlot(r) PROVE ClosedFirst'
  BY <1>2 DEF AcquireSlot, Goto
<1>3. ASSUME NEW r \in Requests, SlotTimeout(r) PROVE ClosedFirst'
  BY <1>3 DEF SlotTimeout, Goto
<1>4. ASSUME NEW r \in Requests, InsertPending(r) PROVE ClosedFirst'
  BY <1>4 DEF InsertPending, Goto
<1>5. ASSUME NEW r \in Requests, ExpireWriting(r) PROVE ClosedFirst'
  BY <1>5 DEF ExpireWriting, CutWrite, CloseNow, Release
<1>6. ASSUME NEW r \in Requests, ExpireLock(r) PROVE ClosedFirst'
  BY <1>6 DEF ExpireLock, Goto, Release
<1>7. ASSUME NEW r \in Requests, RecordTimeout(r) PROVE ClosedFirst'
  BY <1>7 DEF RecordTimeout, Goto
<1>8. ASSUME NEW r \in Requests, Receive(r) \/ ResponseTimeout(r)
      PROVE  ClosedFirst'
  BY <1>8 DEF Receive, ResponseTimeout, Leave, Goto, Release
<1>9. ASSUME NEW r \in Requests, ExpireTeardown(r) PROVE ClosedFirst'
  BY <1>9 DEF ExpireTeardown, TeardownWaits, Goto, Release
<1>10. ASSUME NEW w \in Writers, NEW encodes \in BOOLEAN, WriteCheck(w, encodes)
       PROVE  ClosedFirst'
  BY <1>10 DEF WriteCheck, Leave, Goto, Release
<1>11. ASSUME NEW w \in Writers, AcquireWriter(w) PROVE ClosedFirst'
  BY <1>11 DEF AcquireWriter, MayWrite, Leave, Goto, Release
<1>12. ASSUME NEW w \in Writers, WriteDone(w) PROVE ClosedFirst'
  BY <1>12 DEF WriteDone, Leave, Goto, Release
<1>13. ASSUME NEW w \in Writers, WriteFails(w) PROVE ClosedFirst'
  BY <1>13 DEF WriteFails, Goto
<1>14. ASSUME NEW w \in Writers, CancelWrite(w) PROVE ClosedFirst'
  BY <1>14 DEF CancelWrite, CutWrite, CloseNow, Release
<1>15. ASSUME NEW w \in Writers, CancelLock(w) PROVE ClosedFirst'
  BY <1>15 DEF CancelLock, Leave, Goto, Release
<1>16. ASSUME NEW c \in Closers, Close(c) PROVE ClosedFirst'
  BY <1>16 DEF Close, Goto
<1>17. ASSUME NEW a \in Actors, Terminate(a) PROVE ClosedFirst'
  BY <1>17 DEF Terminate, NotFirst, Leave, Goto, Release
<1>18. ASSUME NEW a \in Actors \ {Reader, Guard}, CancelCaller(a)
       PROVE  ClosedFirst'
  BY <1>18 DEF CancelCaller, Leave, Goto, Release
<1>19. CASE MarkClosed
  BY <1>19 DEF MarkClosed, Step
<1>20. CASE Probe
  BY <1>20 DEF Probe
<1>21. CASE StoreFailure \/ DropEvents
  BY <1>21 DEF StoreFailure, DropEvents, Step
<1>22. CASE Drain
  BY <1>22 DEF Drain, Step
<1>23. CASE CloseSlots
  BY <1>23 DEF CloseSlots, Step
<1>24. CASE KillChild \/ Reap
  BY <1>24 DEF KillChild, MayKill, Reap, Step
<1>25. CASE ReapTimeout \/ TakeWriter
  BY <1>25 DEF ReapTimeout, TakeWriter, Finish, Step, Leave, Goto, Release
<1>26. CASE ReaderStep
  BY <1>26 DEF ReaderStep, ReaderEnd, ReaderReaps, Goto
<1>27. CASE Inbound
  BY <1>27 DEF Inbound, SendEvent, ReaderFails, Goto, Release
<1>28. CASE NextEvent \/ ChildExits
  BY <1>28 DEF NextEvent, ChildExits
<1>29. ASSUME NEW end \in {"stdin", "stdout"}, ChildShuts(end)
       PROVE  ClosedFirst'
  BY <1>29 DEF ChildShuts
<1>30. CASE UNCHANGED vars
  BY <1>30 DEF vars
<1> QED
  BY <1>1, <1>2, <1>3, <1>4, <1>5, <1>6, <1>7, <1>8, <1>9, <1>10, <1>11, <1>12,
     <1>13, <1>14, <1>15, <1>16, <1>17, <1>18, <1>19, <1>20, <1>21, <1>22,
     <1>23, <1>24, <1>25, <1>26, <1>27, <1>28, <1>29, <1>30
     DEF Next, RequestStep, WriterStep, TeardownStep

\* A request enters the table before it looks whether the connection is closed,
\* and terminate() marks it closed before it drains the table: one sees the other.
LEMMA AnsweredStep == Inv /\ [Next]_vars => Answered'
<1> SUFFICES ASSUME Inv, [Next]_vars PROVE Answered'
  OBVIOUS
<1> USE DEF Inv, TypeOK, WriterLock, OneTeardown, ClosedFirst, Answered,
            Writers, Actors, Causes, Running, shared, table, queue, stdin,
            server
<1>1. ASSUME NEW r \in Requests, RequestBegin(r) PROVE Answered'
  BY <1>1 DEF RequestBegin, Goto
<1>2. ASSUME NEW r \in Requests, AcquireSlot(r) PROVE Answered'
  BY <1>2 DEF AcquireSlot, Goto
<1>3. ASSUME NEW r \in Requests, SlotTimeout(r) PROVE Answered'
  BY <1>3 DEF SlotTimeout, Goto
<1>4. ASSUME NEW r \in Requests, InsertPending(r) PROVE Answered'
  BY <1>4 DEF InsertPending, Goto
<1>5. ASSUME NEW r \in Requests, ExpireWriting(r) PROVE Answered'
  BY <1>5 DEF ExpireWriting, CutWrite, CloseNow, Release
<1>6. ASSUME NEW r \in Requests, ExpireLock(r) PROVE Answered'
  BY <1>6 DEF ExpireLock, Goto, Release
<1>7. ASSUME NEW r \in Requests, RecordTimeout(r) PROVE Answered'
  BY <1>7 DEF RecordTimeout, Goto
<1>8. ASSUME NEW r \in Requests, Receive(r) \/ ResponseTimeout(r)
      PROVE  Answered'
  BY <1>8 DEF Receive, ResponseTimeout, Leave, Goto, Release
<1>9. ASSUME NEW r \in Requests, ExpireTeardown(r) PROVE Answered'
  BY <1>9 DEF ExpireTeardown, Goto, Release
<1>10. ASSUME NEW w \in Writers, NEW encodes \in BOOLEAN, WriteCheck(w, encodes)
       PROVE  Answered'
  BY <1>10 DEF WriteCheck, Leave, Goto, Release
<1>11. ASSUME NEW w \in Writers, AcquireWriter(w) PROVE Answered'
  BY <1>11 DEF AcquireWriter, MayWrite, Leave, Goto, Release
<1>12. ASSUME NEW w \in Writers, WriteDone(w) PROVE Answered'
  BY <1>12 DEF WriteDone, Leave, Goto, Release
<1>13. ASSUME NEW w \in Writers, WriteFails(w) PROVE Answered'
  BY <1>13 DEF WriteFails, Goto
<1>14. ASSUME NEW w \in Writers, CancelWrite(w) PROVE Answered'
  BY <1>14 DEF CancelWrite, CutWrite, CloseNow, Release
<1>15. ASSUME NEW w \in Writers, CancelLock(w) PROVE Answered'
  BY <1>15 DEF CancelLock, Leave, Goto, Release
<1>16. ASSUME NEW c \in Closers, Close(c) PROVE Answered'
  BY <1>16 DEF Close, Goto
<1>17. ASSUME NEW a \in Actors, Terminate(a) PROVE Answered'
  BY <1>17 DEF Terminate, NotFirst, Leave, Goto, Release
<1>18. ASSUME NEW a \in Actors \ {Reader, Guard}, CancelCaller(a)
       PROVE  Answered'
  BY <1>18 DEF CancelCaller, Leave, Goto, Release
<1>19. CASE MarkClosed
  BY <1>19 DEF MarkClosed, Step
<1>20. CASE Probe
  BY <1>20 DEF Probe
<1>21. CASE StoreFailure \/ DropEvents
  BY <1>21 DEF StoreFailure, DropEvents, Step
<1>22. CASE Drain
  BY <1>22 DEF Drain, Step
<1>23. CASE CloseSlots
  BY <1>23 DEF CloseSlots, Step
<1>24. CASE KillChild \/ Reap
  BY <1>24 DEF KillChild, MayKill, Reap, Step
<1>25. CASE ReapTimeout \/ TakeWriter
  BY <1>25 DEF ReapTimeout, TakeWriter, Finish, Step, Leave, Goto, Release
<1>26. CASE ReaderStep
  BY <1>26 DEF ReaderStep, ReaderEnd, ReaderReaps, Goto
<1>27. CASE Inbound
  BY <1>27 DEF Inbound, SendEvent, ReaderFails, Goto, Release
<1>28. CASE NextEvent \/ ChildExits
  BY <1>28 DEF NextEvent, ChildExits
<1>29. ASSUME NEW end \in {"stdin", "stdout"}, ChildShuts(end) PROVE Answered'
  BY <1>29 DEF ChildShuts
<1>30. CASE UNCHANGED vars
  BY <1>30 DEF vars
<1> QED
  BY <1>1, <1>2, <1>3, <1>4, <1>5, <1>6, <1>7, <1>8, <1>9, <1>10, <1>11, <1>12,
     <1>13, <1>14, <1>15, <1>16, <1>17, <1>18, <1>19, <1>20, <1>21, <1>22,
     <1>23, <1>24, <1>25, <1>26, <1>27, <1>28, <1>29, <1>30
     DEF Next, RequestStep, WriterStep, TeardownStep

\* The permits of a state in which the count is right: all of them are natural
\* numbers, so none exceeds the limit.
LEMMA Counting ==
  ASSUME Inv
  PROVE  /\ IsFiniteSet(pending) /\ Cardinality(pending) \in Nat
         /\ IsFiniteSet(Acquired) /\ Cardinality(Acquired) \in Nat
         /\ permits \in Nat /\ permits <= MaxPending
         /\ permits + Cardinality(pending) + Cardinality(Acquired) = MaxPending
<1>1. IsFiniteSet(pending) /\ IsFiniteSet(Acquired)
  BY FS_Subset DEF Inv, TypeOK, Acquired
<1>2. Cardinality(pending) \in Nat /\ Cardinality(Acquired) \in Nat
  BY <1>1, FS_CardinalityType
<1> QED
  BY <1>1, <1>2 DEF Inv, TypeOK, SlotsAreReturned, Acquired

\* Release() moves a permit from the table back to the pool, or changes nothing.
LEMMA ReleaseCounts ==
  ASSUME Inv, NEW r \in Requests, Release(r)
  PROVE  /\ pending' \subseteq pending /\ r \notin pending'
         /\ permits' \in 0..MaxPending
         /\ Cardinality(pending') \in Nat
         /\ permits' + Cardinality(pending') = permits + Cardinality(pending)
<1> USE Counting DEF Release
<1>1. CASE r \in pending
  <2>1. Cardinality(pending') = Cardinality(pending) - 1 /\ IsFiniteSet(pending')
    BY <1>1, FS_RemoveElement
  <2>2. Cardinality(pending') \in Nat
    BY <2>1, FS_CardinalityType
  <2> QED
    BY <1>1, <2>1, <2>2
<1>2. CASE r \notin pending
  <2>1. pending' = pending
    BY <1>2
  <2> QED
    BY <1>2, <2>1
<1> QED
  BY <1>1, <1>2

\* A future that returns or is dropped owes nothing afterwards.
LEMMA LeaveCounts ==
  ASSUME Inv, NEW a \in Actors, Leave(a)
  PROVE  /\ pending' \subseteq pending /\ a \notin pending'
         /\ permits' \in 0..MaxPending
         /\ Cardinality(pending') \in Nat
         /\ permits' + Cardinality(pending') = permits + Cardinality(pending)
<1>1. CASE a \in Requests
  BY <1>1, ReleaseCounts DEF Leave
<1>2. CASE a \notin Requests
  <2>1. UNCHANGED <<pending, permits>>
    BY <1>2 DEF Leave
  <2> QED
    BY <1>2, <2>1, Counting DEF Inv, TypeOK
<1> QED
  BY <1>1, <1>2

\* The drain gives back the permits of the whole table.
LEMMA DrainCounts ==
  ASSUME Inv, Drain
  PROVE  /\ pending' = {} /\ permits' \in 0..MaxPending
         /\ Cardinality(pending') = 0
         /\ permits' = permits + Cardinality(pending)
BY Counting, FS_EmptySet DEF Drain

\* So does a stage of terminate().
LEMMA StepTypes ==
  ASSUME Inv, NEW from \in Stages, NEW to \in Stages, Step(from, to)
  PROVE  teardown' \in [stage : Stages, owner : Actors \cup {None},
                       failure : Failures, bounded : BOOLEAN]
BY DEF Inv, TypeOK, Step

\* Leaving keeps the types of everything it touches.
LEMMA LeaveTypes ==
  ASSUME Inv, NEW a \in Actors, Leave(a)
  PROVE  /\ pending' \subseteq Requests /\ permits' \in 0..MaxPending
         /\ slots_closed' = slots_closed /\ answer' = answer
         /\ pc' = [pc EXCEPT ![a] = "done"]
<1>1. pending' \subseteq pending /\ permits' \in 0..MaxPending
  BY LeaveCounts
<1> QED
  BY <1>1 DEF Leave, Goto, Inv, TypeOK

\* Every step keeps the types; the bound on the permits needs the count.
LEMMA TypeStep == Inv /\ [Next]_vars => TypeOK'
<1> SUFFICES ASSUME Inv, [Next]_vars PROVE TypeOK'
  OBVIOUS
<1> USE DEF Inv, TypeOK, Writers, Actors, Causes, Failures, Stages, shared,
            table, queue, stdin, server
<1>1. ASSUME NEW r \in Requests, RequestBegin(r) PROVE TypeOK'
  BY <1>1 DEF RequestBegin, Goto
<1>2. ASSUME NEW r \in Requests, AcquireSlot(r) PROVE TypeOK'
  BY <1>2, Counting DEF AcquireSlot, Goto
<1>3. ASSUME NEW r \in Requests, SlotTimeout(r) PROVE TypeOK'
  BY <1>3 DEF SlotTimeout, Goto
<1>4. ASSUME NEW r \in Requests, InsertPending(r) PROVE TypeOK'
  BY <1>4 DEF InsertPending, Goto
<1>5. ASSUME NEW r \in Requests, ExpireWriting(r) PROVE TypeOK'
  BY <1>5, ReleaseCounts DEF ExpireWriting, CutWrite, CloseNow
<1>6. ASSUME NEW r \in Requests, ExpireLock(r) PROVE TypeOK'
  BY <1>6, ReleaseCounts DEF ExpireLock, Goto
<1>7. ASSUME NEW r \in Requests, RecordTimeout(r) PROVE TypeOK'
  BY <1>7 DEF RecordTimeout, Goto
<1>8. ASSUME NEW r \in Requests, Receive(r) \/ ResponseTimeout(r) PROVE TypeOK'
  BY <1>8, LeaveTypes DEF Receive, ResponseTimeout
<1>9. ASSUME NEW r \in Requests, ExpireTeardown(r) PROVE TypeOK'
  BY <1>9, ReleaseCounts DEF ExpireTeardown, Goto
<1>10. ASSUME NEW w \in Writers, NEW encodes \in BOOLEAN, WriteCheck(w, encodes)
       PROVE  TypeOK'
  <2>1. CASE Leave(w)
    BY <1>10, <2>1, LeaveTypes DEF WriteCheck
  <2>2. CASE ~Leave(w)
    BY <1>10, <2>2 DEF WriteCheck, Goto
  <2> QED
    BY <2>1, <2>2
<1>11. ASSUME NEW w \in Writers, AcquireWriter(w) PROVE TypeOK'
  <2>1. CASE Leave(w)
    BY <1>11, <2>1, LeaveTypes DEF AcquireWriter
  <2>2. CASE ~Leave(w)
    BY <1>11, <2>2 DEF AcquireWriter, Goto
  <2> QED
    BY <2>1, <2>2
<1>12. ASSUME NEW w \in Writers, WriteDone(w) PROVE TypeOK'
  <2>1. CASE Leave(w)
    BY <1>12, <2>1, LeaveTypes DEF WriteDone
  <2>2. CASE ~Leave(w)
    BY <1>12, <2>2 DEF WriteDone, Goto
  <2> QED
    BY <2>1, <2>2
<1>13. ASSUME NEW w \in Writers, WriteFails(w) PROVE TypeOK'
  BY <1>13 DEF WriteFails, Goto
<1>14. ASSUME NEW w \in Writers, CancelWrite(w) PROVE TypeOK'
  BY <1>14, ReleaseCounts DEF CancelWrite, CutWrite, CloseNow
<1>15. ASSUME NEW w \in Writers, CancelLock(w) PROVE TypeOK'
  BY <1>15, LeaveTypes DEF CancelLock
<1>16. ASSUME NEW c \in Closers, Close(c) PROVE TypeOK'
  BY <1>16 DEF Close, Goto
<1>17. ASSUME NEW a \in Actors, Terminate(a) PROVE TypeOK'
  <2>1. CASE Leave(a) /\ UNCHANGED teardown
    BY <1>17, <2>1, LeaveTypes DEF Terminate
  <2>2. CASE ~(Leave(a) /\ UNCHANGED teardown)
    <3>1. /\ pc' = [pc EXCEPT ![a] = "teardown"] /\ UNCHANGED table
          /\ teardown' = [stage |-> "closing", owner |-> a, failure |-> pc[a],
                          bounded |-> a \in Requests /\ pc[a] = "fault"]
      BY <1>17, <2>2 DEF Terminate, Goto
    <3>2. teardown' \in [stage : Stages, owner : Actors \cup {None},
                         failure : Failures, bounded : BOOLEAN]
      BY <1>17, <3>1 DEF Terminate
    <3> QED
      BY <1>17, <3>1, <3>2 DEF Terminate
  <2> QED
    BY <2>1, <2>2
<1>18. ASSUME NEW a \in Actors \ {Reader, Guard}, CancelCaller(a) PROVE TypeOK'
  BY <1>18, LeaveTypes DEF CancelCaller
<1>19. CASE MarkClosed
  BY <1>19 DEF MarkClosed, Step
<1>20. CASE Probe
  <2>1. teardown' \in [stage : Stages, owner : Actors \cup {None},
                       failure : Failures, bounded : BOOLEAN]
    BY <1>20 DEF Probe
  <2> QED
    BY <1>20, <2>1 DEF Probe
<1>21. CASE StoreFailure \/ DropEvents
  <2>1. CASE StoreFailure
    <3>1. teardown' \in [stage : Stages, owner : Actors \cup {None},
                         failure : Failures, bounded : BOOLEAN]
      BY <2>1, StepTypes DEF StoreFailure
    <3> QED
      BY <2>1, <3>1 DEF StoreFailure
  <2>2. CASE DropEvents
    <3>1. teardown' \in [stage : Stages, owner : Actors \cup {None},
                         failure : Failures, bounded : BOOLEAN]
      BY <2>2, StepTypes DEF DropEvents
    <3>2. events_tx' \in BOOLEAN
      BY <2>2 DEF DropEvents
    <3>3. UNCHANGED <<shared, table, events, stdin, server, child, pc>>
      BY <2>2 DEF DropEvents
    <3> QED
      BY <3>1, <3>2, <3>3
  <2> QED
    BY <1>21, <2>1, <2>2
<1>22. CASE Drain
  BY <1>22, DrainCounts DEF Drain, Step
<1>23. CASE CloseSlots
  BY <1>23 DEF CloseSlots, Step
<1>24. CASE KillChild \/ Reap
  <2>1. CASE KillChild
    <3>1. teardown' \in [stage : Stages, owner : Actors \cup {None},
                         failure : Failures, bounded : BOOLEAN]
      BY <2>1, StepTypes DEF KillChild
    <3>2. process' \in [state : {"running", "exited"}, killed : BOOLEAN]
      BY <2>1 DEF KillChild
    <3>3. child' \in BOOLEAN
      BY <2>1 DEF KillChild
    <3>4. UNCHANGED <<shared, table, queue, stdin, pipe, frames, pc>>
      BY <2>1 DEF KillChild
    <3> QED
      BY <3>1, <3>2, <3>3, <3>4
  <2>2. CASE Reap
    BY <2>2 DEF Reap, Step
  <2> QED
    BY <1>24, <2>1, <2>2
<1>25. CASE ReapTimeout \/ TakeWriter
  <2>1. teardown.owner \in Actors /\ Leave(teardown.owner)
    BY <1>25 DEF ReapTimeout, TakeWriter, Finish, Step, OneTeardown, Running
  <2> QED
    <3>1. teardown' \in [stage : Stages, owner : Actors \cup {None},
                         failure : Failures, bounded : BOOLEAN]
      BY <1>25, StepTypes DEF ReapTimeout, TakeWriter, Finish
    <3>2. writer' \in BOOLEAN /\ holder' = holder /\ torn' = torn
      BY <1>25 DEF ReapTimeout, TakeWriter
    <3> QED
      BY <1>25, <2>1, <3>1, <3>2, LeaveTypes DEF ReapTimeout, TakeWriter, Finish
<1>26. CASE ReaderStep
  BY <1>26 DEF ReaderStep, ReaderEnd, ReaderReaps, Goto
<1>27. CASE Inbound
  <2>1. ASSUME NEW r \in Requests, Release(r), answer' = [answer EXCEPT ![r] = "result"],
               UNCHANGED <<slots_closed, queue, pc>>
        PROVE  TypeOK'
    BY <1>27, <2>1, ReleaseCounts DEF Inbound
  <2>2. CASE SendEvent \/ ReaderFails("fault")
    BY <1>27, <2>2 DEF Inbound, SendEvent, ReaderFails, Goto
  <2> QED
    BY <1>27, <2>1, <2>2 DEF Inbound
<1>28. CASE NextEvent \/ ChildExits
  <2>1. CASE NextEvent
    BY <2>1 DEF NextEvent
  <2>2. CASE ChildExits
    BY <2>2 DEF ChildExits
  <2> QED
    BY <1>28, <2>1, <2>2
<1>29. ASSUME NEW end \in {"stdin", "stdout"}, ChildShuts(end) PROVE TypeOK'
  <2>1. pipe' \in [stdin : BOOLEAN, stdout : BOOLEAN]
    BY <1>29 DEF ChildShuts
  <2> QED
    BY <1>29, <2>1 DEF ChildShuts
<1>30. CASE UNCHANGED vars
  BY <1>30 DEF vars
<1> QED
  BY <1>1, <1>2, <1>3, <1>4, <1>5, <1>6, <1>7, <1>8, <1>9, <1>10, <1>11, <1>12,
     <1>13, <1>14, <1>15, <1>16, <1>17, <1>18, <1>19, <1>20, <1>21, <1>22,
     <1>23, <1>24, <1>25, <1>26, <1>27, <1>28, <1>29, <1>30
     DEF Next, RequestStep, WriterStep, TeardownStep

\* The count after a step that leaves the requests on their way into the table
\* where they are, and keeps the pool and the table in balance.
LEMMA SlotsBalance ==
  ASSUME Inv, Acquired' = Acquired,
         permits' + Cardinality(pending') = permits + Cardinality(pending),
         \A r \in pending' : pc'[r] \notin {"idle", "slot", "acquired", "done"}
  PROVE  SlotsAreReturned'
BY Counting DEF SlotsAreReturned, Acquired

\* A step that touches neither pool nor table, in which no request gets or
\* spends a permit and none that is in the table returns.
LEMMA SlotsFrame ==
  ASSUME Inv, UNCHANGED <<pending, permits>>,
         \A r \in Requests :
           \/ pc'[r] = pc[r]
           \/ /\ pc[r] # "acquired" /\ pc'[r] # "acquired"
              /\ r \in pending => pc'[r] \notin {"idle", "slot", "done"}
  PROVE  SlotsAreReturned'
<1>1. Acquired' = Acquired
  BY DEF Acquired
<1>2. \A r \in pending' : pc'[r] \notin {"idle", "slot", "acquired", "done"}
  BY DEF Inv, TypeOK, SlotsAreReturned
<1> QED
  BY <1>1, <1>2, SlotsBalance

\* A request that has no permit in hand lets go of its entry.
LEMMA ReleaseKeepsSlots ==
  ASSUME Inv, NEW r \in Requests, Release(r),
         pc[r] # "acquired", pc'[r] # "acquired",
         \A x \in Requests \ {r} : pc'[x] = pc[x]
  PROVE  SlotsAreReturned'
<1>1. Acquired' = Acquired
  BY DEF Acquired
<1>2. /\ pending' \subseteq pending /\ r \notin pending'
      /\ permits' + Cardinality(pending') = permits + Cardinality(pending)
  BY ReleaseCounts
<1>3. \A x \in pending' : pc'[x] \notin {"idle", "slot", "acquired", "done"}
  BY <1>2 DEF Inv, TypeOK, SlotsAreReturned
<1> QED
  BY <1>1, <1>2, <1>3, SlotsBalance

\* The same for any future that returns or is dropped.
LEMMA LeaveKeepsSlots ==
  ASSUME Inv, NEW a \in Actors, pc[a] # "acquired", Leave(a)
  PROVE  SlotsAreReturned'
<1>1. pc' = [pc EXCEPT ![a] = "done"] /\ pc \in [Actors -> {pc[x] : x \in Actors}]
  BY DEF Leave, Goto, Inv, TypeOK
<1>2. CASE a \in Requests
  <2>1. Release(a)
    BY <1>2 DEF Leave
  <2>2. pc'[a] # "acquired" /\ \A x \in Requests \ {a} : pc'[x] = pc[x]
    BY <1>1 DEF Actors, Writers
  <2> QED
    BY <1>2, <2>1, <2>2, ReleaseKeepsSlots
<1>3. CASE a \notin Requests
  <2>1. UNCHANGED <<pending, permits>>
    BY <1>3 DEF Leave
  <2>2. \A x \in Requests : pc'[x] = pc[x]
    BY <1>1, <1>3 DEF Actors, Writers
  <2> QED
    BY <2>1, <2>2, SlotsFrame
<1> QED
  BY <1>2, <1>3

\* Every step keeps the count: a permit changes hands, none is lost or doubled.
LEMMA SlotsStep == Inv /\ [Next]_vars => SlotsAreReturned'
<1> SUFFICES ASSUME Inv, [Next]_vars PROVE SlotsAreReturned'
  OBVIOUS
<1> USE DEF Inv, TypeOK, Writers, Actors, shared, table, queue, stdin, server
<1>1. ASSUME NEW r \in Requests, RequestBegin(r) PROVE SlotsAreReturned'
  <2>1. UNCHANGED <<pending, permits>>
    BY <1>1 DEF RequestBegin, Goto
  <2>2. \A x \in Requests :
          \/ pc'[x] = pc[x]
          \/ /\ pc[x] # "acquired" /\ pc'[x] # "acquired"
             /\ x \in pending => pc'[x] \notin {"idle", "slot", "done"}
    BY <1>1 DEF RequestBegin, Goto, SlotsAreReturned
  <2> QED
    BY <2>1, <2>2, SlotsFrame
<1>2. ASSUME NEW r \in Requests, AcquireSlot(r) PROVE SlotsAreReturned'
  <2>1. CASE slots_closed
    <3>1. /\ UNCHANGED <<pending, permits>> /\ r \notin pending
          /\ \A x \in Requests : pc'[x] = pc[x] \/ (x = r /\ pc[x] = "slot" /\ pc'[x] = "done")
      BY <1>2, <2>1 DEF AcquireSlot, Goto, SlotsAreReturned
    <3> QED
      BY <3>1, SlotsFrame
  <2>2. CASE ~slots_closed
    <3>1. /\ permits' = permits - 1 /\ pending' = pending
          /\ r \notin pending /\ r \notin Acquired
          /\ Acquired' = Acquired \cup {r}
      BY <1>2, <2>2 DEF AcquireSlot, Goto, SlotsAreReturned, Acquired
    <3>2. Cardinality(Acquired') = Cardinality(Acquired) + 1
      BY <3>1, Counting, FS_AddElement
    <3>3. permits' + Cardinality(pending') + Cardinality(Acquired') = MaxPending
      BY <3>1, <3>2, Counting
    <3>4. \A x \in pending' : pc'[x] = pc[x]
      BY <1>2, <2>2, <3>1 DEF AcquireSlot, Goto
    <3> QED
      BY <3>1, <3>3, <3>4 DEF SlotsAreReturned, Acquired
  <2> QED
    BY <2>1, <2>2
<1>3. ASSUME NEW r \in Requests, SlotTimeout(r) PROVE SlotsAreReturned'
  <2>1. UNCHANGED <<pending, permits>>
    BY <1>3 DEF SlotTimeout, Goto
  <2>2. \A x \in Requests :
          \/ pc'[x] = pc[x]
          \/ /\ pc[x] # "acquired" /\ pc'[x] # "acquired"
             /\ x \in pending => pc'[x] \notin {"idle", "slot", "done"}
    BY <1>3 DEF SlotTimeout, Goto, SlotsAreReturned
  <2> QED
    BY <2>1, <2>2, SlotsFrame
<1>4. ASSUME NEW r \in Requests, InsertPending(r) PROVE SlotsAreReturned'
  <2>1. /\ permits' = permits /\ pending' = pending \cup {r}
        /\ r \notin pending /\ r \in Acquired
        /\ Acquired' = Acquired \ {r}
    BY <1>4 DEF InsertPending, Goto, SlotsAreReturned, Acquired
  <2>2. /\ Cardinality(Acquired') = Cardinality(Acquired) - 1
        /\ Cardinality(pending') = Cardinality(pending) + 1
    BY <2>1, Counting, FS_AddElement, FS_RemoveElement
  <2>3. permits' + Cardinality(pending') + Cardinality(Acquired') = MaxPending
    BY <2>1, <2>2, Counting
  <2>4. \A x \in pending' : pc'[x] = "check" \/ (x \in pending /\ pc'[x] = pc[x])
    BY <1>4 DEF InsertPending, Goto
  <2> QED
    BY <2>3, <2>4 DEF SlotsAreReturned, Acquired
<1>5. ASSUME NEW r \in Requests, ExpireWriting(r) PROVE SlotsAreReturned'
  <2>1. /\ Release(r) /\ pc[r] # "acquired" /\ pc'[r] # "acquired"
        /\ \A x \in Requests \ {r} : pc'[x] = pc[x]
    BY <1>5 DEF ExpireWriting
  <2> QED
    BY <2>1, ReleaseKeepsSlots
<1>6. ASSUME NEW r \in Requests, ExpireLock(r) PROVE SlotsAreReturned'
  <2>1. /\ Release(r) /\ pc[r] # "acquired" /\ pc'[r] # "acquired"
        /\ \A x \in Requests \ {r} : pc'[x] = pc[x]
    BY <1>6 DEF ExpireLock, Goto
  <2> QED
    BY <2>1, ReleaseKeepsSlots
<1>7. ASSUME NEW r \in Requests, RecordTimeout(r) PROVE SlotsAreReturned'
  <2>1. UNCHANGED <<pending, permits>>
    BY <1>7 DEF RecordTimeout, Goto
  <2>2. \A x \in Requests :
          \/ pc'[x] = pc[x]
          \/ /\ pc[x] # "acquired" /\ pc'[x] # "acquired"
             /\ x \in pending => pc'[x] \notin {"idle", "slot", "done"}
    BY <1>7 DEF RecordTimeout, Goto, SlotsAreReturned
  <2> QED
    BY <2>1, <2>2, SlotsFrame
<1>8. ASSUME NEW r \in Requests, Receive(r) \/ ResponseTimeout(r)
      PROVE  SlotsAreReturned'
  <2>1. Leave(r) /\ pc[r] # "acquired"
    BY <1>8 DEF Receive, ResponseTimeout
  <2> QED
    BY <1>8, <2>1, LeaveKeepsSlots
<1>9. ASSUME NEW r \in Requests, ExpireTeardown(r) PROVE SlotsAreReturned'
  <2>1. /\ Release(r) /\ pc[r] # "acquired" /\ pc'[r] # "acquired"
        /\ \A x \in Requests \ {r} : pc'[x] = pc[x]
    BY <1>9 DEF ExpireTeardown, Goto
  <2> QED
    BY <2>1, ReleaseKeepsSlots
<1>10. ASSUME NEW w \in Writers, NEW encodes \in BOOLEAN, WriteCheck(w, encodes)
       PROVE  SlotsAreReturned'
  <2>1. pc[w] # "acquired"
    BY <1>10 DEF WriteCheck
  <2>2. CASE Leave(w)
    BY <2>1, <2>2, LeaveKeepsSlots
  <2>3. CASE ~Leave(w)
    <3>1. /\ UNCHANGED <<pending, permits>>
          /\ \A x \in Requests : \/ pc'[x] = pc[x]
                               \/ /\ x = w /\ pc'[x] \notin {"idle", "slot", "acquired", "done"}
      BY <1>10, <2>3 DEF WriteCheck, Goto
    <3> QED
      BY <2>1, <3>1, SlotsFrame
  <2> QED
    BY <2>2, <2>3
<1>11. ASSUME NEW w \in Writers, AcquireWriter(w) PROVE SlotsAreReturned'
  <2>1. pc[w] # "acquired"
    BY <1>11 DEF AcquireWriter
  <2>2. CASE Leave(w)
    BY <2>1, <2>2, LeaveKeepsSlots
  <2>3. CASE ~Leave(w)
    <3>1. /\ UNCHANGED <<pending, permits>>
          /\ \A x \in Requests : \/ pc'[x] = pc[x]
                               \/ /\ x = w /\ pc'[x] \notin {"idle", "slot", "acquired", "done"}
      BY <1>11, <2>3 DEF AcquireWriter, Goto
    <3> QED
      BY <2>1, <3>1, SlotsFrame
  <2> QED
    BY <2>2, <2>3
<1>12. ASSUME NEW w \in Writers, WriteDone(w) PROVE SlotsAreReturned'
  <2>1. pc[w] # "acquired"
    BY <1>12 DEF WriteDone
  <2>2. CASE Leave(w)
    BY <2>1, <2>2, LeaveKeepsSlots
  <2>3. CASE ~Leave(w)
    <3>1. /\ UNCHANGED <<pending, permits>>
          /\ \A x \in Requests : \/ pc'[x] = pc[x]
                               \/ /\ x = w /\ pc'[x] \notin {"idle", "slot", "acquired", "done"}
      BY <1>12, <2>3 DEF WriteDone, Goto
    <3> QED
      BY <2>1, <3>1, SlotsFrame
  <2> QED
    BY <2>2, <2>3
<1>13. ASSUME NEW w \in Writers, WriteFails(w) PROVE SlotsAreReturned'
  <2>1. UNCHANGED <<pending, permits>>
    BY <1>13 DEF WriteFails, Goto
  <2>2. \A x \in Requests :
          \/ pc'[x] = pc[x]
          \/ /\ pc[x] # "acquired" /\ pc'[x] # "acquired"
             /\ x \in pending => pc'[x] \notin {"idle", "slot", "done"}
    BY <1>13 DEF WriteFails, Goto, SlotsAreReturned
  <2> QED
    BY <2>1, <2>2, SlotsFrame
<1>14. ASSUME NEW w \in Writers, CancelWrite(w) PROVE SlotsAreReturned'
  <2>1. CASE w \in Requests
    <3>1. /\ Release(w) /\ pc[w] # "acquired" /\ pc'[w] # "acquired"
          /\ \A x \in Requests \ {w} : pc'[x] = pc[x]
      BY <1>14, <2>1 DEF CancelWrite
    <3> QED
      BY <2>1, <3>1, ReleaseKeepsSlots
  <2>2. CASE w \notin Requests
    <3>1. UNCHANGED <<pending, permits>> /\ \A x \in Requests : pc'[x] = pc[x]
      BY <1>14, <2>2 DEF CancelWrite
    <3> QED
      BY <3>1, SlotsFrame
  <2> QED
    BY <2>1, <2>2
<1>15. ASSUME NEW w \in Writers, CancelLock(w) PROVE SlotsAreReturned'
  <2>1. Leave(w) /\ pc[w] # "acquired"
    BY <1>15 DEF CancelLock
  <2> QED
    BY <1>15, <2>1, LeaveKeepsSlots
<1>16. ASSUME NEW c \in Closers, Close(c) PROVE SlotsAreReturned'
  <2>1. UNCHANGED <<pending, permits>>
    BY <1>16 DEF Close, Goto
  <2>2. \A x \in Requests :
          \/ pc'[x] = pc[x]
          \/ /\ pc[x] # "acquired" /\ pc'[x] # "acquired"
             /\ x \in pending => pc'[x] \notin {"idle", "slot", "done"}
    BY <1>16 DEF Close, Goto, SlotsAreReturned
  <2> QED
    BY <2>1, <2>2, SlotsFrame
<1>17. ASSUME NEW a \in Actors, Terminate(a) PROVE SlotsAreReturned'
  <2>1. pc[a] # "acquired"
    BY <1>17 DEF Terminate, Causes
  <2>2. CASE Leave(a)
    BY <2>1, <2>2, LeaveKeepsSlots
  <2>3. CASE ~Leave(a)
    <3>1. /\ UNCHANGED <<pending, permits>>
          /\ \A x \in Requests : \/ pc'[x] = pc[x]
                               \/ /\ x = a /\ pc'[x] \notin {"idle", "slot", "acquired", "done"}
      BY <1>17, <2>3 DEF Terminate, Goto
    <3> QED
      BY <2>1, <3>1, SlotsFrame
  <2> QED
    BY <2>2, <2>3
<1>18. ASSUME NEW a \in Actors \ {Reader, Guard}, CancelCaller(a)
       PROVE  SlotsAreReturned'
  <2>1. Leave(a) /\ pc[a] # "acquired"
    BY <1>18 DEF CancelCaller
  <2> QED
    BY <1>18, <2>1, LeaveKeepsSlots
<1>19. CASE MarkClosed
  <2>1. UNCHANGED <<pending, permits>>
    BY <1>19 DEF MarkClosed
  <2>2. \A x \in Requests :
          \/ pc'[x] = pc[x]
          \/ /\ pc[x] # "acquired" /\ pc'[x] # "acquired"
             /\ x \in pending => pc'[x] \notin {"idle", "slot", "done"}
    BY <1>19 DEF MarkClosed, SlotsAreReturned
  <2> QED
    BY <2>1, <2>2, SlotsFrame
<1>20. CASE Probe
  <2>1. UNCHANGED <<pending, permits>>
    BY <1>20 DEF Probe
  <2>2. \A x \in Requests :
          \/ pc'[x] = pc[x]
          \/ /\ pc[x] # "acquired" /\ pc'[x] # "acquired"
             /\ x \in pending => pc'[x] \notin {"idle", "slot", "done"}
    BY <1>20 DEF Probe, SlotsAreReturned
  <2> QED
    BY <2>1, <2>2, SlotsFrame
<1>21. CASE StoreFailure \/ DropEvents
  <2>1. UNCHANGED <<pending, permits>>
    BY <1>21 DEF StoreFailure, DropEvents
  <2>2. \A x \in Requests :
          \/ pc'[x] = pc[x]
          \/ /\ pc[x] # "acquired" /\ pc'[x] # "acquired"
             /\ x \in pending => pc'[x] \notin {"idle", "slot", "done"}
    BY <1>21 DEF StoreFailure, DropEvents, SlotsAreReturned
  <2> QED
    BY <2>1, <2>2, SlotsFrame
<1>22. CASE Drain
  <2>1. Acquired' = Acquired
    BY <1>22 DEF Drain, Acquired
  <2> QED
    BY <1>22, <2>1, DrainCounts, Counting, SlotsBalance
<1>23. CASE CloseSlots
  <2>1. UNCHANGED <<pending, permits>>
    BY <1>23 DEF CloseSlots
  <2>2. \A x \in Requests :
          \/ pc'[x] = pc[x]
          \/ /\ pc[x] # "acquired" /\ pc'[x] # "acquired"
             /\ x \in pending => pc'[x] \notin {"idle", "slot", "done"}
    BY <1>23 DEF CloseSlots, SlotsAreReturned
  <2> QED
    BY <2>1, <2>2, SlotsFrame
<1>24. CASE KillChild \/ Reap
  <2>1. UNCHANGED <<pending, permits>>
    BY <1>24 DEF KillChild, Reap
  <2>2. \A x \in Requests :
          \/ pc'[x] = pc[x]
          \/ /\ pc[x] # "acquired" /\ pc'[x] # "acquired"
             /\ x \in pending => pc'[x] \notin {"idle", "slot", "done"}
    BY <1>24 DEF KillChild, Reap, SlotsAreReturned
  <2> QED
    BY <2>1, <2>2, SlotsFrame
<1>25. CASE ReapTimeout \/ TakeWriter
  <2>1. /\ teardown.owner \in Actors /\ Leave(teardown.owner)
        /\ pc[teardown.owner] = "teardown"
    BY <1>25 DEF ReapTimeout, TakeWriter, Finish, Step, OneTeardown, Running
  <2> QED
    BY <2>1, LeaveKeepsSlots
<1>26. CASE ReaderStep
  <2>1. UNCHANGED <<pending, permits>>
    BY <1>26 DEF ReaderStep, ReaderEnd, ReaderReaps, Goto
  <2>2. \A x \in Requests :
          \/ pc'[x] = pc[x]
          \/ /\ pc[x] # "acquired" /\ pc'[x] # "acquired"
             /\ x \in pending => pc'[x] \notin {"idle", "slot", "done"}
    BY <1>26 DEF ReaderStep, ReaderEnd, ReaderReaps, Goto, SlotsAreReturned
  <2> QED
    BY <2>1, <2>2, SlotsFrame
<1>27. CASE Inbound
  <2>1. ASSUME NEW r \in pending, Release(r), UNCHANGED pc
        PROVE  SlotsAreReturned'
    <3>1. pc[r] # "acquired" /\ pc'[r] # "acquired" /\ r \in Requests
      BY <2>1 DEF SlotsAreReturned
    <3> QED
      BY <2>1, <3>1, ReleaseKeepsSlots
  <2>2. CASE SendEvent \/ ReaderFails("fault")
    <3>1. UNCHANGED <<pending, permits>> /\ \A x \in Requests : pc'[x] = pc[x]
      BY <2>2 DEF SendEvent, ReaderFails, Goto
    <3> QED
      BY <3>1, SlotsFrame
  <2> QED
    BY <1>27, <2>1, <2>2 DEF Inbound
<1>28. CASE NextEvent \/ ChildExits
  <2>1. UNCHANGED <<pending, permits>>
    BY <1>28 DEF NextEvent, ChildExits
  <2>2. \A x \in Requests :
          \/ pc'[x] = pc[x]
          \/ /\ pc[x] # "acquired" /\ pc'[x] # "acquired"
             /\ x \in pending => pc'[x] \notin {"idle", "slot", "done"}
    BY <1>28 DEF NextEvent, ChildExits, SlotsAreReturned
  <2> QED
    BY <2>1, <2>2, SlotsFrame
<1>29. ASSUME NEW end \in {"stdin", "stdout"}, ChildShuts(end)
       PROVE  SlotsAreReturned'
  <2>1. UNCHANGED <<pending, permits>>
    BY <1>29 DEF ChildShuts
  <2>2. \A x \in Requests :
          \/ pc'[x] = pc[x]
          \/ /\ pc[x] # "acquired" /\ pc'[x] # "acquired"
             /\ x \in pending => pc'[x] \notin {"idle", "slot", "done"}
    BY <1>29 DEF ChildShuts, SlotsAreReturned
  <2> QED
    BY <2>1, <2>2, SlotsFrame
<1>30. CASE UNCHANGED vars
  <2>1. UNCHANGED <<pending, permits>>
    BY <1>30 DEF vars
  <2>2. \A x \in Requests :
          \/ pc'[x] = pc[x]
          \/ /\ pc[x] # "acquired" /\ pc'[x] # "acquired"
             /\ x \in pending => pc'[x] \notin {"idle", "slot", "done"}
    BY <1>30 DEF vars, SlotsAreReturned
  <2> QED
    BY <2>1, <2>2, SlotsFrame
<1> QED
  BY <1>1, <1>2, <1>3, <1>4, <1>5, <1>6, <1>7, <1>8, <1>9, <1>10, <1>11, <1>12,
     <1>13, <1>14, <1>15, <1>16, <1>17, <1>18, <1>19, <1>20, <1>21, <1>22,
     <1>23, <1>24, <1>25, <1>26, <1>27, <1>28, <1>29, <1>30
     DEF Next, RequestStep, WriterStep, TeardownStep

LEMMA InitInv == Init => Inv
<1> SUFFICES ASSUME Init PROVE Inv
  OBVIOUS
<1>1. TypeOK
  <2>1. teardown \in [stage : Stages, owner : Actors \cup {None},
                     failure : Failures, bounded : BOOLEAN]
    BY DEF Init, Stages, Failures
  <2>2. /\ writer \in BOOLEAN /\ child \in BOOLEAN /\ events_tx \in BOOLEAN
        /\ closed \in BOOLEAN /\ shutdown_started \in BOOLEAN
        /\ slots_closed \in BOOLEAN /\ torn \in BOOLEAN
    BY DEF Init
  <2>3. /\ process \in [state : {"running", "exited"}, killed : BOOLEAN]
        /\ pipe \in [stdin : BOOLEAN, stdout : BOOLEAN]
    BY DEF Init
  <2> QED
    BY <2>1, <2>2, <2>3 DEF Init, TypeOK, Failures
<1>2. WriterLock /\ CutIsFinal /\ OneTeardown /\ ClosedFirst /\ Answered
  BY DEF Init, WriterLock, CutIsFinal, OneTeardown, Running, ClosedFirst,
     Answered,
         Writers, Actors
<1>3. SlotsAreReturned
  <2>1. {r \in Requests : pc[r] = "acquired"} = {}
    BY DEF Init, Actors, Writers
  <2> QED
    BY <2>1, FS_EmptySet DEF Init, SlotsAreReturned
<1> QED
  BY <1>1, <1>2, <1>3 DEF Inv

\* Inv is inductive: every step of the client, its tasks, the application and
\* the child keeps it.
THEOREM Invariance == Spec => []Inv
<1>1. Inv /\ [Next]_vars => Inv'
  BY TypeStep, WriterLockStep, CutStep, TeardownStepInv, ClosedStep,
     AnsweredStep,
     SlotsStep DEF Inv
<1> QED
  BY <1>1, InitInv, PTL DEF Spec

\* The variables of the client keep their types; the pool never holds more than
\* max_pending_requests permits.
THEOREM TypeCorrect == Spec => []TypeOK
<1>1. Inv => TypeOK
  BY DEF Inv
<1> QED
  BY <1>1, Invariance, PTL

\* Whatever future is dropped in the middle of a write, and whoever waits for
\* the writer lock, nothing follows half a frame on the child's stdin.
THEOREM FramingIsKept == Spec => []FramingHolds
<1>1. Inv => FramingHolds
  BY DEF Inv, CutIsFinal, FramingHolds
<1> QED
  BY <1>1, Invariance, PTL

\* However requests end, their slots come back, once each.
THEOREM SlotsComeBack == Spec => []SlotsAreReturned
<1>1. Inv => SlotsAreReturned
  BY DEF Inv
<1> QED
  BY <1>1, Invariance, PTL

\* terminate() drains the table between a request's entry and its write without
\* leaving the request to wait for nobody.
THEOREM WaitersAreServed == Spec => []NoAbandonedWaiter
<1>1. Inv => NoAbandonedWaiter
  BY DEF Inv, Answered, NoAbandonedWaiter
<1> QED
  BY <1>1, Invariance, PTL

----------------------------------------------------------------------------
(* What a step may never take back. *)

\* An entry of the table has no answer yet, nor has a request on its way there.
Unanswered ==
  \A r \in Requests :
    r \in pending \/ pc[r] \in {"idle", "slot", "acquired"} => answer[r] = "none"

\* A step leaves a closed connection closed, an answered request its answer, and
\* replaces a recorded failure by a timeout at most.
KeepsOutcomes ==
  /\ closed => closed'
  /\ \A r \in Requests : answer[r] # "none" => answer'[r] = answer[r]
  /\ terminal_failure # "none" => terminal_failure' \in {terminal_failure, "timeout"}

\* The reader and terminate() answer only what is in the table, and take it out.
LEMMA OutcomesStep ==
  Inv /\ Unanswered /\ [Next]_vars => Unanswered' /\ KeepsOutcomes
<1> SUFFICES ASSUME Inv, Unanswered, [Next]_vars PROVE Unanswered' /\ KeepsOutcomes
  OBVIOUS
<1> DEFINE Keeps == Unanswered' /\ KeepsOutcomes
<1> USE DEF Inv, TypeOK, Unanswered, KeepsOutcomes, SlotsAreReturned, OneTeardown,
            Writers, Actors, shared, table, queue, stdin, server
<1>1. ASSUME NEW r \in Requests, RequestBegin(r) PROVE Keeps
  BY <1>1 DEF RequestBegin, Goto
<1>2. ASSUME NEW r \in Requests, AcquireSlot(r) PROVE Keeps
  BY <1>2 DEF AcquireSlot, Goto
<1>3. ASSUME NEW r \in Requests, SlotTimeout(r) PROVE Keeps
  BY <1>3 DEF SlotTimeout, Goto
<1>4. ASSUME NEW r \in Requests, InsertPending(r) PROVE Keeps
  BY <1>4 DEF InsertPending, Goto
<1>5. ASSUME NEW r \in Requests, ExpireWriting(r) PROVE Keeps
  BY <1>5 DEF ExpireWriting, CutWrite, CloseNow, Release
<1>6. ASSUME NEW r \in Requests, ExpireLock(r) PROVE Keeps
  BY <1>6 DEF ExpireLock, Goto, Release
<1>7. ASSUME NEW r \in Requests, RecordTimeout(r) PROVE Keeps
  BY <1>7 DEF RecordTimeout, Goto
<1>8. ASSUME NEW r \in Requests, Receive(r) \/ ResponseTimeout(r)
      PROVE  Keeps
  BY <1>8 DEF Receive, ResponseTimeout, Leave, Goto, Release
<1>9. ASSUME NEW r \in Requests, ExpireTeardown(r) PROVE Keeps
  BY <1>9 DEF ExpireTeardown, Goto, Release
<1>10. ASSUME NEW w \in Writers, NEW encodes \in BOOLEAN, WriteCheck(w, encodes)
       PROVE  Keeps
  BY <1>10 DEF WriteCheck, Leave, Goto, Release
<1>11. ASSUME NEW w \in Writers, AcquireWriter(w) PROVE Keeps
  BY <1>11 DEF AcquireWriter, MayWrite, Leave, Goto, Release
<1>12. ASSUME NEW w \in Writers, WriteDone(w) PROVE Keeps
  BY <1>12 DEF WriteDone, Leave, Goto, Release
<1>13. ASSUME NEW w \in Writers, WriteFails(w) PROVE Keeps
  BY <1>13 DEF WriteFails, Goto
<1>14. ASSUME NEW w \in Writers, CancelWrite(w) PROVE Keeps
  BY <1>14 DEF CancelWrite, CutWrite, CloseNow, Release
<1>15. ASSUME NEW w \in Writers, CancelLock(w) PROVE Keeps
  BY <1>15 DEF CancelLock, Leave, Goto, Release
<1>16. ASSUME NEW c \in Closers, Close(c) PROVE Keeps
  BY <1>16 DEF Close, Goto
<1>17. ASSUME NEW a \in Actors, Terminate(a) PROVE Keeps
  BY <1>17 DEF Terminate, NotFirst, Leave, Goto, Release
<1>18. ASSUME NEW a \in Actors \ {Reader, Guard}, CancelCaller(a)
       PROVE  Keeps
  BY <1>18 DEF CancelCaller, Leave, Goto, Release
<1>19. CASE MarkClosed
  BY <1>19 DEF MarkClosed, Step
<1>20. CASE Probe
  BY <1>20 DEF Probe
<1>21. CASE StoreFailure \/ DropEvents
  BY <1>21 DEF StoreFailure, DropEvents, Step
<1>22. CASE Drain
  BY <1>22 DEF Drain, Step
<1>23. CASE CloseSlots
  BY <1>23 DEF CloseSlots, Step
<1>24. CASE KillChild \/ Reap
  BY <1>24 DEF KillChild, MayKill, Reap, Step
<1>25. CASE ReapTimeout \/ TakeWriter
  BY <1>25 DEF ReapTimeout, TakeWriter, Finish, Step, Leave, Goto, Release
<1>26. CASE ReaderStep
  BY <1>26 DEF ReaderStep, ReaderEnd, ReaderReaps, Goto
<1>27. CASE Inbound
  BY <1>27 DEF Inbound, SendEvent, ReaderFails, Goto, Release
<1>28. CASE NextEvent \/ ChildExits
  BY <1>28 DEF NextEvent, ChildExits
<1>29. ASSUME NEW end \in {"stdin", "stdout"}, ChildShuts(end) PROVE Keeps
  BY <1>29 DEF ChildShuts
<1>30. CASE UNCHANGED vars
  BY <1>30 DEF vars
<1> QED
  BY <1>1, <1>2, <1>3, <1>4, <1>5, <1>6, <1>7, <1>8, <1>9, <1>10, <1>11, <1>12,
     <1>13, <1>14, <1>15, <1>16, <1>17, <1>18, <1>19, <1>20, <1>21, <1>22,
     <1>23, <1>24, <1>25, <1>26, <1>27, <1>28, <1>29, <1>30
     DEF Next, RequestStep, WriterStep, TeardownStep

\* Of the outcomes of a connection nothing is taken back: it never opens again, no
\* late reply replaces the failure that terminate() gave a request nor the failure a
\* reply, and the first failure recorded stays, but for a write that timed out.
THEOREM OutcomesAreFinal == Spec => [][KeepsOutcomes]_vars
<1>1. Init => Unanswered
  BY DEF Init, Unanswered, Actors, Writers
<1> QED
  BY <1>1, Invariance, OutcomesStep, PTL DEF Spec

=============================================================================
