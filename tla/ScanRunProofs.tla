---------------------------- MODULE ScanRunProofs ----------------------------
(***************************************************************************)
(* What the run of ScanRun shows for a small instance, proved for every    *)
(* set of sources, files and workers, every number of formats, every       *)
(* --timeout and every number of changes to the databases.                 *)
(***************************************************************************)
EXTENDS ScanRun, TLAPS

-----------------------------------------------------------------------------
(* The type invariant.  It is inductive only with what is known of the     *)
(* formats on the way to writeFiles.                                       *)

Scanning == {"setup", "preflight", "source", "catalog", "hash", "check", "stop", "join", "assemble"}

FormatLeft ==
  /\ pc \in Scanning => written = 0
  /\ pc = "write" => written < NumFormats

TypeInv == TypeOK /\ FormatLeft

\* A run starts with nothing written.
LEMMA TypeInvInit == Init => TypeInv
<1> SUFFICES ASSUME Init PROVE TypeInv
  OBVIOUS
<1> USE ScanRunConstants
<1>1. Pool!PoolTypeOK
  BY DEF Init, Pool!PoolInit, Pool!PoolTypeOK
<1>2. spell \in [Sources -> SUBSET Databases]
  BY DEF Init
<1>3. /\ exit \in exitOK..exitTransmit
      /\ deadline \in 0..Timeout
      /\ dogLeft \in 0..(Timeout + Grace)
      /\ changes \in 0..WorldBudget
      /\ written \in 0..NumFormats
  BY DEF Init, exitOK, exitTransmit
<1>4. TypeOK
  BY <1>1, <1>2, <1>3, Zenon DEF Init, TypeOK
<1> QED
  BY <1>4 DEF TypeInv, FormatLeft, Scanning, Init

\* A step of the pool leaves its variables well typed.
LEMMA PoolStepTypes ==
  ASSUME Pool!PoolTypeOK, Pool!PoolStep
  PROVE  Pool!PoolTypeOK'
<1>1. ASSUME NEW w \in Workers, Pool!Feed(w) PROVE Pool!PoolTypeOK'
  BY <1>1 DEF Pool!Feed, Pool!PoolTypeOK
<1>2. ASSUME NEW w \in Workers, Pool!Hash(w) PROVE Pool!PoolTypeOK'
  <2>1. job[w] \subseteq Files
    BY DEF Pool!PoolTypeOK
  <2> QED
    BY <1>2, <2>1 DEF Pool!Hash, Pool!PoolTypeOK
<1>3. ASSUME NEW w \in Workers, Pool!Collect(w) PROVE Pool!PoolTypeOK'
  <2>1. job[w] \subseteq Files
    BY DEF Pool!PoolTypeOK
  <2> QED
    BY <1>3, <2>1 DEF Pool!Collect, Pool!PoolTypeOK
<1>4. ASSUME NEW w \in Workers, Pool!WorkerEnds(w) PROVE Pool!PoolTypeOK'
  BY <1>4 DEF Pool!WorkerEnds, Pool!PoolTypeOK
<1>5. CASE Pool!FeederEnds
  BY <1>5 DEF Pool!FeederEnds, Pool!PoolTypeOK
<1>6. CASE Pool!CloseResults
  BY <1>6 DEF Pool!CloseResults, Pool!PoolTypeOK
<1> QED
  BY <1>1, <1>2, <1>3, <1>4, <1>5, <1>6 DEF Pool!PoolStep

\* No format is written before the inventory is assembled.
LEMMA TypeInvNext == TypeInv /\ [Next]_vars => TypeInv'
<1> SUFFICES ASSUME TypeInv, [Next]_vars PROVE TypeInv'
  OBVIOUS
<1> USE ScanRunConstants
    DEF TypeInv, TypeOK, FormatLeft, Scanning, Pool!PoolTypeOK, beside, host, result, products, hashing
<1>1. CASE SetupFails
  BY <1>1 DEF SetupFails, Exits, exitOK, exitTransmit, exitUsage, exitFatal
<1>2. CASE StartScan
  BY <1>2 DEF StartScan, Goes
<1>3. CASE Preflight
  BY <1>3 DEF Preflight, Goes, ScanFails
<1>4. CASE GetSource
  BY <1>4 DEF GetSource, Goes, ScanFails
<1>5. CASE Catalog
  BY <1>5 DEF Catalog, Goes
<1>6. CASE CatalogFails
  <2>1. CASE Expired
    BY <1>6, <2>1 DEF CatalogFails, ScanFails, Goes
  <2>2. CASE ~Expired
    BY <1>6, <2>2 DEF CatalogFails, Goes
  <2> QED
    BY <2>1, <2>2
<1>7. CASE HashStep
  <2>1. Pool!PoolTypeOK'
    BY <1>7, PoolStepTypes DEF HashStep
  <2> QED
    BY <1>7, <2>1 DEF HashStep
<1>8. CASE HashEnds
  BY <1>8 DEF HashEnds, Goes
<1>9. CASE Check
  BY <1>9 DEF Check, Goes
<1>10. CASE StopWatchdog
  BY <1>10 DEF StopWatchdog, Goes
<1>11. CASE Join
  <2>1. scanErr \in {"none", "deadline", "failed"}
    OBVIOUS
  <2>2. (pc' = "ended" /\ exit' \in {exitTimeout, exitFatal}) \/ (pc' = "assemble" /\ exit' = exit)
    BY <1>11, <2>1 DEF Join, Exits, Goes
  <2> QED
    BY <1>11, <2>2 DEF Join, exitOK, exitFatal, exitTimeout, exitTransmit
<1>12. CASE Assemble
  <2>1. failed' \subseteq Sources \union {"services"}
    BY <1>12 DEF Assemble
  <2>2. incomplete' \in BOOLEAN
    BY <1>12 DEF Assemble
  <2>3. pc' = "write" /\ written' < NumFormats
    BY <1>12 DEF Assemble, Goes
  <2> QED
    BY <1>12, <2>1, <2>2, <2>3 DEF Assemble, Goes
<1>13. CASE WriteFile
  BY <1>13 DEF WriteFile, Goes
<1>14. CASE WriteFails
  BY <1>14 DEF WriteFails, Exits, exitOK, exitFatal, exitTransmit
<1>15. CASE WritePage
  BY <1>15 DEF WritePage, Exits, Goes, exitOK, exitFatal, exitTransmit
<1>16. CASE Transmit
  BY <1>16 DEF Transmit, Goes
<1>17. CASE Verdict
  <2>1. Code \in {exitSourceFailed, exitTransmit, exitIncomplete, exitOK}
    BY DEF Code
  <2>2. Code \in exitOK..exitTransmit
    BY <2>1 DEF exitOK, exitIncomplete, exitSourceFailed, exitTransmit
  <2> QED
    BY <1>17, <2>2 DEF Verdict, Exits
<1>18. CASE WatchdogFires
  BY <1>18 DEF WatchdogFires
<1>19. CASE WatchdogExits
  BY <1>19 DEF WatchdogExits, Exits, exitOK, exitTimeout, exitTransmit
<1>20. CASE DumpEnds
  BY <1>20 DEF DumpEnds
<1>21. CASE BeatEnds
  BY <1>21 DEF BeatEnds
<1>22. CASE DumpStarts
  BY <1>22 DEF DumpStarts
<1>23. CASE Tick
  <2>1. deadline' \in 0..Timeout /\ dogLeft' \in 0..(Timeout + Grace)
    BY <1>23 DEF Tick, Sooner
  <2> QED
    BY <1>23, <2>1 DEF Tick
<1>24. CASE DatabaseChanges
  BY <1>24 DEF DatabaseChanges
<1>25. CASE UNCHANGED vars
  BY <1>25 DEF vars
<1> QED
  BY <1>1, <1>2, <1>3, <1>4, <1>5, <1>6, <1>7, <1>8, <1>9, <1>10, <1>11, <1>12, <1>13, <1>14,
     <1>15, <1>16, <1>17, <1>18, <1>19, <1>20, <1>21, <1>22, <1>23, <1>24, <1>25
  DEF Next, Stages, After, Goroutine

\* Types hold in every state of a run, whatever the constants are.
THEOREM TypeCorrect == Spec => []TypeOK
<1>1. Spec => []TypeInv
  BY TypeInvInit, TypeInvNext, PTL DEF Spec
<1>2. TypeInv => TypeOK
  BY DEF TypeInv
<1> QED
  BY <1>1, <1>2, PTL

-----------------------------------------------------------------------------
(* The copy on disk, and what the operator allows to be sent.              *)

Reporting == {"write", "html", "transmit", "verdict"}

Copied ==
  /\ pc \in {"html", "transmit", "verdict"} => written = NumFormats
  /\ pc \in {"transmit", "verdict"} => page = opts.html
  /\ pc \in Scanning \union {"write", "html", "transmit"} => upload = "none"
  /\ pc \in Reporting /\ sockets = "error" => "services" \in failed
  /\ LocalCopyFirst

\* An upload starts at the end of the reports, and nothing that it depends on
\* changes after it.
LEMMA CopiedNext == TypeInv /\ Copied /\ [Next]_vars => Copied'
<1> SUFFICES ASSUME TypeInv, Copied, [Next]_vars PROVE Copied'
  OBVIOUS
<1> USE ScanRunConstants DEF TypeInv, TypeOK, FormatLeft, Scanning, Reporting, Copied, LocalCopyFirst,
    beside, host, result, products, hashing
<1>1. CASE SetupFails
  BY <1>1 DEF SetupFails, Exits
<1>2. CASE StartScan
  BY <1>2 DEF StartScan, Goes
<1>3. CASE Preflight
  BY <1>3 DEF Preflight, Goes, ScanFails
<1>4. CASE GetSource
  BY <1>4 DEF GetSource, Goes, ScanFails
<1>5. CASE Catalog
  BY <1>5 DEF Catalog, Goes
<1>6. CASE CatalogFails
  BY <1>6 DEF CatalogFails, Goes, ScanFails
<1>7. CASE HashStep
  BY <1>7 DEF HashStep
<1>8. CASE HashEnds
  BY <1>8 DEF HashEnds, Goes
<1>9. CASE Check
  BY <1>9 DEF Check, Goes
<1>10. CASE StopWatchdog
  BY <1>10 DEF StopWatchdog, Goes
<1>11. CASE Join
  BY <1>11 DEF Join, Exits, Goes
<1>12. CASE Assemble
  BY <1>12 DEF Assemble, Goes
<1>13. CASE WriteFile
  BY <1>13 DEF WriteFile, Goes
<1>14. CASE WriteFails
  BY <1>14 DEF WriteFails, Exits
<1>15. CASE WritePage
  BY <1>15 DEF WritePage, Exits, Goes
<1>16. CASE Transmit
  BY <1>16 DEF Transmit, Goes, MaySend
<1>17. CASE Verdict
  BY <1>17 DEF Verdict, Exits
<1>18. CASE WatchdogFires
  BY <1>18 DEF WatchdogFires
<1>19. CASE WatchdogExits
  BY <1>19 DEF WatchdogExits, Exits
<1>20. CASE DumpEnds
  BY <1>20 DEF DumpEnds
<1>21. CASE BeatEnds
  BY <1>21 DEF BeatEnds
<1>22. CASE DumpStarts
  BY <1>22 DEF DumpStarts
<1>23. CASE Tick
  BY <1>23 DEF Tick
<1>24. CASE DatabaseChanges
  BY <1>24 DEF DatabaseChanges
<1>25. CASE UNCHANGED vars
  BY <1>25 DEF vars
<1> QED
  BY <1>1, <1>2, <1>3, <1>4, <1>5, <1>6, <1>7, <1>8, <1>9, <1>10, <1>11, <1>12, <1>13, <1>14,
     <1>15, <1>16, <1>17, <1>18, <1>19, <1>20, <1>21, <1>22, <1>23, <1>24, <1>25
  DEF Next, Stages, After, Goroutine

\* The local reports are complete before the upload, whatever --format asks for,
\* and an inventory that lost a source is sent only if the operator allows it.
THEOREM LocalCopyFirstAlways == Spec => []LocalCopyFirst
<1>1. Init => Copied
  BY DEF Init, Copied, LocalCopyFirst, Reporting
<1>2. Copied => LocalCopyFirst
  BY DEF Copied
<1> QED
  BY <1>1, <1>2, TypeInvInit, TypeInvNext, CopiedNext, PTL DEF Spec

-----------------------------------------------------------------------------
(* Lost sources.                                                           *)

Noticed ==
  /\ \A s \in Sources : world[s] \in spell[s]
  /\ pc \in Reporting /\ ~opts.catalogers /\ (\E s \in Sources : Lost(s)) => failed # {}
  /\ LostSourceIsLoud

\* A database that was never seen empty or absent, and gave nothing, is a failed
\* source when the manifest is built.
LEMMA LostIsError ==
  ASSUME Noticed, NEW s \in Sources, Lost(s)
  PROVE  Status(s) = "error"
<1>1. world[s] \in {"unreadable", "full"} /\ s \notin found
  BY DEF Noticed, Lost
<1> QED
  BY <1>1 DEF Status

\* The verdict on the sources is the only place where a run forgets one, and
\* only that verdict leads to the exit codes a report was written under.
LEMMA NoticedNext == TypeInv /\ Noticed /\ [Next]_vars => Noticed'
<1> SUFFICES ASSUME TypeInv, Noticed, [Next]_vars PROVE Noticed'
  OBVIOUS
<1> USE ScanRunConstants DEF TypeInv, TypeOK, Reporting, Noticed, LostSourceIsLoud, Lost, Ended,
    beside, host, result, products, hashing
<1>1. CASE SetupFails
  BY <1>1 DEF SetupFails, Exits, exitOK, exitIncomplete, exitTransmit, exitFatal, exitTimeout, exitUsage
<1>2. CASE StartScan
  BY <1>2 DEF StartScan, Goes
<1>3. CASE Preflight
  BY <1>3 DEF Preflight, Goes, ScanFails
<1>4. CASE GetSource
  BY <1>4 DEF GetSource, Goes, ScanFails
<1>5. CASE Catalog
  BY <1>5 DEF Catalog, Goes
<1>6. CASE CatalogFails
  BY <1>6 DEF CatalogFails, Goes, ScanFails
<1>7. CASE HashStep
  BY <1>7 DEF HashStep
<1>8. CASE HashEnds
  BY <1>8 DEF HashEnds, Goes
<1>9. CASE Check
  BY <1>9 DEF Check, Goes
<1>10. CASE StopWatchdog
  BY <1>10 DEF StopWatchdog, Goes
<1>11. CASE Join
  <2>1. scanErr \in {"none", "deadline", "failed"}
    OBVIOUS
  <2>2. (pc' = "ended" /\ exit' \in {exitTimeout, exitFatal}) \/ pc' = "assemble"
    BY <1>11, <2>1 DEF Join, Exits, Goes
  <2> QED
    BY <1>11, <2>2 DEF Join, exitOK, exitIncomplete, exitTransmit, exitFatal, exitTimeout
<1>12. CASE Assemble
  <2>1. ASSUME NEW s \in Sources, Lost(s), ~opts.catalogers PROVE s \in failed'
    BY <1>12, <2>1, LostIsError DEF Assemble
  <2>2. (~opts.catalogers /\ \E s \in Sources : Lost(s)) => failed' # {}
    BY <2>1
  <2> QED
    BY <1>12, <2>2 DEF Assemble, Goes
<1>13. CASE WriteFile
  BY <1>13 DEF WriteFile, Goes
<1>14. CASE WriteFails
  BY <1>14 DEF WriteFails, Exits, exitOK, exitIncomplete, exitTransmit, exitFatal, exitTimeout, exitUsage
<1>15. CASE WritePage
  BY <1>15 DEF WritePage, Exits, Goes, exitOK, exitIncomplete, exitTransmit, exitFatal, exitTimeout, exitUsage
<1>16. CASE Transmit
  BY <1>16 DEF Transmit, Goes
<1>17. CASE Verdict
  <2>1. Code \in {exitOK, exitIncomplete, exitTransmit} => failed = {}
    BY DEF Code, exitOK, exitIncomplete, exitTransmit, exitSourceFailed
  <2> QED
    BY <1>17, <2>1 DEF Verdict, Exits
<1>18. CASE WatchdogFires
  BY <1>18 DEF WatchdogFires
<1>19. CASE WatchdogExits
  BY <1>19 DEF WatchdogExits, Exits, exitOK, exitIncomplete, exitTransmit, exitFatal, exitTimeout, exitUsage
<1>20. CASE DumpEnds
  BY <1>20 DEF DumpEnds
<1>21. CASE BeatEnds
  BY <1>21 DEF BeatEnds
<1>22. CASE DumpStarts
  BY <1>22 DEF DumpStarts
<1>23. CASE Tick
  BY <1>23 DEF Tick
<1>24. CASE DatabaseChanges
  <2>1. pc = "assemble" /\ pc' = "assemble"
    BY <1>24 DEF DatabaseChanges
  <2>2. \A s \in Sources : world'[s] \in spell'[s]
    BY <1>24 DEF DatabaseChanges
  <2> QED
    BY <2>1, <2>2
<1>25. CASE UNCHANGED vars
  BY <1>25 DEF vars
<1> QED
  BY <1>1, <1>2, <1>3, <1>4, <1>5, <1>6, <1>7, <1>8, <1>9, <1>10, <1>11, <1>12, <1>13, <1>14,
     <1>15, <1>16, <1>17, <1>18, <1>19, <1>20, <1>21, <1>22, <1>23, <1>24, <1>25
  DEF Next, Stages, After, Goroutine

\* A run that writes its reports and lost a source says so with exit 5, however
\* often the databases change while it runs.
THEOREM LostSourceIsLoudAlways == Spec => []LostSourceIsLoud
<1>1. Init => Noticed
  BY DEF Init, Noticed, LostSourceIsLoud, Reporting, Ended
<1>2. Noticed => LostSourceIsLoud
  BY DEF Noticed
<1> QED
  BY <1>1, <1>2, TypeInvInit, TypeInvNext, NoticedNext, PTL DEF Spec

-----------------------------------------------------------------------------
(* Exit 0.                                                                 *)

Answered ==
  /\ pc = "verdict" => IF opts.transmit THEN failed # {} \/ upload \in {"delivered", "kept"}
                                         ELSE upload = "none"
  /\ ExitOKMeansComplete

\* What the exit code 0 takes for granted when it is chosen.
LEMMA CodeOK ==
  ASSUME Code = exitOK, upload \in {"none", "delivered", "kept"}
  PROVE  failed = {} /\ upload # "kept" /\ ~incomplete
<1>1. CASE failed # {}
  BY <1>1 DEF Code, exitOK, exitSourceFailed
<1>2. CASE failed = {} /\ upload = "kept"
  BY <1>2 DEF Code, exitOK, exitTransmit
<1>3. CASE failed = {} /\ upload # "kept"
  BY <1>3 DEF Code, exitOK, exitIncomplete
<1> QED
  BY <1>1, <1>2, <1>3

\* Only the verdict chooses exit 0, and by then everything it stands for holds.
LEMMA AnsweredNext == TypeInv /\ Copied /\ Noticed /\ Answered /\ [Next]_vars => Answered'
<1> SUFFICES ASSUME TypeInv, Copied, Noticed, Answered, [Next]_vars PROVE Answered'
  OBVIOUS
<1> USE ScanRunConstants DEF TypeInv, TypeOK, Answered, ExitOKMeansComplete, Ended, Lost,
    beside, host, result, products, hashing
<1>1. CASE SetupFails
  BY <1>1 DEF SetupFails, Exits, exitOK, exitFatal, exitTimeout, exitUsage
<1>2. CASE StartScan
  BY <1>2 DEF StartScan, Goes
<1>3. CASE Preflight
  BY <1>3 DEF Preflight, Goes, ScanFails
<1>4. CASE GetSource
  BY <1>4 DEF GetSource, Goes, ScanFails
<1>5. CASE Catalog
  BY <1>5 DEF Catalog, Goes
<1>6. CASE CatalogFails
  BY <1>6 DEF CatalogFails, Goes, ScanFails
<1>7. CASE HashStep
  BY <1>7 DEF HashStep
<1>8. CASE HashEnds
  BY <1>8 DEF HashEnds, Goes
<1>9. CASE Check
  BY <1>9 DEF Check, Goes
<1>10. CASE StopWatchdog
  BY <1>10 DEF StopWatchdog, Goes
<1>11. CASE Join
  <2>1. scanErr \in {"none", "deadline", "failed"}
    OBVIOUS
  <2>2. (pc' = "ended" /\ exit' \in {exitTimeout, exitFatal}) \/ pc' = "assemble"
    BY <1>11, <2>1 DEF Join, Exits, Goes
  <2> QED
    BY <1>11, <2>2 DEF Join, exitOK, exitFatal, exitTimeout
<1>12. CASE Assemble
  BY <1>12 DEF Assemble, Goes
<1>13. CASE WriteFile
  BY <1>13 DEF WriteFile, Goes
<1>14. CASE WriteFails
  BY <1>14 DEF WriteFails, Exits, exitOK, exitFatal, exitTimeout, exitUsage
<1>15. CASE WritePage
  BY <1>15 DEF WritePage, Exits, Goes, exitOK, exitFatal, exitTimeout, exitUsage
<1>16. CASE Transmit
  <2>1. CASE MaySend
    BY <1>16, <2>1 DEF Transmit, Goes, MaySend
  <2>2. CASE ~MaySend
    BY <1>16, <2>2 DEF Transmit, Goes, MaySend, Copied, Scanning
  <2> QED
    BY <2>1, <2>2
<1>17. CASE Verdict
  <2>1. SUFFICES ASSUME Code = exitOK PROVE ExitOKMeansComplete'
    BY <1>17 DEF Verdict, Exits
  <2>2. failed = {} /\ upload # "kept" /\ ~incomplete
    BY <2>1, CodeOK
  <2>3. written = NumFormats /\ page = opts.html /\ sockets # "error"
    BY <1>17, <2>2 DEF Verdict, Copied, Reporting
  <2>4. opts.catalogers \/ \A s \in Sources : ~Lost(s)
    BY <1>17, <2>2 DEF Verdict, Noticed, Reporting
  <2>5. opts.transmit = (upload = "delivered")
    BY <1>17, <2>2 DEF Verdict
  <2> QED
    BY <1>17, <2>2, <2>3, <2>4, <2>5 DEF Verdict, Lost
<1>18. CASE WatchdogFires
  BY <1>18 DEF WatchdogFires
<1>19. CASE WatchdogExits
  BY <1>19 DEF WatchdogExits, Exits, exitOK, exitFatal, exitTimeout, exitUsage
<1>20. CASE DumpEnds
  BY <1>20 DEF DumpEnds
<1>21. CASE BeatEnds
  BY <1>21 DEF BeatEnds
<1>22. CASE DumpStarts
  BY <1>22 DEF DumpStarts
<1>23. CASE Tick
  BY <1>23 DEF Tick
<1>24. CASE DatabaseChanges
  BY <1>24 DEF DatabaseChanges
<1>25. CASE UNCHANGED vars
  BY <1>25 DEF vars
<1> QED
  BY <1>1, <1>2, <1>3, <1>4, <1>5, <1>6, <1>7, <1>8, <1>9, <1>10, <1>11, <1>12, <1>13, <1>14,
     <1>15, <1>16, <1>17, <1>18, <1>19, <1>20, <1>21, <1>22, <1>23, <1>24, <1>25
  DEF Next, Stages, After, Goroutine

\* Exit 0 means that everything the operator asked for is there.
THEOREM ExitOKMeansCompleteAlways == Spec => []ExitOKMeansComplete
<1>1. Init => Copied /\ Noticed /\ Answered
  BY DEF Init, Copied, LocalCopyFirst, Reporting, Noticed, LostSourceIsLoud, Ended, Answered,
         ExitOKMeansComplete
<1>2. Answered => ExitOKMeansComplete
  BY DEF Answered
<1> QED
  BY <1>1, <1>2, TypeInvInit, TypeInvNext, CopiedNext, NoticedNext, AnsweredNext, PTL DEF Spec

-----------------------------------------------------------------------------
(* The hashing pool and the report.                                        *)

\* While the context is not done, no file is lost on its way through the pool,
\* and the pool does not end before it has been through all of them.
Accounted ==
  /\ \A w \in Workers : at[w] \in {"idle", "gone"} => job[w] = {}
  /\ ~Expired =>
       /\ \A p \in Files : p \in unfed \union digests \union unreadable \/ \E w \in Workers : p \in job[w]
       /\ fed => unfed = {}
       /\ \A w \in Workers : at[w] = "gone" => fed
  /\ Files # {} /\ ~collecting => \A w \in Workers : at[w] = "gone"

\* A file goes from the feeder to a worker and from there to the caller.
LEMMA AccountedStep ==
  ASSUME Pool!PoolTypeOK, Accounted, Pool!PoolStep, UNCHANGED deadline
  PROVE  Accounted'
<1> USE DEF Accounted, Expired, Pool!PoolTypeOK
<1>1. ASSUME NEW w \in Workers, Pool!Feed(w) PROVE Accounted'
  BY <1>1 DEF Pool!Feed
<1>2. ASSUME NEW w \in Workers, Pool!Hash(w) PROVE Accounted'
  BY <1>2 DEF Pool!Hash
<1>3. ASSUME NEW w \in Workers, Pool!Collect(w) PROVE Accounted'
  BY <1>3 DEF Pool!Collect
<1>4. ASSUME NEW w \in Workers, Pool!WorkerEnds(w) PROVE Accounted'
  BY <1>4 DEF Pool!WorkerEnds
<1>5. CASE Pool!FeederEnds
  BY <1>5 DEF Pool!FeederEnds
<1>6. CASE Pool!CloseResults
  BY <1>6 DEF Pool!CloseResults
<1> QED
  BY <1>1, <1>2, <1>3, <1>4, <1>5, <1>6 DEF Pool!PoolStep

\* What the pool returns, in time, is every file.
LEMMA PoolReturnsAll ==
  ASSUME Pool!PoolTypeOK, Accounted, ~Expired, Files # {}, ~collecting
  PROVE  Files = digests \union unreadable
<1>1. \A w \in Workers : at[w] = "gone" /\ job[w] = {}
  BY DEF Accounted
<1>2. unfed = {}
  BY <1>1, ScanRunConstants DEF Accounted
<1>3. \A p \in Files : p \in digests \union unreadable
  BY <1>1, <1>2 DEF Accounted
<1> QED
  BY <1>3 DEF Pool!PoolTypeOK

Whole == opts.hash => incomplete \/ Files = digests \union unreadable

Hashed ==
  /\ Accounted
  /\ pc = "hash" => Files # {}
  /\ pc = "check" /\ ~Expired => Whole
  /\ pc \in {"stop", "join"} /\ scanErr = "none" => Whole
  /\ pc = "assemble" \/ pc \in Reporting \/ written > 0 => Whole

\* The pool changes in its own steps only, and a file is accounted for in time
\* or not at all.
LEMMA AccountedNext == TypeInv /\ Accounted /\ [Next]_vars => Accounted'
<1> SUFFICES ASSUME TypeInv, Accounted, [Next]_vars PROVE Accounted'
  OBVIOUS
<1>1. CASE HashStep
  BY <1>1, AccountedStep DEF HashStep, TypeInv, TypeOK
<1>2. CASE Tick
  <2>1. ~Expired' => ~Expired
    BY <1>2, ScanRunConstants DEF Tick, Sooner, Expired, TypeInv, TypeOK
  <2>2. UNCHANGED hashing
    BY <1>2 DEF Tick
  <2> QED
    BY <2>1, <2>2 DEF Accounted, hashing
<1>3. CASE UNCHANGED <<deadline, hashing>>
  BY <1>3 DEF Accounted, Expired, hashing
<1>4. CASE ~HashStep /\ ~Tick
  <2>1. UNCHANGED <<deadline, hashing>>
    BY <1>4 DEF Next, Stages, After, Goroutine, vars, SetupFails, StartScan, Preflight, GetSource,
      Catalog, CatalogFails, HashEnds, Check, StopWatchdog, Join, Assemble, WriteFile, WriteFails,
      WritePage, Transmit, Verdict, WatchdogFires, WatchdogExits, DumpEnds, BeatEnds, DumpStarts,
      DatabaseChanges
  <2> QED
    BY <2>1, <1>3
<1> QED
  BY <1>1, <1>2, <1>4

\* scan.Run returns an inventory only when its last look at the context finds\n\* time left, and from then on the inventory does not change.
LEMMA HashedNext == TypeInv /\ Hashed /\ [Next]_vars => Hashed'
<1> SUFFICES ASSUME TypeInv, Hashed, [Next]_vars PROVE Hashed'
  OBVIOUS
<1>0. Accounted'
  BY AccountedNext DEF Hashed
<1> USE ScanRunConstants DEF TypeInv, TypeOK, FormatLeft, Scanning, Reporting, Hashed, Whole, Expired,
    beside, host, result, products, hashing
<1>1. CASE SetupFails
  BY <1>1, <1>0 DEF SetupFails, Exits
<1>2. CASE StartScan
  BY <1>2, <1>0 DEF StartScan, Goes
<1>3. CASE Preflight
  BY <1>3, <1>0 DEF Preflight, Goes, ScanFails
<1>4. CASE GetSource
  BY <1>4, <1>0 DEF GetSource, Goes, ScanFails
<1>5. CASE Catalog
  <2>1. pc' = "check" => Whole'
    BY <1>5 DEF Catalog, Goes, Pool!PoolTypeOK
  <2> QED
    BY <1>5, <1>0, <2>1 DEF Catalog, Goes
<1>6. CASE CatalogFails
  BY <1>6, <1>0 DEF CatalogFails, Goes, ScanFails
<1>7. CASE HashStep
  BY <1>7, <1>0 DEF HashStep
<1>8. CASE HashEnds
  <2>1. ~Expired => Files = digests \union unreadable
    BY <1>8, PoolReturnsAll DEF HashEnds, Hashed
  <2> QED
    BY <1>8, <1>0, <2>1 DEF HashEnds, Goes
<1>9. CASE Check
  BY <1>9, <1>0 DEF Check, Goes
<1>10. CASE StopWatchdog
  BY <1>10, <1>0 DEF StopWatchdog, Goes
<1>11. CASE Join
  BY <1>11, <1>0 DEF Join, Exits, Goes
<1>12. CASE Assemble
  BY <1>12, <1>0 DEF Assemble, Goes
<1>13. CASE WriteFile
  BY <1>13, <1>0 DEF WriteFile, Goes
<1>14. CASE WriteFails
  BY <1>14, <1>0 DEF WriteFails, Exits
<1>15. CASE WritePage
  BY <1>15, <1>0 DEF WritePage, Exits, Goes
<1>16. CASE Transmit
  BY <1>16, <1>0 DEF Transmit, Goes
<1>17. CASE Verdict
  BY <1>17, <1>0 DEF Verdict, Exits
<1>18. CASE WatchdogFires
  BY <1>18, <1>0 DEF WatchdogFires
<1>19. CASE WatchdogExits
  BY <1>19, <1>0 DEF WatchdogExits, Exits
<1>20. CASE DumpEnds
  BY <1>20, <1>0 DEF DumpEnds
<1>21. CASE BeatEnds
  BY <1>21, <1>0 DEF BeatEnds
<1>22. CASE DumpStarts
  BY <1>22, <1>0 DEF DumpStarts
<1>23. CASE Tick
  BY <1>23, <1>0 DEF Tick, Sooner
<1>24. CASE DatabaseChanges
  BY <1>24, <1>0 DEF DatabaseChanges
<1>25. CASE UNCHANGED vars
  BY <1>25, <1>0 DEF vars
<1> QED
  BY <1>1, <1>2, <1>3, <1>4, <1>5, <1>6, <1>7, <1>8, <1>9, <1>10, <1>11, <1>12, <1>13, <1>14,
     <1>15, <1>16, <1>17, <1>18, <1>19, <1>20, <1>21, <1>22, <1>23, <1>24, <1>25
  DEF Next, Stages, After, Goroutine

\* No report of a scan that the deadline cut short: with --hash every file of a
\* report was hashed or could not be.
THEOREM ReportIsWholeAlways == Spec => []ReportIsWhole
<1>1. Init => Hashed
  <2> SUFFICES ASSUME Init PROVE Hashed
    OBVIOUS
  <2>1. Accounted
    BY ScanRunConstants DEF Init, Pool!PoolInit, Accounted
  <2> QED
    BY <2>1 DEF Init, Hashed, Reporting
<1>2. Hashed => ReportIsWhole
  BY DEF Hashed, Whole, ReportIsWhole
<1> QED
  BY <1>1, <1>2, TypeInvInit, TypeInvNext, HashedNext, PTL DEF Spec

=============================================================================
