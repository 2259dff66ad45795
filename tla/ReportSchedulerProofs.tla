----------------------- MODULE ReportSchedulerProofs -----------------------
(***************************************************************************)
(* Proofs about the scheduler of aggregate reports: every report has its   *)
(* entry in the heap, no file is forgotten, as long as nothing fails no    *)
(* report is early and each record is reported once, and a TLS record is   *)
(* reported again only after a crash.                                      *)
(***************************************************************************)
EXTENDS ReportScheduler, FiniteSetTheorems, TLAPS

-----------------------------------------------------------------------------
(* The invariants                                                          *)

Path == [key : Keys, policy : Policies \cup {NoPolicy}, created : Nat, interval : Intervals]
Report == [paths : SUBSET Path, created : Nat, interval : Intervals, size : Nat]

FileType == [records : SUBSET (1..MaxEvents), readable : BOOLEAN]
JobType == [key : Keys, paths : SUBSET Path, sent : BOOLEAN]

\* The type of the variables.
ReportType ==
  /\ now \in Nat /\ draining \in BOOLEAN
  /\ IsABag(main) /\ DOMAIN main \subseteq [key : Keys, due : Nat]
  /\ DOMAIN reports \subseteq Keys /\ reports \in [DOMAIN reports -> Report]
  /\ DOMAIN files \subseteq Path /\ IsFiniteSet(DOMAIN files)
  /\ files \in [DOMAIN files -> FileType]
  /\ IsABag(jobs) /\ DOMAIN jobs \subseteq JobType
  /\ events \in 0..MaxEvents /\ sent \in [1..MaxEvents -> Nat] /\ dropped \subseteq 1..MaxEvents
  /\ crashes \in Nat /\ errors \in Nat /\ cancels \in Nat

\* Every entry of the heap is the one entry of a report, at the end of its interval.
EntriesMatch ==
  \A e \in DOMAIN main :
    main[e] = 1 /\ e.key \in DOMAIN reports /\ e.due = DueOf(reports[e.key])

\* The files of a report are there and carry its key and its interval.
ReportsMatch ==
  \A key \in DOMAIN reports :
    /\ reports[key].paths # {}
    /\ \A path \in reports[key].paths :
         /\ path \in DOMAIN files /\ path.key = key
         /\ path.created = reports[key].created /\ path.interval = reports[key].interval

\* The files of a job are there, are due, and are older than those of the report
\* its key is filling now.
JobsMatch ==
  \A job \in DOMAIN jobs :
    /\ jobs[job] = 1 /\ job.paths # {}
    /\ \A path \in job.paths :
         /\ path \in DOMAIN files /\ path.key = job.key /\ DueOf(path) <= now
         /\ job.key \in DOMAIN reports => DueOf(path) < DueOf(reports[job.key])

\* No two jobs have a file in common.
JobsApart ==
  \A i, j \in DOMAIN jobs : i # j => i.paths \cap j.paths = {}

\* Files parse, and a record is in one of them.
FilesMatch ==
  /\ \A p \in DOMAIN files : files[p].readable /\ files[p].records \subseteq 1..events
  /\ \A p, q \in DOMAIN files : p # q => files[p].records \cap files[q].records = {}

\* A record is reported at most once, and is left on disk then only until the
\* job that reported it removes its files; a job that is done with its report
\* leaves no record unreported.
RecordsMatch ==
  /\ \A n \in 1..MaxEvents : sent[n] <= 1 /\ (n > events => sent[n] = 0)
  /\ \A n \in 1..events : \/ sent[n] > 0 \/ n \in dropped
                          \/ \E p \in DOMAIN files : n \in files[p].records
  /\ \A p \in DOMAIN files : \A n \in files[p].records :
       sent[n] = 1 => \E job \in DOMAIN jobs : job.sent /\ p \in job.paths
  /\ \A job \in DOMAIN jobs : job.sent =>
       \A p \in job.paths : \A n \in files[p].records : sent[n] = 1 \/ n \in dropped

\* What holds as long as nothing has failed.
Sound == EntriesMatch /\ ReportsMatch /\ JobsMatch /\ JobsApart /\ FilesMatch /\ RecordsMatch

ReportInv == ReportType /\ ScheduledInTime /\ FilesAccounted /\ (NoStaleEntries => Sound)

-----------------------------------------------------------------------------
(* Bags, and functions with a value added or left out                      *)

\* One more copy of x.
LEMMA BagAdd ==
  ASSUME NEW B, IsABag(B), NEW x
  PROVE  /\ IsABag(Plus(B, x))
         /\ DOMAIN Plus(B, x) = DOMAIN B \cup {x}
         /\ \A y \in DOMAIN B : y # x => Plus(B, x)[y] = B[y]
         /\ x \notin DOMAIN B => Plus(B, x)[x] = 1
BY DEF IsABag, Plus, (+), SetToBag

\* One copy of x less.
LEMMA BagTake ==
  ASSUME NEW B, IsABag(B), NEW x \in DOMAIN B
  PROVE  /\ IsABag(Less(B, x))
         /\ DOMAIN Less(B, x) \subseteq DOMAIN B
         /\ DOMAIN B \ {x} \subseteq DOMAIN Less(B, x)
         /\ B[x] = 1 => x \notin DOMAIN Less(B, x)
         /\ \A y \in DOMAIN B : y # x => Less(B, x)[y] = B[y]
<1> DEFINE C == [e \in DOMAIN B |-> IF e \in {x} THEN B[e] - 1 ELSE B[e]]
           D == {d \in DOMAIN B : C[d] > 0}
<1>1. Less(B, x) = [e \in D |-> C[e]]
  BY DEF Less, (-), SetToBag
<1>2. \A e \in DOMAIN B : B[e] \in Nat /\ B[e] > 0
  BY DEF IsABag
<1>3. /\ \A e \in DOMAIN B : e # x => C[e] = B[e]
      /\ C[x] = B[x] - 1
  OBVIOUS
<1>4. \A e \in D : C[e] \in Nat /\ C[e] > 0
  BY <1>2, <1>3
<1>5. D \subseteq DOMAIN B /\ DOMAIN B \ {x} \subseteq D /\ (B[x] = 1 => x \notin D)
  BY <1>2, <1>3
<1> HIDE DEF C, D
<1>6. QED
  BY <1>1, <1>3, <1>4, <1>5 DEF IsABag

\* The empty bag.
LEMMA BagEmpty == IsABag(EmptyBag) /\ DOMAIN EmptyBag = {}
BY DEF IsABag, EmptyBag, SetToBag

\* With keeps the type of a function.
LEMMA WithType ==
  ASSUME NEW S, NEW f, f \in [DOMAIN f -> S], NEW k, NEW v \in S
  PROVE  With(f, k, v) \in [DOMAIN f \cup {k} -> S]
BY DEF With

\* Without keeps the type of a function.
LEMMA WithoutType ==
  ASSUME NEW S, NEW f, f \in [DOMAIN f -> S], NEW K
  PROVE  Without(f, K) \in [DOMAIN f \ K -> S]
BY DEF Without

-----------------------------------------------------------------------------
(* Events                                                                  *)

\* What an event does, of either kind: it opens a report, adds a record to a file
\* of one, or opens a file for a policy the report does not have.
Event(key, policy, interval) ==
  /\ NextEvent
  /\ \/ FirstRecord(key, policy, interval)
     \/ /\ key \in DOMAIN reports /\ UNCHANGED main
        /\ \/ \E path \in reports[key].paths : json_append(key, reports[key], path, events + 1)
           \/ /\ \A path \in reports[key].paths : path.policy # policy
              /\ json_write(key, reports[key],
                            build_report_path(key, policy, reports[key].created,
                                              reports[key].interval), events + 1)

\* schedule_dmarc and schedule_tls are such events.
LEMMA ScheduleIsEvent ==
  /\ \A key \in Dmarc, interval \in Intervals :
       schedule_dmarc(key, interval) => Event(key, NoPolicy, interval)
  /\ \A key \in Tls, interval \in Intervals, policy \in Policies :
       schedule_tls(key, policy, interval) => Event(key, policy, interval)
<1>1. \A key \in Dmarc, interval \in Intervals :
        schedule_dmarc(key, interval) => Event(key, NoPolicy, interval)
  BY DEF schedule_dmarc, Event
<1>2. ASSUME NEW key \in Tls, NEW interval \in Intervals, NEW policy \in Policies,
             schedule_tls(key, policy, interval)
      PROVE  Event(key, policy, interval)
  <2>1. CASE FirstRecord(key, policy, interval)
    BY <1>2, <2>1 DEF schedule_tls, Event
  <2>2. CASE ~FirstRecord(key, policy, interval)
    BY <1>2, <2>2 DEF schedule_tls, Event
  <2>3. QED  BY <2>1, <2>2
<1>3. QED  BY <1>1, <1>2

\* The steps, with the two kinds of event taken together.
LEMMA StepCases ==
  ASSUME [Next]_vars
  PROVE  \/ UNCHANGED vars \/ Tick \/ Timeout \/ NextDue \/ Crash
         \/ \E job \in DOMAIN jobs : \/ generate_dmarc_report(job) \/ generate_tls_report(job)
                                     \/ Cleanup(job)
         \/ \E key \in Keys, interval \in Intervals, policy \in Policies \cup {NoPolicy} :
              Event(key, policy, interval)
         \/ \E key \in Keys : Cancel(key)
BY ScheduleIsEvent DEF Next, Work, BagToSet, Keys

\* The current interval has not ended.
LEMMA IntervalIsOpen ==
  ASSUME now \in Nat, NEW interval \in Intervals
  PROVE  to_timestamp(interval) \in Nat /\ to_timestamp(interval) + interval > now
<1>1. interval \in Nat /\ interval > 0
  BY ReportSchedulerAssumption
<1>2. now % interval \in 0..(interval - 1) /\ now % interval <= now
  BY <1>1
<1>3. QED  BY <1>1, <1>2 DEF to_timestamp

-----------------------------------------------------------------------------
(* Types                                                                   *)

\* json_write keeps the types of what it changes.
LEMMA WriteTypes ==
  ASSUME ReportType, NEW key \in Keys, NEW report \in Report, NEW path \in Path,
         NEW n \in 1..MaxEvents, json_write(key, report, path, n)
  PROVE  /\ DOMAIN reports' \subseteq Keys /\ reports' \in [DOMAIN reports' -> Report]
         /\ DOMAIN files' \subseteq Path /\ IsFiniteSet(DOMAIN files')
         /\ files' \in [DOMAIN files' -> FileType]
         /\ errors' \in Nat /\ dropped' \subseteq 1..MaxEvents
<1>1. IsFiniteSet(DOMAIN files \cup {path})
  BY FS_AddElement DEF ReportType
<1>2. files \in [DOMAIN files -> FileType] /\ reports \in [DOMAIN reports -> Report]
  BY DEF ReportType, FileType
<1>3. CASE /\ files' = With(files, path, [records |-> {n}, readable |-> TRUE])
           /\ reports' = With(reports, key, [report EXCEPT !.paths = @ \cup {path},
                                                            !.size = @ + 1])
           /\ UNCHANGED <<errors, dropped>>
  <2> DEFINE paths == report.paths \cup {path}
             size == report.size + 1
             more == [report EXCEPT !.paths = paths, !.size = size]
  <2>1. paths \in SUBSET Path /\ size \in Nat
    BY DEF Report
  <2>2. reports' = With(reports, key, more)
    BY <1>3
  <2> HIDE DEF paths, size
  <2>7. more \in Report
    BY <2>1 DEF Report
  <2> HIDE DEF more
  <2>3. [records |-> {n}, readable |-> TRUE] \in FileType
    BY DEF FileType
  <2>4. reports' \in [DOMAIN reports \cup {key} -> Report]
    BY <1>2, <2>2, <2>7, WithType
  <2>5. files' \in [DOMAIN files \cup {path} -> FileType]
    BY <1>2, <1>3, <2>3, WithType
  <2>6. QED  BY <1>1, <1>3, <2>4, <2>5 DEF ReportType
<1>4. CASE /\ errors' = errors + 1
           /\ dropped' = dropped \cup {n}
           /\ files' \in {files, With(files, path, [records |-> {}, readable |-> FALSE])}
           /\ reports' = IF report.paths = {} THEN Without(reports, {key})
                         ELSE With(reports, key, report)
  <2>1. [records |-> {}, readable |-> FALSE] \in FileType
    BY DEF FileType
  <2>2. \/ reports' \in [DOMAIN reports \cup {key} -> Report]
        \/ reports' \in [DOMAIN reports \ {key} -> Report]
    BY <1>2, <1>4, WithType, WithoutType
  <2>8. With(files, path, [records |-> {}, readable |-> FALSE])
           \in [DOMAIN files \cup {path} -> FileType]
    BY <1>2, <2>1, WithType
  <2>3. \/ files' = files
        \/ files' \in [DOMAIN files \cup {path} -> FileType]
    BY <1>4, <2>8
  <2>4. DOMAIN reports' \subseteq Keys /\ reports' \in [DOMAIN reports' -> Report]
    BY <2>2 DEF ReportType
  <2>5. /\ DOMAIN files' \subseteq Path /\ IsFiniteSet(DOMAIN files')
        /\ files' \in [DOMAIN files' -> FileType]
    BY <1>1, <1>2, <2>3 DEF ReportType
  <2>6. errors' \in Nat /\ dropped' \subseteq 1..MaxEvents
    BY <1>4 DEF ReportType
  <2>7. QED  BY <2>4, <2>5, <2>6
<1>5. QED  BY <1>3, <1>4 DEF json_write

\* json_append keeps the types of what it changes.
LEMMA AppendTypes ==
  ASSUME ReportType, NEW key \in DOMAIN reports, NEW path \in Path,
         NEW n \in 1..MaxEvents, json_append(key, reports[key], path, n)
  PROVE  /\ DOMAIN reports' \subseteq Keys /\ reports' \in [DOMAIN reports' -> Report]
         /\ DOMAIN files' \subseteq Path /\ IsFiniteSet(DOMAIN files')
         /\ files' \in [DOMAIN files' -> FileType]
         /\ errors' \in Nat /\ dropped' \subseteq 1..MaxEvents
<1>1. CASE /\ path \in DOMAIN files
           /\ files' = [files EXCEPT ![path].records = @ \cup {n}]
           /\ reports' = [reports EXCEPT ![key].size = @ + 1]
           /\ UNCHANGED <<errors, dropped>>
  <2> DEFINE size == reports[key].size + 1
  <2>1. size \in Nat /\ reports[key] \in Report
    BY DEF ReportType, Report
  <2> HIDE DEF size
  <2>2. [reports[key] EXCEPT !.size = size] \in Report
    BY <2>1 DEF Report
  <2>3. [files[path] EXCEPT !.records = @ \cup {n}] \in FileType
    BY <1>1 DEF ReportType, FileType
  <2>4. reports' = [reports EXCEPT ![key] = [reports[key] EXCEPT !.size = size]]
    BY <1>1 DEF size
  <2>5. QED  BY <1>1, <2>2, <2>3, <2>4 DEF ReportType, FileType
<1>2. CASE /\ path \in DOMAIN files
           /\ errors' = errors + 1
           /\ dropped' = dropped \cup {n}
           /\ \E readable \in {FALSE, files[path].readable} :
                files' = [files EXCEPT ![path].readable = readable]
           /\ UNCHANGED reports
  <2>1. PICK readable \in {FALSE, files[path].readable} :
          files' = [files EXCEPT ![path].readable = readable]
    BY <1>2
  <2>2. [files[path] EXCEPT !.readable = readable] \in FileType
    BY <1>2 DEF ReportType, FileType
  <2>3. QED  BY <1>2, <2>1, <2>2 DEF ReportType, FileType
<1>3. QED  BY <1>1, <1>2 DEF json_append, ReportType, FileType

\* An event keeps the types.
LEMMA EventTypes ==
  ASSUME ReportType, NEW key \in Keys, NEW interval \in Intervals,
         NEW policy \in Policies \cup {NoPolicy}, Event(key, policy, interval)
  PROVE  ReportType'
<1> DEFINE created == to_timestamp(interval)
           report == [paths |-> {}, created |-> created, interval |-> interval, size |-> 0]
<1>1. events + 1 \in 1..MaxEvents
  BY ReportSchedulerAssumption DEF Event, NextEvent, ReportType
<1>2. /\ DOMAIN reports' \subseteq Keys /\ reports' \in [DOMAIN reports' -> Report]
      /\ DOMAIN files' \subseteq Path /\ IsFiniteSet(DOMAIN files')
      /\ files' \in [DOMAIN files' -> FileType]
      /\ errors' \in Nat /\ dropped' \subseteq 1..MaxEvents
      /\ IsABag(main') /\ DOMAIN main' \subseteq [key : Keys, due : Nat]
  <2>1. CASE FirstRecord(key, policy, interval)
    <3>1. created \in Nat /\ interval \in Nat
      BY IntervalIsOpen, ReportSchedulerAssumption DEF ReportType
    <3>2. report \in Report /\ build_report_path(key, policy, created, interval) \in Path
      BY <3>1 DEF Report, Path, build_report_path
    <3>3. Entry(key, created + interval) \in [key : Keys, due : Nat]
      BY <3>1 DEF Entry
    <3>4. /\ main' = Plus(main, Entry(key, created + interval))
          /\ json_write(key, report, build_report_path(key, policy, created, interval), events + 1)
      BY <2>1 DEF FirstRecord
    <3>7. IsABag(main) /\ DOMAIN main \subseteq [key : Keys, due : Nat]
      BY DEF ReportType
    <3>8. /\ IsABag(Plus(main, Entry(key, created + interval)))
          /\ DOMAIN Plus(main, Entry(key, created + interval))
               = DOMAIN main \cup {Entry(key, created + interval)}
      BY <3>7, BagAdd
    <3>5. IsABag(main') /\ DOMAIN main' \subseteq [key : Keys, due : Nat]
      BY <3>3, <3>4, <3>7, <3>8
    <3> HIDE DEF created, report
    <3>6. QED  BY <1>1, <3>2, <3>4, <3>5, WriteTypes
  <2>2. CASE /\ key \in DOMAIN reports /\ UNCHANGED main
             /\ \E path \in reports[key].paths : json_append(key, reports[key], path, events + 1)
    <3>1. PICK path \in reports[key].paths : json_append(key, reports[key], path, events + 1)
      BY <2>2
    <3>2. path \in Path
      BY <2>2 DEF ReportType, Report
    <3>3. QED  BY <1>1, <2>2, <3>1, <3>2, AppendTypes DEF ReportType
  <2>3. CASE /\ key \in DOMAIN reports /\ UNCHANGED main
             /\ json_write(key, reports[key],
                           build_report_path(key, policy, reports[key].created,
                                             reports[key].interval), events + 1)
    <3>1. /\ reports[key] \in Report
          /\ build_report_path(key, policy, reports[key].created, reports[key].interval) \in Path
      BY <2>3 DEF ReportType, Report, Path, build_report_path
    <3>2. QED  BY <1>1, <2>3, <3>1, WriteTypes DEF ReportType
  <2>4. QED  BY <2>1, <2>2, <2>3 DEF Event
<1>3. /\ now' = now /\ draining' = draining /\ jobs' = jobs /\ sent' = sent
      /\ crashes' = crashes /\ cancels' = cancels /\ events' = events + 1
  BY DEF Event, NextEvent
<1> HIDE DEF created, report
<1>4. QED  BY <1>1, <1>2, <1>3 DEF ReportType, FileType

\* The job made of a report.
LEMMA JobTypes ==
  ASSUME ReportType, NEW key \in DOMAIN reports
  PROVE  Job(key) \in JobType
BY DEF ReportType, Report, Job, JobType

\* next_due keeps the types.
LEMMA DueTypes ==
  ASSUME ReportType, NextDue
  PROVE  ReportType'
<1>1. CASE \E e \in FirstEntries :
             /\ main' = Less(main, e)
             /\ \/ /\ e.key \in DOMAIN reports
                   /\ jobs' = Plus(jobs, Job(e.key))
                   /\ reports' = Without(reports, {e.key})
                   /\ UNCHANGED draining
                \/ /\ e.key \notin DOMAIN reports
                   /\ draining' = FALSE
                   /\ UNCHANGED <<jobs, reports>>
  <2>1. PICK e \in FirstEntries :
             /\ main' = Less(main, e)
             /\ \/ /\ e.key \in DOMAIN reports
                   /\ jobs' = Plus(jobs, Job(e.key))
                   /\ reports' = Without(reports, {e.key})
                   /\ UNCHANGED draining
                \/ /\ e.key \notin DOMAIN reports
                   /\ draining' = FALSE
                   /\ UNCHANGED <<jobs, reports>>
    BY <1>1
  <2>2. IsABag(main') /\ DOMAIN main' \subseteq [key : Keys, due : Nat]
    BY <2>1, BagTake DEF FirstEntries, BagToSet, ReportType
  <2>8. IsABag(jobs) /\ DOMAIN jobs \subseteq JobType
    BY DEF ReportType, JobType
  <2>9. \A job : IsABag(Plus(jobs, job)) /\ DOMAIN Plus(jobs, job) = DOMAIN jobs \cup {job}
    BY <2>8, BagAdd
  <2>3. IsABag(jobs') /\ DOMAIN jobs' \subseteq JobType
    BY <2>1, <2>8, <2>9, JobTypes
  <2>10. reports \in [DOMAIN reports -> Report] /\ DOMAIN reports \subseteq Keys
    BY DEF ReportType
  <2>11. Without(reports, {e.key}) \in [DOMAIN reports \ {e.key} -> Report]
    BY <2>10, WithoutType
  <2>4. DOMAIN reports' \subseteq Keys /\ reports' \in [DOMAIN reports' -> Report]
    BY <2>1, <2>10, <2>11
  <2>5. draining' \in BOOLEAN
    BY <2>1 DEF ReportType
  <2>6. UNCHANGED <<now, files, ghosts, bounds>>
    BY DEF NextDue
  <2>7. QED  BY <2>2, <2>3, <2>4, <2>5, <2>6 DEF ReportType, JobType, ghosts, bounds
<1>2. CASE draining' = FALSE /\ UNCHANGED <<main, jobs, reports>>
  BY <1>2 DEF NextDue, ReportType, ghosts, bounds
<1>3. QED  BY <1>1, <1>2 DEF NextDue

\* The records of files are records.
LEMMA RecordsTypes ==
  ASSUME ReportType, NEW paths \in SUBSET DOMAIN files
  PROVE  RecordsOf(paths) \subseteq 1..MaxEvents /\ IsFiniteSet(RecordsOf(paths))
<1>1. RecordsOf(paths) \subseteq 1..MaxEvents
  BY DEF RecordsOf, ReportType, FileType
<1>2. IsFiniteSet(1..MaxEvents)
  BY FS_Interval, ReportSchedulerAssumption
<1>3. QED  BY <1>1, <1>2, FS_Subset

\* Marking a job as sent, as an effect on the bag.
LEMMA SentJobs ==
  ASSUME ReportType, NEW job \in DOMAIN jobs
  PROVE  /\ [job EXCEPT !.sent = TRUE] \in JobType
         /\ [job EXCEPT !.sent = TRUE].paths = job.paths
         /\ [job EXCEPT !.sent = TRUE].key = job.key
         /\ [job EXCEPT !.sent = TRUE].sent
         /\ IsABag(Sent(job)) /\ DOMAIN Sent(job) \subseteq JobType
         /\ DOMAIN Sent(job) \subseteq DOMAIN jobs \cup {[job EXCEPT !.sent = TRUE]}
         /\ (DOMAIN jobs \ {job}) \cup {[job EXCEPT !.sent = TRUE]} \subseteq DOMAIN Sent(job)
<1>1. job \in JobType /\ IsABag(jobs) /\ DOMAIN jobs \subseteq JobType
  BY DEF ReportType
<1> DEFINE done == [job EXCEPT !.sent = TRUE]
           rest == Less(jobs, job)
<1>2. /\ done \in JobType
      /\ done.paths = job.paths /\ done.key = job.key /\ done.sent
  BY <1>1 DEF JobType
<1>3. /\ IsABag(rest) /\ DOMAIN rest \subseteq DOMAIN jobs
      /\ DOMAIN jobs \ {job} \subseteq DOMAIN rest
  BY BagTake DEF ReportType
<1>4. Sent(job) = Plus(rest, done)
  BY DEF Sent
<1> HIDE DEF done, rest
<1>5. IsABag(Sent(job)) /\ DOMAIN Sent(job) = DOMAIN rest \cup {done}
  BY <1>3, <1>4, BagAdd
<1>6. DOMAIN Sent(job) \subseteq JobType
  BY <1>1, <1>2, <1>3, <1>5
<1>7. QED  BY <1>2, <1>3, <1>5, <1>6 DEF done

\* The worker pool keeps the types.
LEMMA WorkTypes ==
  ASSUME ReportType, NEW job \in DOMAIN jobs,
         generate_dmarc_report(job) \/ generate_tls_report(job) \/ Cleanup(job)
  PROVE  ReportType'
<1>1. CASE SendReport(job) /\ UNCHANGED <<now, main, reports, draining, files, events, bounds>>
  <2>1. RecordsOf(Readable(job)) \subseteq 1..MaxEvents
    BY RecordsTypes DEF Readable
  <2>5. jobs' = Sent(job) /\ DOMAIN jobs \subseteq JobType
    BY <1>1 DEF SendReport, ReportType
  <2>2. IsABag(jobs') /\ DOMAIN jobs' \subseteq JobType
    BY <2>5, SentJobs
  <2>3. sent' \in [1..MaxEvents -> Nat] /\ dropped' \subseteq 1..MaxEvents
    BY <1>1, <2>1 DEF SendReport, ReportType
  <2>4. QED  BY <1>1, <2>2, <2>3 DEF ReportType, bounds
<1>2. CASE /\ jobs' \in {Less(jobs, job), Sent(job)}
           /\ files' \in {files, Without(files, job.paths)}
           /\ UNCHANGED <<now, main, reports, draining, ghosts, bounds>>
  <2>5. /\ IsABag(jobs) /\ DOMAIN jobs \subseteq JobType
        /\ files \in [DOMAIN files -> FileType]
    BY DEF ReportType
  <2>6. IsABag(Less(jobs, job)) /\ DOMAIN Less(jobs, job) \subseteq DOMAIN jobs
    BY <2>5, BagTake
  <2>1. IsABag(jobs') /\ DOMAIN jobs' \subseteq JobType
    BY <1>2, <2>5, <2>6, SentJobs
  <2>7. Without(files, job.paths) \in [DOMAIN files \ job.paths -> FileType]
    BY <2>5, WithoutType
  <2>2. DOMAIN files' \subseteq DOMAIN files /\ files' \in [DOMAIN files' -> FileType]
    BY <1>2, <2>5, <2>7
  <2>3. IsFiniteSet(DOMAIN files')
    BY <2>2, FS_Subset DEF ReportType
  <2>4. QED  BY <1>2, <2>1, <2>2, <2>3 DEF ReportType, FileType, ghosts, bounds
<1>3. QED
  BY <1>1, <1>2 DEF generate_dmarc_report, generate_tls_report, Cleanup, ghosts

\* The entries a restart makes, as an effect on the heap.
LEMMA LoadedBag ==
  ASSUME NEW onDisk \in SUBSET Path, IsFiniteSet(onDisk), NEW first
  PROVE  /\ IsABag(LoadedEntries(onDisk, first))
         /\ DOMAIN LoadedEntries(onDisk, first)
              = {Entry(path.key, DueOf(path)) : path \in Pushed(onDisk, first)}
         /\ DOMAIN LoadedEntries(onDisk, first) \subseteq [key : Keys, due : Nat]
<1> DEFINE P == Pushed(onDisk, first)
           E == {Entry(path.key, DueOf(path)) : path \in P}
           copies(e) == {path \in P : Entry(path.key, DueOf(path)) = e}
<1>1. P \subseteq onDisk
  BY DEF Pushed
<1>2. LoadedEntries(onDisk, first) = [e \in E |-> Cardinality(copies(e))]
  BY DEF LoadedEntries
<1>3. ASSUME NEW e \in E
      PROVE  Cardinality(copies(e)) \in Nat /\ Cardinality(copies(e)) > 0
  <2>1. IsFiniteSet(copies(e))
    BY <1>1, FS_Subset
  <2>2. copies(e) # {}
    OBVIOUS
  <2> HIDE DEF copies
  <2>3. Cardinality(copies(e)) \in Nat /\ Cardinality(copies(e)) # 0
    BY <2>1, <2>2, FS_CardinalityType, FS_EmptySet
  <2>4. QED  BY <2>3
<1>4. \A path \in P : Entry(path.key, DueOf(path)) \in [key : Keys, due : Nat]
  <2> SUFFICES ASSUME NEW path \in P
               PROVE  Entry(path.key, DueOf(path)) \in [key : Keys, due : Nat]
    OBVIOUS
  <2>1. path \in Path
    BY <1>1
  <2>2. path.key \in Keys /\ path.created \in Nat /\ path.interval \in Nat
    BY <2>1, ReportSchedulerAssumption DEF Path
  <2>3. QED  BY <2>2 DEF Entry, DueOf
<1>5. E \subseteq [key : Keys, due : Nat]
  BY <1>4
<1> HIDE DEF copies, E
<1>6. QED  BY <1>2, <1>3, <1>5 DEF IsABag, E

\* What a restart finds, and what it makes of it.
LEMMA CrashEffect ==
  ASSUME ReportType, Crash
  PROVE  \E onDisk, first :
           LET keys == {path.key : path \in onDisk}
           IN /\ onDisk \subseteq DOMAIN files
              /\ \A key \in keys : first[key] \in onDisk /\ first[key].key = key
              /\ files' = Without(files, DOMAIN files \ onDisk)
              /\ reports' = [key \in keys |-> Loaded(onDisk, key, first[key])]
              /\ main' = LoadedEntries(onDisk, first)
<1>1. PICK empty \in SUBSET {p \in DOMAIN files : files[p].records = {}} :
        LET onDisk == DOMAIN files \ empty
            keys == {path.key : path \in onDisk}
        IN \E first \in [keys -> onDisk] :
             /\ \A key \in keys : first[key].key = key
             /\ files' = Without(files, empty)
             /\ reports' = [key \in keys |-> Loaded(onDisk, key, first[key])]
             /\ main' = LoadedEntries(onDisk, first)
  BY DEF Crash
<1> DEFINE onDisk == DOMAIN files \ empty
           keys == {path.key : path \in onDisk}
<1>2. PICK first \in [keys -> onDisk] :
             /\ \A key \in keys : first[key].key = key
             /\ files' = Without(files, empty)
             /\ reports' = [key \in keys |-> Loaded(onDisk, key, first[key])]
             /\ main' = LoadedEntries(onDisk, first)
  BY <1>1
<1>3. DOMAIN files \ onDisk = empty /\ onDisk \in SUBSET DOMAIN files
  OBVIOUS
<1>4. \A key \in keys : first[key] \in onDisk
  OBVIOUS
<1> HIDE DEF onDisk
<1>5. QED  BY <1>2, <1>3, <1>4

\* What a restart makes of the files of a key.
LEMMA LoadedTypes ==
  ASSUME ReportType, NEW onDisk \in SUBSET DOMAIN files, NEW key, NEW first \in onDisk
  PROVE  Loaded(onDisk, key, first) \in Report
<1> DEFINE paths == IF key \in Tls THEN PathsOf(onDisk, key) ELSE {first}
<1>1. paths \in SUBSET DOMAIN files
  BY DEF PathsOf
<1>2. DOMAIN files \subseteq Path /\ first \in Path
  BY DEF ReportType
<1>3. Loaded(onDisk, key, first)
        = [paths |-> paths, created |-> first.created, interval |-> first.interval,
           size |-> Cardinality(RecordsOf(paths))]
  BY DEF Loaded
<1> HIDE DEF paths
<1>4. Cardinality(RecordsOf(paths)) \in Nat
  BY <1>1, RecordsTypes, FS_CardinalityType
<1>5. QED  BY <1>1, <1>2, <1>3, <1>4 DEF Report, Path

\* A restart keeps the types.
LEMMA CrashTypes ==
  ASSUME ReportType, Crash
  PROVE  ReportType'
<1>1. PICK onDisk, first :
        LET keys == {path.key : path \in onDisk}
        IN /\ onDisk \subseteq DOMAIN files
           /\ \A key \in keys : first[key] \in onDisk /\ first[key].key = key
           /\ files' = Without(files, DOMAIN files \ onDisk)
           /\ reports' = [key \in keys |-> Loaded(onDisk, key, first[key])]
           /\ main' = LoadedEntries(onDisk, first)
  BY CrashEffect
<1> DEFINE keys == {path.key : path \in onDisk}
<1>2. /\ DOMAIN files \subseteq Path /\ IsFiniteSet(DOMAIN files)
      /\ files \in [DOMAIN files -> FileType]
  BY DEF ReportType
<1>3. onDisk \subseteq Path /\ IsFiniteSet(onDisk)
  BY <1>1, <1>2, FS_Subset
<1>4. IsABag(main') /\ DOMAIN main' \subseteq [key : Keys, due : Nat]
  BY <1>1, <1>3, LoadedBag
<1>5. keys \subseteq Keys
  BY <1>3 DEF Path
<1>6. \A key \in keys : Loaded(onDisk, key, first[key]) \in Report
  BY <1>1, LoadedTypes
<1>7. DOMAIN reports' \subseteq Keys /\ reports' \in [DOMAIN reports' -> Report]
  <2> HIDE DEF keys
  <2>1. QED  BY <1>1, <1>5, <1>6 DEF keys
<1>8. files' \in [DOMAIN files \ (DOMAIN files \ onDisk) -> FileType]
  BY <1>1, <1>2, WithoutType
<1>9. DOMAIN files \ (DOMAIN files \ onDisk) = onDisk
  BY <1>1
<1>10. IsABag(jobs') /\ DOMAIN jobs' = {}
  BY BagEmpty DEF Crash
<1>11. /\ draining' = FALSE /\ crashes' = crashes + 1
       /\ UNCHANGED <<now, events, sent, dropped, errors, cancels>>
  BY DEF Crash, ghosts
<1> HIDE DEF keys
<1>12. /\ DOMAIN files' \subseteq Path /\ IsFiniteSet(DOMAIN files')
       /\ files' \in [DOMAIN files' -> FileType]
  BY <1>3, <1>8, <1>9
<1>15. DOMAIN jobs' \subseteq JobType
  BY <1>10
<1>16. crashes' \in Nat
  BY <1>11 DEF ReportType
<1>13. /\ now' \in Nat /\ draining' \in BOOLEAN
       /\ events' \in 0..MaxEvents /\ sent' \in [1..MaxEvents -> Nat]
       /\ dropped' \subseteq 1..MaxEvents
       /\ errors' \in Nat /\ cancels' \in Nat
  BY <1>11 DEF ReportType
<1>14. QED
  BY <1>4, <1>7, <1>10, <1>12, <1>13, <1>15, <1>16 DEF ReportType

\* Cancelling a report keeps the types.
LEMMA CancelTypes ==
  ASSUME ReportType, NEW key \in Keys, Cancel(key)
  PROVE  ReportType'
<1>1. /\ files \in [DOMAIN files -> FileType] /\ reports \in [DOMAIN reports -> Report]
      /\ DOMAIN files \subseteq Path /\ DOMAIN reports \subseteq Keys
  BY DEF ReportType
<1>2. Without(files, reports[key].paths) \in [DOMAIN files \ reports[key].paths -> FileType]
  BY <1>1, WithoutType
<1>3. Without(reports, {key}) \in [DOMAIN reports \ {key} -> Report]
  BY <1>1, WithoutType
<1>4. IsFiniteSet(DOMAIN files \ reports[key].paths)
  BY FS_Subset DEF ReportType
<1>5. UNION {files[p].records : p \in reports[key].paths \cap DOMAIN files} \subseteq 1..MaxEvents
  BY <1>1 DEF FileType
<1>6. files' \in [DOMAIN files' -> FileType] /\ DOMAIN files' \subseteq Path /\ IsFiniteSet(DOMAIN files')
  BY <1>1, <1>2, <1>4 DEF Cancel
<1>7. reports' \in [DOMAIN reports' -> Report] /\ DOMAIN reports' \subseteq Keys
  BY <1>1, <1>3 DEF Cancel
<1>8. dropped' \subseteq 1..MaxEvents /\ cancels' \in Nat
  BY <1>5 DEF Cancel, ReportType
<1>9. UNCHANGED <<now, main, draining, jobs, events, sent, crashes, errors>>
  BY DEF Cancel
<1>10. QED  BY <1>6, <1>7, <1>8, <1>9 DEF ReportType

\* No step leaves the types.
LEMMA TypeStep ==
  ASSUME ReportType, [Next]_vars
  PROVE  ReportType'
<1>1. CASE UNCHANGED vars
  BY <1>1 DEF ReportType, vars, ghosts, bounds
<1>2. CASE Tick
  BY <1>2 DEF ReportType, Tick, ghosts, bounds
<1>3. CASE Timeout
  BY <1>3 DEF ReportType, Timeout, ghosts, bounds
<1>4. QED
  BY <1>1, <1>2, <1>3, StepCases, DueTypes, CrashTypes, WorkTypes, EventTypes, CancelTypes

-----------------------------------------------------------------------------
(* Every report has its entry, every file its owner                        *)

\* What json_write does to the reports and the files, whether it fails or not.
WriteKeeps(key, report, path) ==
  /\ \A k \in DOMAIN reports' :
       \/ k \in DOMAIN reports /\ k # key /\ reports'[k] = reports[k]
       \/ /\ k = key /\ report.paths \subseteq reports'[k].paths
          /\ DueOf(reports'[k]) = DueOf(report)
  /\ \A k \in DOMAIN reports : k \in DOMAIN reports' \/ (k = key /\ report.paths = {})
  /\ \A p \in DOMAIN files' : files'[p].readable =>
       \/ p \in DOMAIN files /\ files[p].readable
       \/ p = path /\ key \in DOMAIN reports' /\ p \in reports'[key].paths

\* json_write has that effect.
LEMMA WriteEffect ==
  ASSUME ReportType, NEW key \in Keys, NEW report \in Report, NEW path \in Path, NEW n,
         json_write(key, report, path, n)
  PROVE  WriteKeeps(key, report, path)
<1>1. CASE /\ files' = With(files, path, [records |-> {n}, readable |-> TRUE])
           /\ reports' = With(reports, key, [report EXCEPT !.paths = @ \cup {path},
                                                            !.size = @ + 1])
  <2> DEFINE more == [report EXCEPT !.paths = @ \cup {path}, !.size = @ + 1]
  <2>1. /\ more.paths = report.paths \cup {path}
        /\ more.created = report.created /\ more.interval = report.interval
    BY DEF Report
  <2>2. DueOf(more) = DueOf(report)
    BY <2>1 DEF DueOf
  <2>3. reports' = With(reports, key, more)
    BY <1>1
  <2> HIDE DEF more
  <2>4. /\ DOMAIN reports' = DOMAIN reports \cup {key} /\ reports'[key] = more
        /\ \A k \in DOMAIN reports : k # key => reports'[k] = reports[k]
    BY <2>3 DEF With
  <2>5. /\ DOMAIN files' = DOMAIN files \cup {path}
        /\ \A p \in DOMAIN files : p # path => files'[p] = files[p]
    BY <1>1 DEF With
  <2>6. QED  BY <2>1, <2>2, <2>4, <2>5 DEF WriteKeeps
<1>2. CASE /\ files' \in {files, With(files, path, [records |-> {}, readable |-> FALSE])}
           /\ reports' = IF report.paths = {} THEN Without(reports, {key})
                         ELSE With(reports, key, report)
  <2>1. \A k \in DOMAIN reports' :
          \/ k \in DOMAIN reports /\ k # key /\ reports'[k] = reports[k]
          \/ k = key /\ reports'[k] = report
    BY <1>2 DEF With, Without
  <2>2. \A k \in DOMAIN reports : k \in DOMAIN reports' \/ (k = key /\ report.paths = {})
    BY <1>2 DEF With, Without
  <2>3. ASSUME NEW p \in DOMAIN files', files'[p].readable
        PROVE  p \in DOMAIN files /\ files[p].readable
    <3>1. CASE files' = files
      BY <2>3, <3>1
    <3>2. CASE files' = With(files, path, [records |-> {}, readable |-> FALSE])
      <4>1. /\ DOMAIN files' = DOMAIN files \cup {path}
            /\ files'[path] = [records |-> {}, readable |-> FALSE]
            /\ \A q \in DOMAIN files : q # path => files'[q] = files[q]
        BY <3>2 DEF With
      <4>2. p # path
        BY <2>3, <4>1
      <4>3. QED  BY <2>3, <4>1, <4>2
    <3>3. QED  BY <1>2, <3>1, <3>2
  <2>4. QED  BY <2>1, <2>2, <2>3 DEF WriteKeeps
<1>3. QED  BY <1>1, <1>2 DEF json_write

\* What an event does to the entries, the reports and the files.
EventKeeps(key) ==
  /\ DOMAIN main \subseteq DOMAIN main'
  /\ \A k \in DOMAIN reports' :
       \/ /\ k \in DOMAIN reports /\ reports[k].paths \subseteq reports'[k].paths
          /\ DueOf(reports'[k]) = DueOf(reports[k])
       \/ /\ k = key /\ k \notin DOMAIN reports
          /\ Entry(key, DueOf(reports'[k])) \in DOMAIN main'
  /\ \A k \in DOMAIN reports : k \in DOMAIN reports' \/ reports[k].paths = {}
  /\ \A p \in DOMAIN files' : files'[p].readable =>
       \/ p \in DOMAIN files /\ files[p].readable
       \/ p.key \in DOMAIN reports' /\ p \in reports'[p.key].paths

\* json_append leaves all but the size of a report alone.
LEMMA AppendEffect ==
  ASSUME ReportType, NEW key \in DOMAIN reports, NEW path, NEW n,
         json_append(key, reports[key], path, n)
  PROVE  /\ DOMAIN reports' = DOMAIN reports /\ DOMAIN files' = DOMAIN files
         /\ \A k \in DOMAIN reports :
              /\ reports'[k].paths = reports[k].paths
              /\ reports'[k].created = reports[k].created
              /\ reports'[k].interval = reports[k].interval
         /\ \A p \in DOMAIN files : files'[p].readable => files[p].readable
<1>1. CASE UNCHANGED <<files, reports>>
  BY <1>1
<1>2. CASE /\ path \in DOMAIN files
           /\ files' = [files EXCEPT ![path].records = @ \cup {n}]
           /\ reports' = [reports EXCEPT ![key].size = @ + 1]
  BY <1>2 DEF ReportType, FileType, Report
<1>3. CASE /\ path \in DOMAIN files
           /\ \E readable \in {FALSE, files[path].readable} :
                files' = [files EXCEPT ![path].readable = readable]
           /\ UNCHANGED reports
  BY <1>3 DEF ReportType, FileType
<1>4. QED  BY <1>1, <1>2, <1>3 DEF json_append

\* An event has that effect.
LEMMA EventEffect ==
  ASSUME ReportType, NEW key \in Keys, NEW interval \in Intervals,
         NEW policy \in Policies \cup {NoPolicy}, Event(key, policy, interval)
  PROVE  EventKeeps(key)
<1> DEFINE created == to_timestamp(interval)
           report == [paths |-> {}, created |-> created, interval |-> interval, size |-> 0]
<1>1. CASE FirstRecord(key, policy, interval)
  <2> DEFINE path == build_report_path(key, policy, created, interval)
  <2>1. created \in Nat /\ interval \in Nat /\ IsABag(main)
    BY IntervalIsOpen, ReportSchedulerAssumption DEF ReportType
  <2>2. report \in Report /\ path \in Path /\ path.key = key
    BY <2>1 DEF Report, Path, build_report_path
  <2>3. DueOf(report) = created + interval
    BY DEF DueOf
  <2>4. /\ main' = Plus(main, Entry(key, created + interval)) /\ key \notin DOMAIN reports
        /\ json_write(key, report, path, events + 1)
    BY <1>1 DEF FirstRecord
  <2> HIDE DEF report, path, created
  <2>5. WriteKeeps(key, report, path)
    BY <2>2, <2>4, WriteEffect
  <2>6. DOMAIN main' = DOMAIN main \cup {Entry(key, created + interval)}
    BY <2>1, <2>4, BagAdd
  <2>7. QED  BY <2>2, <2>3, <2>4, <2>5, <2>6 DEF WriteKeeps, EventKeeps
<1>2. CASE /\ key \in DOMAIN reports /\ UNCHANGED main
           /\ \E path \in reports[key].paths : json_append(key, reports[key], path, events + 1)
  <2>1. PICK path \in reports[key].paths : json_append(key, reports[key], path, events + 1)
    BY <1>2
  <2>2. QED  BY <1>2, <2>1, AppendEffect DEF EventKeeps, DueOf
<1>3. CASE /\ key \in DOMAIN reports /\ UNCHANGED main
           /\ json_write(key, reports[key],
                         build_report_path(key, policy, reports[key].created,
                                           reports[key].interval), events + 1)
  <2> DEFINE path == build_report_path(key, policy, reports[key].created, reports[key].interval)
  <2>1. reports[key] \in Report /\ path \in Path /\ path.key = key
    BY <1>3 DEF ReportType, Report, Path, build_report_path
  <2> HIDE DEF path
  <2>2. WriteKeeps(key, reports[key], path)
    BY <1>3, <2>1, WriteEffect DEF path
  <2>3. QED  BY <1>3, <2>1, <2>2 DEF WriteKeeps, EventKeeps
<1>4. QED  BY <1>1, <1>2, <1>3 DEF Event

\* ScheduledInTime is kept by every step.
LEMMA ScheduledStep ==
  ASSUME ReportType, ScheduledInTime, [Next]_vars
  PROVE  ScheduledInTime'
<1> USE DEF BagToSet
<1>1. CASE UNCHANGED <<main, reports>>
  BY <1>1 DEF ScheduledInTime
<1>2. CASE NextDue
  <2>1. CASE \E e \in FirstEntries :
               /\ main' = Less(main, e)
               /\ \/ e.key \in DOMAIN reports /\ reports' = Without(reports, {e.key})
                  \/ e.key \notin DOMAIN reports /\ UNCHANGED reports
    <3>1. PICK e \in FirstEntries :
               /\ main' = Less(main, e)
               /\ \/ e.key \in DOMAIN reports /\ reports' = Without(reports, {e.key})
                  \/ e.key \notin DOMAIN reports /\ UNCHANGED reports
      BY <2>1
    <3>2. IsABag(main) /\ e \in DOMAIN main
      BY DEF ReportType, FirstEntries
    <3>3. DOMAIN main \ {e} \subseteq DOMAIN main'
      BY <3>1, <3>2, BagTake
    <3>4. \A k \in DOMAIN reports' : k \in DOMAIN reports /\ k # e.key /\ reports'[k] = reports[k]
      BY <3>1 DEF Without
    <3>5. QED  BY <3>3, <3>4 DEF ScheduledInTime
  <2>2. QED  BY <1>1, <1>2, <2>1 DEF NextDue
<1>3. CASE Crash
  <2>1. PICK onDisk, first :
          LET keys == {path.key : path \in onDisk}
          IN /\ onDisk \subseteq DOMAIN files
             /\ \A key \in keys : first[key] \in onDisk /\ first[key].key = key
             /\ reports' = [key \in keys |-> Loaded(onDisk, key, first[key])]
             /\ main' = LoadedEntries(onDisk, first)
    BY <1>3, CrashEffect
  <2> DEFINE keys == {path.key : path \in onDisk}
  <2>2. onDisk \in SUBSET Path /\ IsFiniteSet(onDisk)
    BY <2>1, FS_Subset DEF ReportType
  <2>3. DOMAIN main' = {Entry(path.key, DueOf(path)) : path \in Pushed(onDisk, first)}
    BY <2>1, <2>2, LoadedBag
  <2>4. ASSUME NEW key \in DOMAIN reports'
        PROVE  \E e \in DOMAIN main' : e.key = key /\ e.due <= DueOf(reports'[key])
    <3>1. /\ first[key] \in onDisk /\ first[key].key = key
          /\ reports'[key] = Loaded(onDisk, key, first[key])
      BY <2>1, <2>4
    <3>2. first[key] \in Pushed(onDisk, first)
      BY <3>1 DEF Pushed
    <3>3. Entry(key, DueOf(first[key])) \in DOMAIN main'
      BY <2>3, <3>1, <3>2
    <3>4. DueOf(reports'[key]) = DueOf(first[key])
      BY <3>1 DEF Loaded, DueOf
    <3>5. DueOf(first[key]) \in Nat
      <4>1. first[key] \in Path
        BY <2>2, <3>1
      <4>2. first[key].created \in Nat /\ first[key].interval \in Nat
        BY <4>1, ReportSchedulerAssumption DEF Path
      <4>3. QED  BY <4>2 DEF DueOf
    <3>6. DueOf(first[key]) <= DueOf(reports'[key])
      BY <3>4, <3>5
    <3>7. QED  BY <3>3, <3>6 DEF Entry
  <2>5. QED  BY <2>4 DEF ScheduledInTime
<1>4. CASE \E key \in Keys, interval \in Intervals, policy \in Policies \cup {NoPolicy} :
             Event(key, policy, interval)
  <2>1. PICK key \in Keys : EventKeeps(key)
    BY <1>4, EventEffect
  <2>2. ReportType'
    BY TypeStep
  <2>3. \A e \in DOMAIN main' : e.due \in Nat
    BY <2>2 DEF ReportType
  <2>4. ASSUME NEW k \in DOMAIN reports'
        PROVE  \E e \in DOMAIN main' : e.key = k /\ e.due <= DueOf(reports'[k])
    <3>1. CASE k \in DOMAIN reports /\ DueOf(reports'[k]) = DueOf(reports[k])
      BY <2>1, <3>1 DEF EventKeeps, ScheduledInTime
    <3>2. CASE k = key /\ Entry(key, DueOf(reports'[k])) \in DOMAIN main'
      <4>1. /\ Entry(key, DueOf(reports'[k])).key = k
            /\ Entry(key, DueOf(reports'[k])).due = DueOf(reports'[k])
        BY <3>2 DEF Entry
      <4>2. DueOf(reports'[k]) \in Nat
        BY <2>3, <3>2, <4>1
      <4>3. DueOf(reports'[k]) <= DueOf(reports'[k])
        BY <4>2
      <4>4. QED  BY <3>2, <4>1, <4>3
    <3>3. QED  BY <2>1, <3>1, <3>2 DEF EventKeeps
  <2>5. QED  BY <2>4 DEF ScheduledInTime
<1>5. CASE \E key \in Keys : Cancel(key)
  <2>1. PICK key \in Keys : Cancel(key)
    BY <1>5
  <2>2. main' = main /\ \A k \in DOMAIN reports' : k \in DOMAIN reports /\ reports'[k] = reports[k]
    BY <2>1 DEF Without, Cancel
  <2>3. QED  BY <2>2 DEF ScheduledInTime
<1>6. CASE \E job \in DOMAIN jobs : \/ generate_dmarc_report(job) \/ generate_tls_report(job)
                                    \/ Cleanup(job)
  BY <1>1, <1>6 DEF generate_dmarc_report, generate_tls_report, Cleanup
<1>7. QED
  BY <1>1, <1>2, <1>3, <1>4, <1>5, <1>6, StepCases DEF vars, Tick, Timeout

\* FilesAccounted is kept by every step.
LEMMA AccountedStep ==
  ASSUME ReportType, FilesAccounted, [Next]_vars
  PROVE  FilesAccounted'
<1> USE DEF BagToSet
<1>1. CASE UNCHANGED <<reports, files, jobs, crashes>>
  BY <1>1 DEF FilesAccounted
<1>2. CASE NextDue
  <2>1. CASE \E e \in FirstEntries :
               /\ e.key \in DOMAIN reports
               /\ jobs' = Plus(jobs, Job(e.key))
               /\ reports' = Without(reports, {e.key})
    <3>1. PICK e \in FirstEntries :
               /\ e.key \in DOMAIN reports
               /\ jobs' = Plus(jobs, Job(e.key))
               /\ reports' = Without(reports, {e.key})
      BY <2>1
    <3>2. IsABag(jobs)
      BY DEF ReportType
    <3>3. DOMAIN jobs' = DOMAIN jobs \cup {Job(e.key)}
      BY <3>1, <3>2, BagAdd
    <3>4. \A k \in DOMAIN reports : k # e.key => k \in DOMAIN reports' /\ reports'[k] = reports[k]
      BY <3>1 DEF Without
    <3>5. Job(e.key).paths = reports[e.key].paths
      BY DEF Job
    <3>6. files' = files /\ crashes' = crashes
      BY <1>2 DEF NextDue, bounds
    <3>7. QED  BY <3>3, <3>4, <3>5, <3>6 DEF FilesAccounted
  <2>2. QED  BY <1>1, <1>2, <2>1 DEF NextDue, bounds
<1>3. CASE Crash
  <2>1. PICK onDisk, first :
          LET keys == {path.key : path \in onDisk}
          IN /\ onDisk \subseteq DOMAIN files
             /\ \A key \in keys : first[key] \in onDisk /\ first[key].key = key
             /\ files' = Without(files, DOMAIN files \ onDisk)
             /\ reports' = [key \in keys |-> Loaded(onDisk, key, first[key])]
             /\ main' = LoadedEntries(onDisk, first)
    BY <1>3, CrashEffect
  <2>2. DOMAIN files' \subseteq onDisk
    <3>1. DOMAIN files' = DOMAIN files \ (DOMAIN files \ onDisk)
      BY <2>1 DEF Without
    <3>2. QED  BY <3>1
  <2>6. onDisk \subseteq Path
    BY <2>1 DEF ReportType
  <2>3. crashes' > 0
    BY <1>3 DEF Crash, ReportType
  <2>4. ASSUME NEW path \in DOMAIN files', path.key \notin Dmarc
        PROVE  path.key \in DOMAIN reports' /\ path \in reports'[path.key].paths
    <3>1. path \in onDisk /\ path \in Path
      BY <2>2, <2>6
    <3>2. path.key \in Tls
      BY <2>4, <3>1 DEF Path, Keys
    <3>3. /\ path.key \in DOMAIN reports'
          /\ reports'[path.key] = Loaded(onDisk, path.key, first[path.key])
      BY <2>1, <3>1
    <3>4. Loaded(onDisk, path.key, first[path.key]).paths = PathsOf(onDisk, path.key)
      BY <3>2 DEF Loaded
    <3>5. QED  BY <3>1, <3>3, <3>4 DEF PathsOf
  <2>5. QED  BY <2>3, <2>4 DEF FilesAccounted
<1>4. CASE \E key \in Keys, interval \in Intervals, policy \in Policies \cup {NoPolicy} :
             Event(key, policy, interval)
  <2>1. PICK key \in Keys : EventKeeps(key)
    BY <1>4, EventEffect
  <2>2. jobs' = jobs /\ crashes' = crashes
    BY <1>4 DEF Event, NextEvent
  <2>3. ASSUME NEW path \in DOMAIN files', files'[path].readable
        PROVE  \/ path.key \in DOMAIN reports' /\ path \in reports'[path.key].paths
               \/ \E job \in DOMAIN jobs' : path \in job.paths
               \/ crashes' > 0 /\ path.key \in Dmarc
    <3>1. CASE path \in DOMAIN files /\ files[path].readable
      <4>1. CASE path.key \in DOMAIN reports /\ path \in reports[path.key].paths
        <5>1. path.key \in DOMAIN reports'
          BY <2>1, <4>1 DEF EventKeeps
        <5>2. CASE reports[path.key].paths \subseteq reports'[path.key].paths
          BY <4>1, <5>1, <5>2
        <5>3. QED  BY <2>1, <4>1, <5>1, <5>2 DEF EventKeeps
      <4>2. QED  BY <2>2, <3>1, <4>1 DEF FilesAccounted
    <3>2. QED  BY <2>1, <2>3, <3>1 DEF EventKeeps
  <2>4. QED  BY <2>3 DEF FilesAccounted
<1>5. CASE \E key \in Keys : Cancel(key)
  <2>1. PICK key \in Keys : Cancel(key)
    BY <1>5
  <2>2. /\ jobs' = jobs /\ crashes' = crashes
        /\ \A k \in DOMAIN reports : k # key => k \in DOMAIN reports' /\ reports'[k] = reports[k]
        /\ \A p \in DOMAIN files' :
             p \in DOMAIN files /\ p \notin reports[key].paths /\ files'[p] = files[p]
    BY <2>1 DEF Without, Cancel
  <2>3. QED  BY <2>2 DEF FilesAccounted
<1>6. ASSUME NEW job \in DOMAIN jobs, generate_dmarc_report(job) \/ generate_tls_report(job)
      PROVE  FilesAccounted'
  <2>1. UNCHANGED <<reports, files, crashes>>
    BY <1>6 DEF generate_dmarc_report, generate_tls_report, bounds
  <2>2. IsABag(jobs)
    BY DEF ReportType
  <2>3. CASE jobs' = Sent(job)
    <3> DEFINE done == [job EXCEPT !.sent = TRUE]
    <3>1. /\ done.paths = job.paths
          /\ (DOMAIN jobs \ {job}) \cup {done} \subseteq DOMAIN jobs'
      BY <2>3, SentJobs
    <3> HIDE DEF done
    <3>2. QED  BY <2>1, <3>1 DEF FilesAccounted
  <2>4. CASE Readable(job) = {} /\ jobs' = Less(jobs, job)
    <3>1. DOMAIN jobs \ {job} \subseteq DOMAIN jobs'
      BY <2>2, <2>4, BagTake
    <3>2. \A p \in DOMAIN files : p \in job.paths => ~files[p].readable
      BY <2>4 DEF Readable
    <3>3. QED  BY <2>1, <3>1, <3>2 DEF FilesAccounted
  <2>5. QED  BY <1>6, <2>3, <2>4 DEF generate_dmarc_report, generate_tls_report, SendReport
<1>7. ASSUME NEW job \in DOMAIN jobs, Cleanup(job)
      PROVE  FilesAccounted'
  <2>1. reports' = reports /\ crashes' = crashes /\ IsABag(jobs)
    BY <1>7 DEF Cleanup, bounds, ReportType
  <2>2. DOMAIN jobs \ {job} \subseteq DOMAIN jobs'
    BY <1>7, <2>1, BagTake DEF Cleanup
  <2>3. \A p \in DOMAIN files' : p \in DOMAIN files /\ p \notin job.paths /\ files'[p] = files[p]
    BY <1>7 DEF Cleanup, Without
  <2>4. QED  BY <2>1, <2>2, <2>3 DEF FilesAccounted
<1>8. QED
  BY <1>1, <1>2, <1>3, <1>4, <1>5, <1>6, <1>7, StepCases DEF vars, Tick, Timeout, bounds

-----------------------------------------------------------------------------
(* As long as nothing fails                                                *)

\* The end of a file's interval is a number.
LEMMA DueIsNat ==
  ASSUME NEW path \in Path
  PROVE  DueOf(path) \in Nat
<1>1. path.created \in Nat /\ path.interval \in Nat
  BY ReportSchedulerAssumption DEF Path
<1>2. QED  BY <1>1 DEF DueOf

\* The end of a report's interval is a number.
LEMMA ReportDueIsNat ==
  ASSUME NEW report \in Report
  PROVE  DueOf(report) \in Nat
<1>1. report.created \in Nat /\ report.interval \in Nat
  BY ReportSchedulerAssumption DEF Report
<1>2. QED  BY <1>1 DEF DueOf

\* A file of a job and a file of the report that its key is filling are not one.
LEMMA JobsAreOlder ==
  ASSUME ReportType, Sound, NEW job \in DOMAIN jobs, NEW key \in DOMAIN reports
  PROVE  job.paths \cap reports[key].paths = {}
<1> SUFFICES ASSUME NEW path \in job.paths, path \in reports[key].paths
             PROVE  FALSE
  OBVIOUS
<1>1. /\ path.key = job.key /\ path.key = key
      /\ path.created = reports[key].created /\ path.interval = reports[key].interval
      /\ DueOf(path) < DueOf(reports[job.key])
  BY DEF Sound, JobsMatch, ReportsMatch
<1>2. DueOf(path) = DueOf(reports[key])
  BY <1>1 DEF DueOf
<1>3. DueOf(reports[key]) \in Nat
  BY ReportDueIsNat DEF ReportType
<1>4. QED  BY <1>1, <1>2, <1>3

\* A file of a report gets its first record, in place of what is there.
Written(key, report, path) ==
  /\ path.key = key /\ path \notin report.paths
  /\ path.created = report.created /\ path.interval = report.interval
  /\ files' = With(files, path, [records |-> {events + 1}, readable |-> TRUE])
  /\ reports' = With(reports, key, [report EXCEPT !.paths = @ \cup {path}, !.size = @ + 1])
  /\ UNCHANGED <<now, jobs, sent, dropped>> /\ events' = events + 1 /\ events < MaxEvents
  /\ \/ key \in DOMAIN reports /\ report = reports[key] /\ main' = main
     \/ /\ key \notin DOMAIN reports /\ report.paths = {} /\ DueOf(report) > now
        /\ main' = Plus(main, Entry(key, DueOf(report)))

\* What an event does when no write fails.
LEMMA EventWrites ==
  ASSUME ReportType, NEW key \in Keys, NEW interval \in Intervals,
         NEW policy \in Policies \cup {NoPolicy}, Event(key, policy, interval), errors' = errors
  PROVE  \/ \E report \in Report, path \in Path : Written(key, report, path)
         \/ /\ key \in DOMAIN reports
            /\ UNCHANGED <<now, main, jobs, sent>> /\ events' = events + 1 /\ events < MaxEvents
            /\ \E path \in reports[key].paths : json_append(key, reports[key], path, events + 1)
<1>1. /\ UNCHANGED <<now, jobs, sent>> /\ events' = events + 1 /\ events < MaxEvents
      /\ errors \in Nat
  BY DEF Event, NextEvent, ReportType
<1>2. CASE FirstRecord(key, policy, interval)
  <2> DEFINE created == to_timestamp(interval)
             report == [paths |-> {}, created |-> created, interval |-> interval, size |-> 0]
             path == build_report_path(key, policy, created, interval)
  <2>1. created \in Nat /\ interval \in Nat /\ created + interval > now
    BY IntervalIsOpen, ReportSchedulerAssumption DEF ReportType
  <2>2. /\ report \in Report /\ path \in Path /\ path.key = key /\ report.paths = {}
        /\ path.created = report.created /\ path.interval = report.interval
    BY <2>1 DEF Report, Path, build_report_path
  <2>3. DueOf(report) = created + interval
    BY DEF DueOf
  <2>4. /\ main' = Plus(main, Entry(key, created + interval)) /\ key \notin DOMAIN reports
        /\ json_write(key, report, path, events + 1)
    BY <1>2 DEF FirstRecord
  <2> HIDE DEF report, path, created
  <2>5. /\ files' = With(files, path, [records |-> {events + 1}, readable |-> TRUE])
        /\ reports' = With(reports, key, [report EXCEPT !.paths = @ \cup {path}, !.size = @ + 1])
        /\ dropped' = dropped
    BY <1>1, <2>4 DEF json_write
  <2>6. Written(key, report, path)
    BY <1>1, <2>1, <2>2, <2>3, <2>4, <2>5 DEF Written
  <2>7. QED  BY <2>2, <2>6
<1>3. CASE /\ key \in DOMAIN reports /\ UNCHANGED main
           /\ \E path \in reports[key].paths : json_append(key, reports[key], path, events + 1)
  BY <1>1, <1>3
<1>4. CASE /\ key \in DOMAIN reports /\ UNCHANGED main
           /\ \A path \in reports[key].paths : path.policy # policy
           /\ json_write(key, reports[key],
                         build_report_path(key, policy, reports[key].created,
                                           reports[key].interval), events + 1)
  <2> DEFINE path == build_report_path(key, policy, reports[key].created, reports[key].interval)
  <2>1. /\ reports[key] \in Report /\ path \in Path /\ path.key = key /\ path.policy = policy
        /\ path.created = reports[key].created /\ path.interval = reports[key].interval
    BY <1>4 DEF ReportType, Report, Path, build_report_path
  <2>2. json_write(key, reports[key], path, events + 1)
    BY <1>4
  <2> HIDE DEF path
  <2>3. /\ files' = With(files, path, [records |-> {events + 1}, readable |-> TRUE])
        /\ reports' = With(reports, key, [reports[key] EXCEPT !.paths = @ \cup {path},
                                                               !.size = @ + 1])
        /\ dropped' = dropped
    BY <1>1, <2>2 DEF json_write
  <2>4. Written(key, reports[key], path)
    BY <1>1, <1>4, <2>1, <2>3 DEF Written
  <2>5. QED  BY <2>1, <2>4
<1>5. QED  BY <1>2, <1>3, <1>4 DEF Event

\* Opening a file keeps the scheduler sound.
LEMMA OpenedIsSound ==
  ASSUME ReportType, Sound, NEW key \in Keys, NEW report \in Report, NEW path \in Path,
         Written(key, report, path), path \notin DOMAIN files
  PROVE  Sound'
<1> DEFINE more == [report EXCEPT !.paths = @ \cup {path}, !.size = @ + 1]
           n == events + 1
<1>1. /\ more.paths = report.paths \cup {path}
      /\ more.created = report.created /\ more.interval = report.interval
  BY DEF Report
<1>2. DueOf(more) = DueOf(report) /\ DueOf(path) = DueOf(report) /\ DueOf(report) \in Nat
  BY <1>1, ReportDueIsNat DEF DueOf, Written
<1>3. reports' = With(reports, key, more)
  BY DEF Written
<1> HIDE DEF more
<1>4. /\ DOMAIN reports' = DOMAIN reports \cup {key} /\ reports'[key] = more
      /\ \A k \in DOMAIN reports : k # key => reports'[k] = reports[k]
  BY <1>3 DEF With
<1>5. /\ DOMAIN files' = DOMAIN files \cup {path}
      /\ files'[path] = [records |-> {n}, readable |-> TRUE]
      /\ \A p \in DOMAIN files : files'[p] = files[p]
  BY DEF With, Written
<1>6. jobs' = jobs /\ now' = now /\ sent' = sent /\ dropped' = dropped /\ events' = n
  BY DEF Written
<1>7. n \in 1..MaxEvents /\ events \in Nat
  BY ReportSchedulerAssumption DEF Written, ReportType
<1>8. \/ key \in DOMAIN reports /\ report = reports[key] /\ main' = main
      \/ /\ key \notin DOMAIN reports /\ report.paths = {} /\ DueOf(report) > now
         /\ main' = Plus(main, Entry(key, DueOf(report)))
  BY DEF Written
<1>9. EntriesMatch'
  <2>1. CASE key \in DOMAIN reports /\ report = reports[key] /\ main' = main
    BY <1>2, <1>4, <2>1 DEF Sound, EntriesMatch
  <2>2. CASE key \notin DOMAIN reports /\ main' = Plus(main, Entry(key, DueOf(report)))
    <3> DEFINE new == Entry(key, DueOf(report))
    <3>1. new.key = key /\ new.due = DueOf(report)
      BY DEF Entry
    <3>7. main' = Plus(main, new)
      BY <2>2
    <3> HIDE DEF new
    <3>2. new \notin DOMAIN main
      BY <2>2, <3>1 DEF Sound, EntriesMatch
    <3>3. IsABag(main)
      BY DEF ReportType
    <3>4. /\ DOMAIN main' = DOMAIN main \cup {new} /\ main'[new] = 1
          /\ \A e \in DOMAIN main : main'[e] = main[e]
      <4>1. /\ DOMAIN Plus(main, new) = DOMAIN main \cup {new} /\ Plus(main, new)[new] = 1
            /\ \A e \in DOMAIN main : e # new => Plus(main, new)[e] = main[e]
        BY <3>2, <3>3, BagAdd
      <4>2. QED  BY <3>2, <3>7, <4>1
    <3>5. \A e \in DOMAIN main : main[e] = 1 /\ e.key \in DOMAIN reports /\ e.key # key
                                 /\ e.due = DueOf(reports[e.key])
      BY <2>2 DEF Sound, EntriesMatch
    <3>6. QED  BY <1>2, <1>4, <3>1, <3>4, <3>5 DEF EntriesMatch
  <2>3. QED  BY <1>8, <2>1, <2>2
<1>10. ReportsMatch'
  <2>1. /\ path.key = key /\ path.created = more.created /\ path.interval = more.interval
    BY <1>1 DEF Written
  <2>2. \A p \in report.paths : /\ p \in DOMAIN files /\ p.key = key
                                /\ p.created = more.created /\ p.interval = more.interval
    BY <1>1, <1>8 DEF Sound, ReportsMatch
  <2>3. QED  BY <1>1, <1>4, <1>5, <2>1, <2>2 DEF Sound, ReportsMatch
<1>11. JobsMatch'
  <2>1. ASSUME NEW job \in DOMAIN jobs, NEW p \in job.paths, job.key \in DOMAIN reports'
        PROVE  DueOf(p) < DueOf(reports'[job.key])
    <3>1. CASE job.key \in DOMAIN reports
      BY <1>2, <1>4, <1>8, <3>1 DEF Sound, JobsMatch
    <3>2. CASE job.key \notin DOMAIN reports
      <4>1. job.key = key /\ DueOf(report) > now
        BY <1>4, <1>8, <2>1, <3>2
      <4>2. DueOf(p) <= now
        BY DEF Sound, JobsMatch
      <4>3. p \in Path
        BY DEF ReportType, JobType
      <4>4. DueOf(p) \in Nat /\ now \in Nat
        BY <4>3, DueIsNat DEF ReportType
      <4>5. QED  BY <1>2, <1>4, <4>1, <4>2, <4>4
    <3>3. QED  BY <3>1, <3>2
  <2>2. QED  BY <1>5, <1>6, <2>1 DEF Sound, JobsMatch
<1>12. JobsApart'
  BY <1>6 DEF Sound, JobsApart
<1>13. FilesMatch'
  <2>1. \A p \in DOMAIN files : files[p].readable /\ files[p].records \subseteq 1..events
    BY DEF Sound, FilesMatch
  <2>2. n \notin 1..events /\ 1..events \subseteq 1..n /\ n \in 1..n
    BY <1>7
  <2>3. files'[path].readable /\ files'[path].records = {n}
    BY <1>5
  <2> HIDE DEF n
  <2>4. \A p \in DOMAIN files' : files'[p].readable /\ files'[p].records \subseteq 1..n
    BY <1>5, <2>1, <2>2, <2>3
  <2>5. \A p \in DOMAIN files : files[p].records \cap {n} = {}
    BY <2>1, <2>2
  <2>6. \A p, q \in DOMAIN files' : p # q => files'[p].records \cap files'[q].records = {}
    BY <1>5, <2>3, <2>5 DEF Sound, FilesMatch
  <2>7. QED  BY <1>6, <2>4, <2>6 DEF FilesMatch
<1>14. RecordsMatch'
  <2>1. sent[n] = 0
    BY <1>7 DEF Sound, RecordsMatch
  <2>2. \A m \in 1..MaxEvents : sent[m] <= 1 /\ (m > n => sent[m] = 0)
    BY <1>7 DEF Sound, RecordsMatch
  <2>3. \A m \in 1..n : m = n \/ m \in 1..events
    BY <1>7
  <2>4. files'[path].records = {n}
    BY <1>5
  <2> HIDE DEF n
  <2>5. \A m \in 1..n : \/ sent[m] > 0 \/ m \in dropped
                        \/ \E p \in DOMAIN files' : m \in files'[p].records
    BY <1>5, <2>3, <2>4 DEF Sound, RecordsMatch
  <2>6. \A p \in DOMAIN files' : \A m \in files'[p].records :
          sent[m] = 1 => \E job \in DOMAIN jobs : job.sent /\ p \in job.paths
    BY <1>5, <2>1, <2>4 DEF Sound, RecordsMatch
  <2>7. \A job \in DOMAIN jobs : \A p \in job.paths : p \in DOMAIN files
    BY DEF Sound, JobsMatch
  <2>8. \A job \in DOMAIN jobs : job.sent =>
          \A p \in job.paths : \A m \in files'[p].records : sent[m] = 1 \/ m \in dropped
    BY <1>5, <2>7 DEF Sound, RecordsMatch
  <2>9. QED  BY <1>6, <2>2, <2>5, <2>6, <2>8 DEF RecordsMatch
<1>15. QED  BY <1>9, <1>10, <1>11, <1>12, <1>13, <1>14 DEF Sound

\* Adding a record to a file, or leaving it out, keeps the scheduler sound.
LEMMA AppendedIsSound ==
  ASSUME ReportType, Sound, NEW key \in DOMAIN reports, NEW path \in reports[key].paths,
         json_append(key, reports[key], path, events + 1), errors' = errors,
         events' = events + 1, events < MaxEvents, UNCHANGED <<now, main, jobs, sent>>
  PROVE  Sound'
<1> DEFINE n == events + 1
<1>1. /\ DOMAIN reports' = DOMAIN reports /\ DOMAIN files' = DOMAIN files
      /\ \A k \in DOMAIN reports :
           /\ reports'[k].paths = reports[k].paths
           /\ reports'[k].created = reports[k].created
           /\ reports'[k].interval = reports[k].interval
  BY AppendEffect
<1>2. \A k \in DOMAIN reports : DueOf(reports'[k]) = DueOf(reports[k])
  BY <1>1 DEF DueOf
<1>3. n \in 1..MaxEvents /\ events \in Nat
  BY ReportSchedulerAssumption DEF ReportType
<1>4. path \in DOMAIN files
  BY DEF Sound, ReportsMatch
<1>5. \/ dropped' = dropped \cup {n} /\ files' = files
      \/ dropped' = dropped /\ files' = [files EXCEPT ![path].records = @ \cup {n}]
  BY <1>4 DEF json_append, ReportType
<1>6. EntriesMatch' /\ ReportsMatch' /\ JobsMatch' /\ JobsApart'
  BY <1>1, <1>2 DEF Sound, EntriesMatch, ReportsMatch, JobsMatch, JobsApart
<1>7. /\ \A p \in DOMAIN files : files'[p].readable = files[p].readable
      /\ \A p \in DOMAIN files : p # path => files'[p].records = files[p].records
      /\ \/ n \in dropped' /\ files'[path].records = files[path].records
         \/ files'[path].records = files[path].records \cup {n}
      /\ dropped \subseteq dropped'
  BY <1>4, <1>5 DEF ReportType, FileType
<1>8. FilesMatch'
  <2>1. \A p \in DOMAIN files : files[p].readable /\ files[p].records \subseteq 1..events
    BY DEF Sound, FilesMatch
  <2>2. n \notin 1..events /\ 1..events \subseteq 1..n /\ n \in 1..n
    BY <1>3
  <2>3. \A p, q \in DOMAIN files : p # q => files[p].records \cap files[q].records = {}
    BY DEF Sound, FilesMatch
  <2> HIDE DEF n
  <2>4. \A p \in DOMAIN files : files'[p].readable /\ files'[p].records \subseteq 1..n
    BY <1>4, <1>7, <2>1, <2>2
  <2>5. \A p \in DOMAIN files : n \notin files[p].records
    BY <2>1, <2>2
  <2>6. \A p, q \in DOMAIN files : p # q => files'[p].records \cap files'[q].records = {}
    BY <1>7, <2>3, <2>5
  <2>7. events' = n
    BY DEF n
  <2>8. QED  BY <1>1, <2>4, <2>6, <2>7 DEF FilesMatch
<1>9. RecordsMatch'
  <2>1. sent[n] = 0
    BY <1>3 DEF Sound, RecordsMatch
  <2>2. \A m \in 1..MaxEvents : sent[m] <= 1 /\ (m > n => sent[m] = 0)
    BY <1>3 DEF Sound, RecordsMatch
  <2>3. \A m \in 1..n : m = n \/ m \in 1..events
    BY <1>3
  <2>4. \A p \in DOMAIN files : files[p].records \subseteq files'[p].records
    BY <1>7
  <2>5. \A p \in DOMAIN files : \A m \in files'[p].records : m = n \/ m \in files[p].records
    BY <1>7
  <2>6. \A job \in DOMAIN jobs : \A p \in job.paths : p \in DOMAIN files /\ p # path
    BY JobsAreOlder DEF Sound, JobsMatch
  <2>7. events' = n
    OBVIOUS
  <2> HIDE DEF n
  <2>8. \A m \in 1..n : \/ sent[m] > 0 \/ m \in dropped'
                        \/ \E p \in DOMAIN files : m \in files'[p].records
    <3>1. ASSUME NEW m \in 1..events
          PROVE  \/ sent[m] > 0 \/ m \in dropped'
                 \/ \E p \in DOMAIN files : m \in files'[p].records
      BY <1>7, <2>4 DEF Sound, RecordsMatch
    <3>2. n \in dropped' \/ n \in files'[path].records
      BY <1>7
    <3>3. QED  BY <1>4, <2>3, <3>1, <3>2
  <2>9. \A p \in DOMAIN files : \A m \in files'[p].records :
          sent[m] = 1 => \E job \in DOMAIN jobs : job.sent /\ p \in job.paths
    BY <2>1, <2>5 DEF Sound, RecordsMatch
  <2>10. \A job \in DOMAIN jobs : job.sent =>
           \A p \in job.paths : \A m \in files'[p].records : sent[m] = 1 \/ m \in dropped'
    BY <1>7, <2>6 DEF Sound, RecordsMatch
  <2>11. sent' = sent /\ jobs' = jobs /\ DOMAIN files' = DOMAIN files
    BY <1>1
  <2>12. QED  BY <2>2, <2>7, <2>8, <2>9, <2>10, <2>11 DEF RecordsMatch
<1>10. QED  BY <1>6, <1>8, <1>9 DEF Sound

\* An event during which nothing fails keeps the scheduler sound.  The file an
\* event opens is new: those of a report are of other policies, and those of
\* a job are of intervals that have ended.
LEMMA EventIsSound ==
  ASSUME ReportType, Sound, FilesAccounted, NoStaleEntries, NEW key \in Keys,
         NEW interval \in Intervals, NEW policy \in Policies \cup {NoPolicy},
         Event(key, policy, interval), errors' = errors
  PROVE  Sound'
<1>1. crashes = 0
  BY DEF NoStaleEntries, ReportType
<1>2. ASSUME NEW path \in DOMAIN files
      PROVE  \/ path.key \in DOMAIN reports /\ path \in reports[path.key].paths
             \/ \E job \in DOMAIN jobs : path \in job.paths
  BY <1>1 DEF FilesAccounted, Sound, FilesMatch, BagToSet
<1>3. ASSUME NEW report \in Report, NEW path \in Path, Written(key, report, path)
      PROVE  path \notin DOMAIN files
  <2> SUFFICES ASSUME path \in DOMAIN files
               PROVE  FALSE
    OBVIOUS
  <2>1. /\ path.key = key /\ path \notin report.paths
        /\ \/ key \in DOMAIN reports /\ report = reports[key]
           \/ key \notin DOMAIN reports /\ DueOf(report) > now
    BY <1>3 DEF Written
  <2>2. DueOf(path) = DueOf(report) /\ DueOf(path) \in Nat /\ now \in Nat
    BY <1>3, DueIsNat DEF DueOf, Written, ReportType
  <2>3. PICK job \in DOMAIN jobs : path \in job.paths
    BY <1>2, <2>1
  <2>4. /\ DueOf(path) <= now /\ job.key = key
        /\ key \in DOMAIN reports => DueOf(path) < DueOf(reports[key])
    BY <2>1, <2>3 DEF Sound, JobsMatch
  <2>5. QED  BY <2>1, <2>2, <2>4
<1>4. QED  BY <1>3, EventWrites, OpenedIsSound, AppendedIsSound

\* Handing a due report to the worker pool keeps the scheduler sound.
LEMMA DueIsSound ==
  ASSUME ReportType, Sound, NextDue
  PROVE  Sound'
<1>1. UNCHANGED <<now, files, events, sent, dropped>>
  BY DEF NextDue, ghosts
<1>2. CASE \E e \in FirstEntries :
             /\ IsDue(e) /\ main' = Less(main, e)
             /\ \/ /\ e.key \in DOMAIN reports
                   /\ jobs' = Plus(jobs, Job(e.key))
                   /\ reports' = Without(reports, {e.key})
                \/ e.key \notin DOMAIN reports
  <2>1. PICK e \in FirstEntries :
             /\ IsDue(e) /\ main' = Less(main, e)
             /\ \/ /\ e.key \in DOMAIN reports
                   /\ jobs' = Plus(jobs, Job(e.key))
                   /\ reports' = Without(reports, {e.key})
                \/ e.key \notin DOMAIN reports
    BY <1>2
  <2> DEFINE key == e.key
             new == Job(key)
  <2>2. e \in DOMAIN main /\ IsABag(main) /\ IsABag(jobs)
    BY DEF FirstEntries, BagToSet, ReportType
  <2>3. main[e] = 1 /\ key \in DOMAIN reports /\ e.due = DueOf(reports[key])
    BY <2>2 DEF Sound, EntriesMatch
  <2>4. new.key = key /\ new.paths = reports[key].paths /\ ~new.sent
    BY DEF Job
  <2>5. jobs' = Plus(jobs, new) /\ reports' = Without(reports, {key}) /\ DueOf(reports[key]) <= now
    BY <2>1, <2>3 DEF IsDue
  <2> HIDE DEF new
  <2>6. new.paths # {}
    BY <2>3, <2>4 DEF Sound, ReportsMatch
  <2>7. \A job \in DOMAIN jobs : job.paths \cap new.paths = {}
    BY <2>3, <2>4, JobsAreOlder
  <2>8. new \notin DOMAIN jobs
    BY <2>6, <2>7
  <2>9. /\ DOMAIN jobs' = DOMAIN jobs \cup {new} /\ jobs'[new] = 1
        /\ \A job \in DOMAIN jobs : jobs'[job] = jobs[job]
    <3>1. /\ DOMAIN Plus(jobs, new) = DOMAIN jobs \cup {new} /\ Plus(jobs, new)[new] = 1
          /\ \A job \in DOMAIN jobs : job # new => Plus(jobs, new)[job] = jobs[job]
      BY <2>2, <2>8, BagAdd
    <3>2. QED  BY <2>5, <2>8, <3>1
  <2>10. /\ DOMAIN main' = DOMAIN main \ {e}
         /\ \A f \in DOMAIN main : f # e => main'[f] = main[f]
    <3>1. /\ DOMAIN Less(main, e) \subseteq DOMAIN main
          /\ DOMAIN main \ {e} \subseteq DOMAIN Less(main, e)
          /\ e \notin DOMAIN Less(main, e)
          /\ \A f \in DOMAIN main : f # e => Less(main, e)[f] = main[f]
      BY <2>2, <2>3, BagTake
    <3>2. QED  BY <2>1, <3>1
  <2>11. /\ DOMAIN reports' = DOMAIN reports \ {key}
         /\ \A k \in DOMAIN reports' : reports'[k] = reports[k]
    BY <2>5 DEF Without
  <2>12. EntriesMatch'
    <3>1. ASSUME NEW f \in DOMAIN main, f # e
          PROVE  f.key # key
      <4>1. f \in [key : Keys, due : Nat] /\ e \in [key : Keys, due : Nat]
        BY <2>2 DEF ReportType
      <4>2. f.key = key => f.due = e.due
        BY <2>3 DEF Sound, EntriesMatch
      <4>3. QED  BY <3>1, <4>1, <4>2
    <3>2. QED  BY <2>10, <2>11, <3>1 DEF Sound, EntriesMatch
  <2>13. ReportsMatch'
    BY <1>1, <2>11 DEF Sound, ReportsMatch
  <2>14. JobsMatch'
    <3>1. \A p \in new.paths : p \in DOMAIN files /\ p.key = key /\ DueOf(p) <= now
      <4>1. \A p \in new.paths : /\ p \in DOMAIN files /\ p.key = key
                                 /\ p.created = reports[key].created
                                 /\ p.interval = reports[key].interval
        BY <2>3, <2>4 DEF Sound, ReportsMatch
      <4>2. QED  BY <2>5, <4>1 DEF DueOf
    <3>2. QED  BY <1>1, <2>4, <2>6, <2>9, <2>11, <3>1 DEF Sound, JobsMatch
  <2>15. JobsApart'
    BY <2>7, <2>9 DEF Sound, JobsApart
  <2>16. FilesMatch'
    BY <1>1 DEF Sound, FilesMatch
  <2>17. RecordsMatch'
    BY <1>1, <2>4, <2>9 DEF Sound, RecordsMatch
  <2>18. QED  BY <2>12, <2>13, <2>14, <2>15, <2>16, <2>17 DEF Sound
<1>3. CASE UNCHANGED <<main, jobs, reports>>
  BY <1>1, <1>3 DEF Sound, EntriesMatch, ReportsMatch, JobsMatch, JobsApart, FilesMatch,
                    RecordsMatch
<1>4. QED  BY <1>2, <1>3 DEF NextDue

\* Sending a report, or deciding that nobody wants it, keeps the scheduler sound:
\* no other job has its files, so none of their records was reported before.
LEMMA SendIsSound ==
  ASSUME ReportType, Sound, NEW job \in DOMAIN jobs,
         generate_dmarc_report(job) \/ generate_tls_report(job)
  PROVE  Sound'
<1>1. UNCHANGED <<now, main, reports, files, events>> /\ ~job.sent
  BY DEF generate_dmarc_report, generate_tls_report
<1>2. Readable(job) = job.paths /\ job.paths # {}
  BY DEF Readable, Sound, JobsMatch, FilesMatch
<1>3. SendReport(job)
  BY <1>2 DEF generate_dmarc_report, generate_tls_report
<1> DEFINE done == [job EXCEPT !.sent = TRUE]
           R == RecordsOf(job.paths)
<1>4. /\ jobs' = Plus(Less(jobs, job), done)
      /\ \/ /\ sent' = [n \in DOMAIN sent |-> IF n \in R THEN sent[n] + 1 ELSE sent[n]]
            /\ dropped' = dropped
         \/ dropped' = dropped \cup R /\ sent' = sent
  BY <1>2, <1>3 DEF SendReport, Sent
<1>5. /\ done.paths = job.paths /\ done.key = job.key /\ done.sent
  BY SentJobs
<1>6. \A p \in job.paths : p \in DOMAIN files
  BY DEF Sound, JobsMatch
<1>7. \A n : n \in R <=> \E p \in job.paths : n \in files[p].records
  BY DEF RecordsOf
<1>8. \A i \in DOMAIN jobs : i # job => i.paths \cap job.paths = {}
  BY DEF Sound, JobsApart
<1> HIDE DEF done, R
<1>9. done \notin DOMAIN jobs
  BY <1>1, <1>2, <1>5, <1>8
<1>10. /\ DOMAIN jobs' = (DOMAIN jobs \ {job}) \cup {done} /\ jobs'[done] = 1
       /\ \A i \in DOMAIN jobs : i # job => jobs'[i] = jobs[i]
  <2> DEFINE rest == Less(jobs, job)
  <2>1. IsABag(jobs) /\ jobs[job] = 1
    BY DEF ReportType, Sound, JobsMatch
  <2>2. /\ IsABag(rest) /\ DOMAIN rest \subseteq DOMAIN jobs
        /\ DOMAIN jobs \ {job} \subseteq DOMAIN rest
        /\ job \notin DOMAIN rest
        /\ \A i \in DOMAIN jobs : i # job => rest[i] = jobs[i]
    BY <2>1, BagTake
  <2>3. jobs' = Plus(rest, done)
    BY <1>4
  <2> HIDE DEF rest
  <2>4. DOMAIN rest = DOMAIN jobs \ {job} /\ done \notin DOMAIN rest
    BY <1>9, <2>2
  <2>5. /\ DOMAIN Plus(rest, done) = DOMAIN rest \cup {done} /\ Plus(rest, done)[done] = 1
        /\ \A i \in DOMAIN rest : i # done => Plus(rest, done)[i] = rest[i]
    <3>1. IsABag(rest)
      BY <2>2
    <3>2. QED  BY <2>4, <3>1, BagAdd
  <2>6. QED  BY <2>2, <2>3, <2>4, <2>5
<1>11. EntriesMatch' /\ ReportsMatch' /\ FilesMatch'
  BY <1>1 DEF Sound, EntriesMatch, ReportsMatch, FilesMatch
<1>12. JobsMatch'
  BY <1>1, <1>5, <1>10 DEF Sound, JobsMatch
<1>13. JobsApart'
  BY <1>5, <1>8, <1>10 DEF Sound, JobsApart
<1>14. RecordsMatch'
  <2>9. events \in Nat /\ 1..events \subseteq 1..MaxEvents /\ sent \in [1..MaxEvents -> Nat]
    BY ReportSchedulerAssumption DEF ReportType
  <2>1. R \subseteq 1..events /\ R \subseteq 1..MaxEvents
    BY <1>6, <1>7, <2>9 DEF Sound, FilesMatch
  <2>2. \A n \in R : sent[n] = 0
    <3> SUFFICES ASSUME NEW n \in R, sent[n] # 0
                 PROVE  FALSE
      OBVIOUS
    <3>1. n \in 1..MaxEvents
      BY <2>1
    <3>2. sent[n] = 1
      BY <2>9, <3>1 DEF Sound, RecordsMatch
    <3>3. PICK p \in job.paths : n \in files[p].records
      BY <1>7
    <3>4. PICK i \in DOMAIN jobs : i.sent /\ p \in i.paths
      BY <1>6, <3>2, <3>3 DEF Sound, RecordsMatch
    <3>5. QED  BY <1>1, <1>8, <3>3, <3>4
  <2>3. /\ \A n \in 1..MaxEvents : n \notin R => sent'[n] = sent[n]
        /\ \A n \in R : sent'[n] = 1 \/ (n \in dropped' /\ sent'[n] = sent[n])
        /\ dropped \subseteq dropped'
    <3>1. CASE /\ sent' = [n \in DOMAIN sent |-> IF n \in R THEN sent[n] + 1 ELSE sent[n]]
               /\ dropped' = dropped
      <4>1. DOMAIN sent = 1..MaxEvents
        BY <2>9
      <4>2. \A n \in R : sent'[n] = sent[n] + 1
        BY <2>1, <3>1, <4>1
      <4>3. QED  BY <2>2, <3>1, <4>1, <4>2
    <3>2. CASE dropped' = dropped \cup R /\ sent' = sent
      BY <3>2
    <3>3. QED  BY <1>4, <3>1, <3>2
  <2>4. \A n \in 1..MaxEvents : sent'[n] <= 1 /\ (n > events => sent'[n] = 0)
    <3> SUFFICES ASSUME NEW n \in 1..MaxEvents
                 PROVE  sent'[n] <= 1 /\ (n > events => sent'[n] = 0)
      OBVIOUS
    <3>1. sent[n] <= 1 /\ (n > events => sent[n] = 0)
      BY DEF Sound, RecordsMatch
    <3>2. n \in R => ~(n > events)
      BY <2>1, <2>9
    <3>3. QED  BY <2>2, <2>3, <3>1, <3>2
  <2>5. \A n \in 1..events : \/ sent'[n] > 0 \/ n \in dropped'
                             \/ \E p \in DOMAIN files : n \in files[p].records
    <3> SUFFICES ASSUME NEW n \in 1..events
                 PROVE  \/ sent'[n] > 0 \/ n \in dropped'
                        \/ \E p \in DOMAIN files : n \in files[p].records
      OBVIOUS
    <3>1. n \in 1..MaxEvents
      BY <2>9
    <3>2. \/ sent[n] > 0 \/ n \in dropped \/ \E p \in DOMAIN files : n \in files[p].records
      BY DEF Sound, RecordsMatch
    <3>3. QED  BY <2>3, <3>1, <3>2
  <2>6. ASSUME NEW p \in DOMAIN files, NEW n \in files[p].records, sent'[n] = 1
        PROVE  \E i \in DOMAIN jobs' : i.sent /\ p \in i.paths
    <3>1. n \in 1..MaxEvents
      <4>1. n \in 1..events
        BY DEF Sound, FilesMatch
      <4>2. QED  BY <2>9, <4>1
    <3>2. CASE n \in R
      <4>1. PICK q \in job.paths : n \in files[q].records
        BY <1>7, <3>2
      <4>2. p = q
        BY <1>6, <4>1 DEF Sound, FilesMatch
      <4>3. QED  BY <1>5, <1>10, <4>1, <4>2
    <3>3. CASE n \notin R
      <4>1. sent[n] = 1
        BY <2>3, <2>6, <3>1, <3>3
      <4>2. PICK i \in DOMAIN jobs : i.sent /\ p \in i.paths
        BY <4>1 DEF Sound, RecordsMatch
      <4>3. QED  BY <1>1, <1>10, <4>2
    <3>4. QED  BY <3>2, <3>3
  <2>7. ASSUME NEW i \in DOMAIN jobs', i.sent, NEW p \in i.paths, NEW n \in files[p].records
        PROVE  sent'[n] = 1 \/ n \in dropped'
    <3>1. CASE i = done
      BY <1>5, <1>7, <2>3, <3>1
    <3>2. CASE i # done
      <4>1. i \in DOMAIN jobs /\ i # job
        BY <1>10, <3>2
      <4>2. p \in DOMAIN files
        BY <4>1 DEF Sound, JobsMatch
      <4>3. sent[n] = 1 \/ n \in dropped
        BY <2>7, <4>1 DEF Sound, RecordsMatch
      <4>4. n \in 1..MaxEvents
        <5>1. n \in 1..events
          BY <4>2 DEF Sound, FilesMatch
        <5>2. QED  BY <2>9, <5>1
      <4>5. QED  BY <2>2, <2>3, <4>3, <4>4
    <3>3. QED  BY <3>1, <3>2
  <2>8. QED  BY <1>1, <2>4, <2>5, <2>6, <2>7 DEF RecordsMatch
<1>15. QED  BY <1>11, <1>12, <1>13, <1>14 DEF Sound

\* Removing the files of a report that was sent keeps the scheduler sound.
LEMMA CleanupIsSound ==
  ASSUME ReportType, Sound, NEW job \in DOMAIN jobs, Cleanup(job)
  PROVE  Sound'
<1>1. /\ UNCHANGED <<now, main, reports, events, sent, dropped>> /\ job.sent
      /\ files' = Without(files, job.paths) /\ jobs' = Less(jobs, job)
  BY DEF Cleanup, ghosts
<1>2. /\ DOMAIN files' = DOMAIN files \ job.paths
      /\ \A p \in DOMAIN files' : files'[p] = files[p]
  BY <1>1 DEF Without
<1>3. /\ DOMAIN jobs' = DOMAIN jobs \ {job}
      /\ \A i \in DOMAIN jobs' : jobs'[i] = jobs[i]
  <2>1. IsABag(jobs) /\ jobs[job] = 1
    BY DEF ReportType, Sound, JobsMatch
  <2>2. /\ DOMAIN Less(jobs, job) \subseteq DOMAIN jobs
        /\ DOMAIN jobs \ {job} \subseteq DOMAIN Less(jobs, job)
        /\ job \notin DOMAIN Less(jobs, job)
        /\ \A i \in DOMAIN jobs : i # job => Less(jobs, job)[i] = jobs[i]
    BY <2>1, BagTake
  <2>3. QED  BY <1>1, <2>2
<1>4. \A i \in DOMAIN jobs' : i.paths \cap job.paths = {}
  BY <1>3 DEF Sound, JobsApart
<1>5. \A key \in DOMAIN reports : reports[key].paths \cap job.paths = {}
  BY JobsAreOlder
<1>6. EntriesMatch' /\ ReportsMatch'
  BY <1>1, <1>2, <1>5 DEF Sound, EntriesMatch, ReportsMatch
<1>7. JobsMatch' /\ JobsApart'
  BY <1>1, <1>2, <1>3, <1>4 DEF Sound, JobsMatch, JobsApart
<1>8. FilesMatch'
  BY <1>1, <1>2 DEF Sound, FilesMatch
<1>9. RecordsMatch'
  <2>1. ASSUME NEW n \in 1..events, ~(sent[n] > 0), n \notin dropped
        PROVE  \E p \in DOMAIN files' : n \in files'[p].records
    <3>1. PICK p \in DOMAIN files : n \in files[p].records
      BY <2>1 DEF Sound, RecordsMatch
    <3>2. p \notin job.paths
      <4>1. sent[n] # 1
        BY <2>1
      <4>2. QED  BY <1>1, <2>1, <3>1, <4>1 DEF Sound, RecordsMatch
    <3>3. QED  BY <1>2, <3>1, <3>2
  <2>2. ASSUME NEW p \in DOMAIN files', NEW n \in files'[p].records, sent[n] = 1
        PROVE  \E i \in DOMAIN jobs' : i.sent /\ p \in i.paths
    <3>1. p \in DOMAIN files /\ n \in files[p].records /\ p \notin job.paths
      BY <1>2
    <3>2. PICK i \in DOMAIN jobs : i.sent /\ p \in i.paths
      BY <2>2, <3>1 DEF Sound, RecordsMatch
    <3>3. QED  BY <1>3, <3>1, <3>2
  <2>3. ASSUME NEW i \in DOMAIN jobs', i.sent, NEW p \in i.paths, NEW n \in files'[p].records
        PROVE  sent[n] = 1 \/ n \in dropped
    <3>1. i \in DOMAIN jobs /\ p \in DOMAIN files /\ p \notin job.paths
      BY <1>3, <1>4 DEF Sound, JobsMatch
    <3>2. n \in files[p].records
      BY <1>2, <2>3, <3>1
    <3>3. QED  BY <2>3, <3>1, <3>2 DEF Sound, RecordsMatch
  <2>4. \A n \in 1..MaxEvents : sent[n] <= 1 /\ (n > events => sent[n] = 0)
    BY DEF Sound, RecordsMatch
  <2>5. QED  BY <1>1, <2>1, <2>2, <2>3, <2>4 DEF RecordsMatch
<1>10. QED  BY <1>6, <1>7, <1>8, <1>9 DEF Sound

-----------------------------------------------------------------------------
(* Theorems                                                                *)

\* The counts of faults never go down.
LEMMA FaultsGrow ==
  ASSUME ReportType, [Next]_vars
  PROVE  /\ crashes' \in {crashes, crashes + 1} /\ errors' \in {errors, errors + 1}
         /\ cancels' \in {cancels, cancels + 1}
         /\ crashes' >= crashes /\ errors' >= errors /\ cancels' >= cancels
         /\ crashes' \in Nat /\ errors' \in Nat /\ cancels' \in Nat
<1>1. crashes \in Nat /\ errors \in Nat /\ cancels \in Nat
  BY DEF ReportType
<1>2. /\ crashes' \in {crashes, crashes + 1} /\ errors' \in {errors, errors + 1}
      /\ cancels' \in {cancels, cancels + 1}
  <2>1. CASE \E key \in Keys, interval \in Intervals, policy \in Policies \cup {NoPolicy} :
               Event(key, policy, interval)
    <3>1. errors' \in {errors, errors + 1}
      BY <2>1 DEF Event, FirstRecord, json_write, json_append
    <3>2. QED  BY <2>1, <3>1 DEF Event, NextEvent
  <2>2. CASE \E job \in DOMAIN jobs : \/ generate_dmarc_report(job) \/ generate_tls_report(job)
                                      \/ Cleanup(job)
    BY <2>2 DEF generate_dmarc_report, generate_tls_report, Cleanup, bounds
  <2>3. CASE \E key \in Keys : Cancel(key)
    BY <2>3 DEF Cancel
  <2>4. QED
    BY <2>1, <2>2, <2>3, StepCases DEF vars, Tick, Timeout, NextDue, Crash, bounds
<1>3. QED  BY <1>1, <1>2

\* No write fails and nothing is cancelled in a step after which none has.
LEMMA FailuresStay ==
  ASSUME ReportType, [Next]_vars, errors' + cancels' = 0
  PROVE  errors = 0 /\ cancels = 0 /\ errors' = 0 /\ cancels' = 0
<1>1. /\ errors \in Nat /\ cancels \in Nat /\ errors' \in Nat /\ cancels' \in Nat
      /\ errors' >= errors /\ cancels' >= cancels
  BY FaultsGrow DEF ReportType
<1>2. \A a, b \in Nat : a + b = 0 => a = 0 /\ b = 0
  OBVIOUS
<1>3. errors' = 0 /\ cancels' = 0
  BY <1>1, <1>2
<1>4. QED  BY <1>1, <1>3

\* Nothing fails in a step after which nothing has failed.
LEMMA FaultsStay ==
  ASSUME ReportType, [Next]_vars, NoStaleEntries'
  PROVE  NoStaleEntries /\ UNCHANGED bounds
<1>1. /\ crashes \in Nat /\ crashes' \in Nat /\ crashes' >= crashes
      /\ errors' \in Nat /\ cancels' \in Nat
  BY FaultsGrow DEF ReportType
<1>2. crashes' + errors' + cancels' = 0
  BY DEF NoStaleEntries
<1>3. errors' + cancels' = 0 /\ crashes' = 0 /\ crashes = 0
  <2>1. \A a, b, c \in Nat : a + b + c = 0 => a = 0 /\ b + c = 0
    OBVIOUS
  <2>2. errors' + cancels' = 0 /\ crashes' = 0
    BY <1>1, <1>2, <2>1
  <2>3. \A a, b \in Nat : b >= a /\ b = 0 => a = 0
    OBVIOUS
  <2>4. crashes = 0
    BY <1>1, <2>2, <2>3
  <2>5. QED  BY <2>2, <2>4
<1>4. errors = 0 /\ cancels = 0 /\ errors' = 0 /\ cancels' = 0
  BY <1>3, FailuresStay
<1>5. QED  BY <1>3, <1>4 DEF NoStaleEntries, bounds

\* As long as nothing fails, every step keeps the scheduler sound.
LEMMA SoundStep ==
  ASSUME ReportType, FilesAccounted, NoStaleEntries, Sound, [Next]_vars, UNCHANGED bounds
  PROVE  Sound'
<1>1. CASE UNCHANGED <<now, main, reports, files, jobs, ghosts>>
  BY <1>1 DEF Sound, EntriesMatch, ReportsMatch, JobsMatch, JobsApart, FilesMatch, RecordsMatch,
              ghosts
<1>2. CASE Tick
  <2>1. UNCHANGED <<main, reports, files, jobs, events, sent, dropped>> /\ now' = now + 1
    BY <1>2 DEF Tick, ghosts
  <2>2. ASSUME NEW job \in DOMAIN jobs, NEW path \in job.paths
        PROVE  DueOf(path) <= now'
    <3>1. DueOf(path) <= now
      BY DEF Sound, JobsMatch
    <3>2. path \in Path /\ now \in Nat
      BY DEF ReportType, JobType
    <3>3. DueOf(path) \in Nat
      BY <3>2, DueIsNat
    <3>4. QED  BY <2>1, <3>1, <3>2, <3>3
  <2>3. JobsMatch'
    BY <2>1, <2>2 DEF Sound, JobsMatch
  <2>4. QED
    BY <2>1, <2>3 DEF Sound, EntriesMatch, ReportsMatch, JobsApart, FilesMatch, RecordsMatch
<1>3. CASE \E key \in Keys, interval \in Intervals, policy \in Policies \cup {NoPolicy} :
             Event(key, policy, interval)
  BY <1>3, EventIsSound DEF bounds
<1>4. ~Crash /\ \A key \in Keys : ~Cancel(key)
  BY DEF Crash, Cancel, bounds, ReportType
<1>5. QED
  BY <1>1, <1>2, <1>3, <1>4, StepCases, DueIsSound, SendIsSound, CleanupIsSound
  DEF vars, Timeout

\* The invariant holds at the start.
LEMMA InitInv == Init => ReportInv
<1> SUFFICES ASSUME Init
             PROVE  ReportInv
  OBVIOUS
<1>1. /\ DOMAIN main = {} /\ DOMAIN jobs = {} /\ IsABag(main) /\ IsABag(jobs)
  BY BagEmpty DEF Init
<1>2. DOMAIN reports = {} /\ DOMAIN files = {}
  BY DEF Init
<1>3. reports \in [DOMAIN reports -> Report] /\ files \in [DOMAIN files -> FileType]
  BY DEF Init
<1>4. IsFiniteSet(DOMAIN files)
  BY <1>2, FS_EmptySet
<1>5. /\ now = 0 /\ draining = FALSE /\ events = 0 /\ dropped = {}
      /\ sent = [n \in 1..MaxEvents |-> 0]
      /\ crashes = 0 /\ errors = 0 /\ cancels = 0
  BY DEF Init
<1>6. ReportType
  <2>1. /\ now \in Nat /\ draining \in BOOLEAN
        /\ crashes \in Nat /\ errors \in Nat /\ cancels \in Nat
    BY <1>5
  <2>4. events \in 0..MaxEvents
    BY <1>5, ReportSchedulerAssumption
  <2>5. sent \in [1..MaxEvents -> Nat]
    BY <1>5
  <2>6. dropped \subseteq 1..MaxEvents
    BY <1>5
  <2>2. /\ DOMAIN main \subseteq [key : Keys, due : Nat] /\ DOMAIN jobs \subseteq JobType
        /\ DOMAIN reports \subseteq Keys /\ DOMAIN files \subseteq Path
    BY <1>1, <1>2
  <2>3. QED  BY <1>1, <1>3, <1>4, <2>1, <2>2, <2>4, <2>5, <2>6 DEF ReportType
<1>7. ScheduledInTime /\ FilesAccounted
  BY <1>2 DEF ScheduledInTime, FilesAccounted
<1>8. EntriesMatch /\ ReportsMatch /\ JobsMatch /\ JobsApart /\ FilesMatch
  BY <1>1, <1>2 DEF EntriesMatch, ReportsMatch, JobsMatch, JobsApart, FilesMatch
<1>9. RecordsMatch
  <2>1. \A n \in 1..MaxEvents : sent[n] <= 1 /\ (n > events => sent[n] = 0)
    BY <1>5
  <2>2. 1..events = {}
    BY <1>5
  <2>3. QED  BY <1>1, <1>2, <2>1, <2>2 DEF RecordsMatch
<1>10. QED  BY <1>6, <1>7, <1>8, <1>9 DEF ReportInv, Sound

\* The invariant holds always.
THEOREM SchedulerReachable == Spec => []ReportInv
<1>1. ReportInv /\ [Next]_vars => ReportInv'
  <2> SUFFICES ASSUME ReportInv, [Next]_vars
               PROVE  ReportInv'
    OBVIOUS
  <2>1. ReportType /\ ScheduledInTime /\ FilesAccounted /\ (NoStaleEntries => Sound)
    BY DEF ReportInv
  <2>2. ReportType' /\ ScheduledInTime' /\ FilesAccounted'
    BY <2>1, TypeStep, ScheduledStep, AccountedStep
  <2>3. NoStaleEntries' => Sound'
    BY <2>1, FaultsStay, SoundStep
  <2>4. QED  BY <2>2, <2>3 DEF ReportInv
<1>2. QED  BY <1>1, InitInv, PTL DEF Spec

\* Every report that is being filled has an entry in the heap no later than the end
\* of its interval, after cancellations, failed writes and restarts too.
THEOREM ReportsAreScheduled == Spec => []ScheduledInTime
<1>1. ReportInv => ScheduledInTime
  BY DEF ReportInv
<1>2. QED  BY <1>1, SchedulerReachable, PTL

\* Every file that parses belongs to a report or to a job, apart from a DMARC file
\* that a restart found beside another of its key.
THEOREM FilesAreOwned == Spec => []FilesAccounted
<1>1. ReportInv => FilesAccounted
  BY DEF ReportInv
<1>2. QED  BY <1>1, SchedulerReachable, PTL

\* As long as nothing fails, no report goes to the worker pool before the interval
\* of its files has ended.
THEOREM ReportsAreInTime == Spec => []NotEarly
<1>1. ReportInv => NotEarly
  BY DEF ReportInv, NotEarly, Sound, JobsMatch, BagToSet
<1>2. QED  BY <1>1, SchedulerReachable, PTL

\* As long as nothing fails, every record is on disk until it is reported or given
\* up, and is reported at most once.
THEOREM RecordsAreReportedOnce == Spec => []RecordReportedOnce
<1>1. ReportInv => RecordReportedOnce
  <2> SUFFICES ASSUME ReportInv, NoStaleEntries, NEW n \in 1..events
               PROVE  /\ sent[n] <= 1
                      /\ \/ sent[n] > 0 \/ n \in dropped
                         \/ \E path \in DOMAIN files : n \in files[path].records
    BY DEF RecordReportedOnce
  <2>1. n \in 1..MaxEvents
    BY ReportSchedulerAssumption DEF ReportInv, ReportType
  <2>2. QED  BY <2>1 DEF ReportInv, Sound, RecordsMatch
<1>2. QED  BY <1>1, SchedulerReachable, PTL

-----------------------------------------------------------------------------
(* TLS records after crashes                                               *)

\* The TLS reports that the worker pool has still to send, those with a file, and
\* whether the scheduler is filling it.
Unsent == {job \in DOMAIN jobs : ~job.sent /\ job.key \in Tls}
Holding(path) == {job \in Unsent : path \in job.paths}
Filling(path) ==
  IF path.key \in DOMAIN reports /\ path \in reports[path.key].paths THEN 1 ELSE 0

\* The earliest due time a file that is opened or filled now may have.
Bar(key) == IF key \in DOMAIN reports THEN DueOf(reports[key]) ELSE now + 1

\* A report with the files of one interval, and a job with a file that may be
\* opened or filled again.
Uniform(key) == \A path \in reports[key].paths : DueOf(path) = DueOf(reports[key])
Late(job) == \E path \in job.paths : DueOf(path) >= Bar(job.key)

\* Every entry of a TLS domain is the one of its report.
TlsEntries ==
  \A e \in DOMAIN main : e.key \in Tls =>
    main[e] = 1 /\ e.key \in DOMAIN reports /\ e.due = DueOf(reports[e.key])

\* Files are held under their key.
KeysMatch ==
  /\ \A key \in DOMAIN reports : \A path \in reports[key].paths : path.key = key
  /\ \A job \in DOMAIN jobs : \A path \in job.paths : path.key = job.key

\* Only the report that a restart loaded has files of several intervals, and it is
\* the first of its key to go to the worker pool.
TlsReports ==
  \A key \in DOMAIN reports : key \in Tls =>
    /\ \E path \in reports[key].paths : DueOf(path) = DueOf(reports[key])
    /\ Uniform(key) \/ (crashes > 0 /\ \A job \in Unsent : job.key # key)

\* At most one job of a key, one that a restart loaded, has a file that may be
\* opened again.
TlsJobs ==
  \A job \in Unsent :
    /\ jobs[job] = 1
    /\ \E path \in job.paths : DueOf(path) < Bar(job.key)
    /\ Late(job) => /\ crashes > 0
                    /\ \A other \in Unsent : other.key = job.key /\ Late(other) => other = job

\* A record is in one file, and has not been sent before it came.
RecordsApart ==
  /\ \A p \in DOMAIN files : files[p].records \subseteq 1..events
  /\ \A p, q \in DOMAIN files : p # q => files[p].records \cap files[q].records = {}
  /\ \A n \in 1..MaxEvents : n > events => sent[n] = 0

\* How often a record was sent, and may still be without another crash.
TlsCounts ==
  /\ IsFiniteSet(Unsent)
  /\ \A path \in DOMAIN files : path.key \in Tls => \A n \in files[path].records :
       sent[n] + Cardinality(Holding(path)) + Filling(path) <= 1 + crashes

TlsSound == TlsEntries /\ KeysMatch /\ TlsReports /\ TlsJobs /\ RecordsApart /\ TlsCounts

\* The earliest due time is a number.
LEMMA BarIsNat ==
  ASSUME ReportType, NEW key
  PROVE  Bar(key) \in Nat
<1>1. now \in Nat /\ \A k \in DOMAIN reports : reports[k] \in Report
  BY DEF ReportType
<1>2. QED  BY <1>1, ReportDueIsNat DEF Bar

\* It is after a step.
LEMMA NextBarIsNat ==
  ASSUME ReportType', NEW key
  PROVE  Bar(key)' \in Nat
<1>1. now' \in Nat /\ \A k \in DOMAIN reports' : reports'[k] \in Report
  BY DEF ReportType
<1>2. \A k \in DOMAIN reports' : DueOf(reports'[k]) \in Nat
  BY <1>1, ReportDueIsNat
<1>3. now' + 1 \in Nat
  <2>1. \A t \in Nat : t + 1 \in Nat
    OBVIOUS
  <2>2. QED  BY <1>1, <2>1
<1>4. QED  BY <1>2, <1>3 DEF Bar

\* The jobs that have a file.
LEMMA HoldingFacts ==
  ASSUME ReportType, TlsSound, NEW path
  PROVE  /\ IsFiniteSet(Holding(path)) /\ Cardinality(Holding(path)) \in Nat
         /\ \A job \in Holding(path) : job \in Unsent /\ job.key = path.key
<1>1. Holding(path) \subseteq Unsent /\ IsFiniteSet(Unsent)
  BY DEF Holding, TlsSound, TlsCounts
<1>2. IsFiniteSet(Holding(path)) /\ Cardinality(Holding(path)) \in Nat
  BY <1>1, FS_Subset, FS_CardinalityType
<1>3. \A job \in Holding(path) : job.key = path.key
  BY DEF Holding, Unsent, TlsSound, KeysMatch
<1>4. QED  BY <1>1, <1>2, <1>3

\* A file that may be opened or filled now is held by no more jobs than there were
\* crashes.
LEMMA FewHold ==
  ASSUME ReportType, TlsSound, NEW path \in Path,
         DueOf(path) >= Bar(path.key) \/ \A job \in Unsent : job.key # path.key
  PROVE  Cardinality(Holding(path)) <= crashes
<1>1. crashes \in Nat
  BY DEF ReportType
<1>2. CASE Holding(path) = {}
  BY <1>1, <1>2, FS_EmptySet
<1>3. CASE Holding(path) # {}
  <2>1. PICK job \in Holding(path) : TRUE
    BY <1>3
  <2>2. \A i \in Holding(path) : i \in Unsent /\ i.key = path.key /\ path \in i.paths
    BY HoldingFacts DEF Holding
  <2>3. DueOf(path) >= Bar(path.key)
    BY <2>1, <2>2
  <2>4. \A i \in Holding(path) : Late(i) /\ i.key = job.key
    BY <2>1, <2>2, <2>3 DEF Late
  <2>5. crashes > 0 /\ \A i \in Holding(path) : i = job
    BY <2>1, <2>2, <2>4 DEF TlsSound, TlsJobs
  <2>6. Holding(path) = {job}
    BY <2>1, <2>5
  <2>7. Cardinality(Holding(path)) = 1
    BY <2>6, FS_Singleton
  <2>8. QED  BY <1>1, <2>5, <2>7
<1>4. QED  BY <1>2, <1>3

\* The jobs keep to the invariant as long as none is added and the earliest due
\* time of a key never goes back.
LEMMA JobsKept ==
  ASSUME ReportType, ReportType', TlsSound, Unsent' \subseteq Unsent, crashes' = crashes,
         \A job \in Unsent' : jobs'[job] = jobs[job],
         \A key \in Tls : Bar(key)' >= Bar(key)
  PROVE  TlsJobs'
<1>1. ASSUME NEW job \in Unsent'
      PROVE  /\ job \in Unsent /\ Bar(job.key) \in Nat /\ Bar(job.key)' \in Nat
             /\ Bar(job.key)' >= Bar(job.key)
             /\ \A path \in job.paths : DueOf(path) \in Nat
  <2>1. job \in Unsent /\ job.key \in Tls /\ job \in JobType
    BY DEF Unsent, ReportType
  <2>2. \A path \in job.paths : path \in Path
    BY <2>1 DEF JobType
  <2>3. Bar(job.key) \in Nat /\ Bar(job.key)' \in Nat
    BY BarIsNat, NextBarIsNat
  <2>4. QED  BY <2>1, <2>2, <2>3, DueIsNat
<1>2. ASSUME NEW job \in Unsent', Late(job)'
      PROVE  Late(job)
  <2>1. PICK path \in job.paths : DueOf(path) >= Bar(job.key)'
    BY <1>2 DEF Late
  <2>2. DueOf(path) >= Bar(job.key)
    BY <1>1, <2>1
  <2>3. QED  BY <2>2 DEF Late
<1>3. ASSUME NEW job \in Unsent'
      PROVE  /\ jobs'[job] = 1
             /\ \E path \in job.paths : DueOf(path) < Bar(job.key)'
  <2>1. jobs[job] = 1 /\ \E path \in job.paths : DueOf(path) < Bar(job.key)
    BY <1>1 DEF TlsSound, TlsJobs
  <2>2. PICK path \in job.paths : DueOf(path) < Bar(job.key)
    BY <2>1
  <2>3. DueOf(path) < Bar(job.key)'
    BY <1>1, <2>2
  <2>4. QED  BY <2>1, <2>3
<1>4. ASSUME NEW job \in Unsent', Late(job)'
      PROVE  /\ crashes' > 0
             /\ \A other \in Unsent' : other.key = job.key /\ Late(other)' => other = job
  <2>1. job \in Unsent /\ Late(job)
    BY <1>1, <1>2, <1>4
  <2>2. crashes > 0 /\ \A other \in Unsent : other.key = job.key /\ Late(other) => other = job
    BY <2>1 DEF TlsSound, TlsJobs
  <2>3. QED  BY <1>1, <1>2, <2>2
<1>5. QED  BY <1>3, <1>4 DEF TlsJobs

\* Time passing keeps the account of TLS records.
LEMMA TickKeepsTls ==
  ASSUME ReportType, ReportType', TlsSound, Tick
  PROVE  TlsSound'
<1>1. /\ UNCHANGED <<main, reports, files, jobs, events, sent, crashes>>
      /\ now' = now + 1 /\ now \in Nat
  BY DEF Tick, ghosts, bounds, ReportType
<1>2. Unsent' = Unsent
  BY <1>1 DEF Unsent
<1>3. ASSUME NEW key \in Tls
      PROVE  Bar(key)' >= Bar(key)
  <2>1. Bar(key) \in Nat
    BY BarIsNat
  <2>2. QED  BY <1>1, <2>1 DEF Bar
<1>4. TlsJobs'
  BY <1>1, <1>2, <1>3, JobsKept
<1>5. \A path : Holding(path)' = Holding(path) /\ Filling(path)' = Filling(path)
  BY <1>1, <1>2 DEF Holding, Filling
<1>6. TlsEntries' /\ KeysMatch' /\ RecordsApart'
  BY <1>1 DEF TlsSound, TlsEntries, KeysMatch, RecordsApart
<1>7. TlsReports'
  BY <1>1, <1>2 DEF TlsSound, TlsReports, Uniform
<1>8. TlsCounts'
  BY <1>1, <1>2, <1>5 DEF TlsSound, TlsCounts
<1>9. QED  BY <1>4, <1>6, <1>7, <1>8 DEF TlsSound

\* Removing the files of a report that was sent keeps the account of TLS records.
LEMMA CleanupKeepsTls ==
  ASSUME ReportType, ReportType', TlsSound, NEW job \in DOMAIN jobs, Cleanup(job)
  PROVE  TlsSound'
<1>1. /\ UNCHANGED <<now, main, reports, events, sent, crashes>> /\ job.sent
      /\ files' = Without(files, job.paths) /\ jobs' = Less(jobs, job) /\ IsABag(jobs)
  BY DEF Cleanup, ghosts, bounds, ReportType
<1>2. /\ DOMAIN files' \subseteq DOMAIN files
      /\ \A p \in DOMAIN files' : files'[p] = files[p]
  BY <1>1 DEF Without
<1>3. /\ DOMAIN jobs' \subseteq DOMAIN jobs /\ DOMAIN jobs \ {job} \subseteq DOMAIN jobs'
      /\ \A i \in DOMAIN jobs : i # job => jobs'[i] = jobs[i]
  BY <1>1, BagTake
<1>4. Unsent' = Unsent /\ \A i \in Unsent' : jobs'[i] = jobs[i]
  BY <1>1, <1>3 DEF Unsent
<1>5. ASSUME NEW key \in Tls
      PROVE  Bar(key)' >= Bar(key)
  <2>1. Bar(key) \in Nat /\ Bar(key)' = Bar(key)
    BY <1>1, BarIsNat DEF Bar
  <2>2. QED  BY <2>1
<1>6. TlsJobs'
  BY <1>1, <1>4, <1>5, JobsKept
<1>7. \A path : Holding(path)' = Holding(path) /\ Filling(path)' = Filling(path)
  BY <1>1, <1>4 DEF Holding, Filling
<1>8. TlsEntries' /\ KeysMatch' /\ RecordsApart'
  BY <1>1, <1>2, <1>3 DEF TlsSound, TlsEntries, KeysMatch, RecordsApart
<1>9. TlsReports'
  BY <1>1, <1>4 DEF TlsSound, TlsReports, Uniform
<1>10. TlsCounts'
  BY <1>1, <1>2, <1>4, <1>7 DEF TlsSound, TlsCounts
<1>11. QED  BY <1>6, <1>8, <1>9, <1>10 DEF TlsSound

\* A restart keeps the account of TLS records: nothing is left with the worker pool,
\* every file of a TLS key is in its report again, and a record may be sent once
\* more than before.
LEMMA CrashKeepsTls ==
  ASSUME ReportType, ReportType', TlsSound, Crash
  PROVE  TlsSound'
<1>1. PICK onDisk, first :
        LET keys == {path.key : path \in onDisk}
        IN /\ onDisk \subseteq DOMAIN files
           /\ \A key \in keys : first[key] \in onDisk /\ first[key].key = key
           /\ files' = Without(files, DOMAIN files \ onDisk)
           /\ reports' = [key \in keys |-> Loaded(onDisk, key, first[key])]
           /\ main' = LoadedEntries(onDisk, first)
  BY CrashEffect
<1>2. /\ UNCHANGED <<events, sent>> /\ crashes' = crashes + 1 /\ crashes \in Nat
      /\ DOMAIN jobs' = {}
  BY BagEmpty DEF Crash, ghosts, ReportType
<1>3. Unsent' = {} /\ \A path : Holding(path)' = {}
  BY <1>2 DEF Unsent, Holding
<1>4. /\ DOMAIN files' \subseteq DOMAIN files
      /\ \A p \in DOMAIN files' : files'[p] = files[p]
  BY <1>1 DEF Without
<1>5. onDisk \in SUBSET Path /\ IsFiniteSet(onDisk)
  BY <1>1, FS_Subset DEF ReportType
<1>6. ASSUME NEW key \in DOMAIN reports'
      PROVE  /\ first[key] \in onDisk /\ first[key].key = key
             /\ DueOf(reports'[key]) = DueOf(first[key]) /\ first[key] \in reports'[key].paths
             /\ \A path \in reports'[key].paths : path.key = key
  <2>1. /\ first[key] \in onDisk /\ first[key].key = key
        /\ reports'[key] = Loaded(onDisk, key, first[key])
    BY <1>1, <1>6
  <2>2. QED  BY <2>1 DEF Loaded, DueOf, PathsOf
<1>7. TlsEntries'
  <2> SUFFICES ASSUME NEW e \in DOMAIN main', e.key \in Tls
               PROVE  main'[e] = 1 /\ e.key \in DOMAIN reports' /\ e.due = DueOf(reports'[e.key])
    BY DEF TlsEntries
  <2> DEFINE P == Pushed(onDisk, first)
             copies == {path \in P : Entry(path.key, DueOf(path)) = e}
  <2>1. e \in {Entry(path.key, DueOf(path)) : path \in P}
    BY <1>1, <1>5, LoadedBag
  <2>2. PICK path \in P : e = Entry(path.key, DueOf(path))
    BY <2>1
  <2>3. path.key = e.key /\ e.due = DueOf(path)
    BY <2>2 DEF Entry
  <2>4. \A p \in P : p \in onDisk /\ (p.key \in Tls => p = first[p.key])
    BY ReportSchedulerAssumption DEF Pushed
  <2>5. e.key \in DOMAIN reports' /\ path = first[e.key]
    BY <1>1, <2>2, <2>3, <2>4
  <2>6. copies = {path}
    <3>1. path \in copies /\ copies \subseteq P /\ \A p \in copies : p.key = e.key
      BY <2>2 DEF Entry
    <3> HIDE DEF copies, P
    <3>2. \A p \in copies : p = path
      BY <2>4, <2>5, <3>1
    <3>3. QED  BY <3>1, <3>2
  <2>7. main'[e] = Cardinality(copies)
    BY <1>1, <2>1 DEF LoadedEntries
  <2>8. main'[e] = 1
    BY <2>6, <2>7, FS_Singleton
  <2>9. QED  BY <1>6, <2>3, <2>5, <2>8
<1>8. KeysMatch' /\ TlsReports' /\ TlsJobs' /\ RecordsApart'
  <2>1. KeysMatch'
    BY <1>2, <1>6 DEF KeysMatch
  <2>2. TlsReports'
    BY <1>2, <1>3, <1>6 DEF TlsReports
  <2>3. TlsJobs'
    BY <1>3 DEF TlsJobs
  <2>4. RecordsApart'
    BY <1>2, <1>4 DEF TlsSound, RecordsApart
  <2>5. QED  BY <2>1, <2>2, <2>3, <2>4
<1>9. TlsCounts'
  <2>1. IsFiniteSet(Unsent') /\ Cardinality({}) = 0
    BY <1>3, FS_EmptySet
  <2>2. ASSUME NEW path \in DOMAIN files', path.key \in Tls, NEW n \in files'[path].records
        PROVE  sent'[n] + Cardinality(Holding(path)') + Filling(path)' <= 1 + crashes'
    <3>1. path \in DOMAIN files /\ n \in files[path].records
      BY <1>4, <2>2
    <3>2. sent[n] + Cardinality(Holding(path)) + Filling(path) <= 1 + crashes
      BY <2>2, <3>1 DEF TlsSound, TlsCounts
    <3>3. /\ sent[n] \in Nat /\ Cardinality(Holding(path)) \in Nat
          /\ Filling(path) \in {0, 1} /\ Filling(path)' \in {0, 1}
      <4>1. n \in 1..MaxEvents
        BY <3>1 DEF ReportType, FileType
      <4>2. QED  BY <4>1, HoldingFacts DEF Filling, ReportType
    <3>4. Cardinality(Holding(path)') = 0
      BY <1>3, <2>1
    <3>5. QED  BY <1>2, <3>2, <3>3, <3>4
  <2>3. QED  BY <2>1, <2>2 DEF TlsCounts
<1>10. QED  BY <1>7, <1>8, <1>9 DEF TlsSound

\* Sending a report, or giving it up, keeps the account of TLS records: what is sent
\* once more is held by one job less.
LEMMA SendKeepsTls ==
  ASSUME ReportType, ReportType', TlsSound, NEW job \in DOMAIN jobs,
         generate_dmarc_report(job) \/ generate_tls_report(job)
  PROVE  TlsSound'
<1> DEFINE done == [job EXCEPT !.sent = TRUE]
           R == RecordsOf(Readable(job))
<1>1. /\ UNCHANGED <<now, main, reports, files, events, crashes>> /\ ~job.sent
      /\ job.key \in Dmarc \/ (job.key \in Tls /\ jobs' = Sent(job))
      /\ jobs' \in {Sent(job), Less(jobs, job)}
  BY DEF generate_dmarc_report, generate_tls_report, SendReport, bounds
<1>2. \/ sent' = [n \in DOMAIN sent |-> IF n \in R THEN sent[n] + 1 ELSE sent[n]]
      \/ sent' = sent
  BY DEF generate_dmarc_report, generate_tls_report, SendReport
<1>3. done.paths = job.paths /\ done.key = job.key /\ done.sent
  BY SentJobs
<1>4. \A n \in R : \E p \in job.paths \cap DOMAIN files : n \in files[p].records
  BY DEF RecordsOf, Readable
<1>5. IsABag(jobs) /\ IsABag(Less(jobs, job))
  BY BagTake DEF ReportType
<1>6. /\ DOMAIN Less(jobs, job) \subseteq DOMAIN jobs
      /\ DOMAIN jobs \ {job} \subseteq DOMAIN Less(jobs, job)
      /\ jobs[job] = 1 => job \notin DOMAIN Less(jobs, job)
      /\ \A i \in DOMAIN jobs : i # job => Less(jobs, job)[i] = jobs[i]
  BY <1>5, BagTake
<1>7. Sent(job) = Plus(Less(jobs, job), done)
  BY DEF Sent
<1> HIDE DEF done, R
<1>8. /\ DOMAIN Sent(job) = DOMAIN Less(jobs, job) \cup {done}
      /\ \A i \in DOMAIN Less(jobs, job) : i # done => Sent(job)[i] = Less(jobs, job)[i]
  <2> DEFINE rest == Less(jobs, job)
  <2>1. IsABag(rest) /\ Sent(job) = Plus(rest, done)
    BY <1>5, <1>7
  <2> HIDE DEF rest
  <2>2. /\ DOMAIN Plus(rest, done) = DOMAIN rest \cup {done}
        /\ \A i \in DOMAIN rest : i # done => Plus(rest, done)[i] = rest[i]
    BY <2>1, BagAdd
  <2>3. QED  BY <2>1, <2>2 DEF rest
<1>9. /\ DOMAIN jobs' \subseteq DOMAIN jobs \cup {done}
      /\ DOMAIN jobs \ {job} \subseteq DOMAIN jobs'
      /\ jobs[job] = 1 => job \notin DOMAIN jobs'
      /\ \A i \in DOMAIN jobs : i # job /\ i # done => jobs'[i] = jobs[i]
  <2>1. CASE jobs' = Sent(job)
    BY <1>1, <1>3, <1>6, <1>8, <2>1
  <2>2. CASE jobs' = Less(jobs, job)
    BY <1>6, <2>2
  <2>3. QED  BY <1>1, <2>1, <2>2
<1>10. Dmarc \cap Tls = {}
  BY ReportSchedulerAssumption
<1>11. job.key \in Tls => job \in Unsent /\ jobs[job] = 1
  BY <1>1 DEF Unsent, TlsSound, TlsJobs
<1>12. Unsent' = Unsent \ {job}
  BY <1>3, <1>9, <1>10, <1>11, <1>1 DEF Unsent
<1>13. \A i \in Unsent' : jobs'[i] = jobs[i]
  BY <1>3, <1>9, <1>12 DEF Unsent
<1>14. ASSUME NEW key \in Tls
       PROVE  Bar(key)' >= Bar(key)
  <2>1. Bar(key) \in Nat /\ Bar(key)' = Bar(key)
    BY <1>1, BarIsNat DEF Bar
  <2>2. QED  BY <2>1
<1>15. TlsJobs'
  BY <1>1, <1>12, <1>13, <1>14, JobsKept
<1>16. TlsEntries' /\ KeysMatch'
  BY <1>1, <1>3, <1>9 DEF TlsSound, TlsEntries, KeysMatch
<1>17. TlsReports'
  BY <1>1, <1>12 DEF TlsSound, TlsReports, Uniform
<1>18. R \subseteq 1..events /\ 1..events \subseteq 1..MaxEvents /\ events \in Nat
       /\ sent \in [1..MaxEvents -> Nat]
  <2>1. R \subseteq 1..events
    BY <1>4 DEF TlsSound, RecordsApart
  <2>2. QED  BY <2>1, ReportSchedulerAssumption DEF ReportType
<1>19. \A n \in 1..MaxEvents : /\ n \notin R => sent'[n] = sent[n]
                               /\ n \in R => sent'[n] \in {sent[n], sent[n] + 1}
  BY <1>2, <1>18
<1>20. RecordsApart'
  <2>1. \A n \in 1..MaxEvents : n > events => n \notin R
    BY <1>18
  <2>2. QED  BY <1>1, <1>19, <2>1 DEF TlsSound, RecordsApart
<1>21. TlsCounts'
  <2>1. IsFiniteSet(Unsent)'
    BY <1>12, FS_Subset DEF TlsSound, TlsCounts
  <2>2. ASSUME NEW path \in DOMAIN files, path.key \in Tls, NEW n \in files[path].records
        PROVE  sent'[n] + Cardinality(Holding(path)') + Filling(path)' <= 1 + crashes'
    <3>1. n \in 1..MaxEvents
      BY DEF ReportType, FileType
    <3>2. sent[n] + Cardinality(Holding(path)) + Filling(path) <= 1 + crashes
      BY <2>2 DEF TlsSound, TlsCounts
    <3>3. Filling(path)' = Filling(path) /\ crashes' = crashes /\ Filling(path) \in {0, 1}
      BY <1>1 DEF Filling
    <3>4. IsFiniteSet(Holding(path)) /\ Cardinality(Holding(path)) \in Nat
      BY HoldingFacts
    <3>5. Holding(path)' = Holding(path) \ {job}
      BY <1>12 DEF Holding
    <3>6. CASE n \in R
      <4>1. path \in job.paths
        BY <1>4, <3>6 DEF TlsSound, RecordsApart
      <4>2. job.key \in Tls
        BY <2>2, <4>1 DEF TlsSound, KeysMatch
      <4>3. job \in Holding(path)
        BY <1>11, <4>1, <4>2 DEF Holding
      <4>4. Cardinality(Holding(path) \ {job}) = Cardinality(Holding(path)) - 1
        BY <3>4, <4>3, FS_RemoveElement
      <4>5. sent'[n] \in {sent[n], sent[n] + 1} /\ sent[n] \in Nat
        BY <1>18, <1>19, <3>1, <3>6
      <4>6. \A s, t, h, f, c \in Nat :
              s + h + f <= 1 + c /\ t \in {s, s + 1} => t + (h - 1) + f <= 1 + c
        OBVIOUS
      <4>7. crashes \in Nat /\ sent'[n] \in Nat /\ Filling(path) \in Nat
        BY <3>3, <4>5 DEF ReportType
      <4>8. QED  BY <3>2, <3>3, <3>4, <3>5, <4>4, <4>5, <4>6, <4>7
    <3>7. CASE n \notin R
      <4>1. Cardinality(Holding(path) \ {job}) <= Cardinality(Holding(path))
        BY <3>4, FS_Subset
      <4>2. Cardinality(Holding(path) \ {job}) \in Nat
        BY <3>4, FS_Subset, FS_CardinalityType
      <4>3. sent'[n] = sent[n] /\ sent[n] \in Nat /\ crashes \in Nat /\ Filling(path) \in Nat
        BY <1>18, <1>19, <3>1, <3>3, <3>7 DEF ReportType
      <4>4. \A s, h, g, f, c \in Nat : s + h + f <= 1 + c /\ g <= h => s + g + f <= 1 + c
        OBVIOUS
      <4>5. QED  BY <3>2, <3>3, <3>4, <3>5, <4>1, <4>2, <4>3, <4>4
    <3>8. QED  BY <3>6, <3>7
  <2>3. QED  BY <1>1, <2>1, <2>2 DEF TlsCounts
<1>22. QED  BY <1>15, <1>16, <1>17, <1>20, <1>21 DEF TlsSound

\* Where all files of a report are of its interval or no job of its key is left, its
\* files are held by no more jobs than there were crashes.
LEMMA FewHoldOpen ==
  ASSUME ReportType, TlsSound, NEW key \in DOMAIN reports, key \in Tls,
         NEW path \in reports[key].paths
  PROVE  path.key = key /\ path \in Path /\ Cardinality(Holding(path)) <= crashes
<1>1. path.key = key /\ path \in Path /\ reports[key] \in Report
  BY DEF TlsSound, KeysMatch, ReportType, Report
<1>2. Bar(key) = DueOf(reports[key]) /\ DueOf(path) \in Nat
  BY <1>1, DueIsNat DEF Bar
<1>3. DueOf(path) = Bar(key) \/ \A job \in Unsent : job.key # key
  BY <1>2 DEF TlsSound, TlsReports, Uniform
<1>4. DueOf(path) >= Bar(path.key) \/ \A job \in Unsent : job.key # path.key
  BY <1>1, <1>2, <1>3
<1>5. QED  BY <1>1, <1>4, FewHold

\* Adding a record to a file, or leaving it out, keeps the account of TLS records.
LEMMA AppendKeepsTls ==
  ASSUME ReportType, ReportType', TlsSound, NEW key \in DOMAIN reports,
         NEW path \in reports[key].paths,
         json_append(key, reports[key], path, events + 1), errors' = errors,
         events' = events + 1, events < MaxEvents, UNCHANGED <<now, main, jobs, sent, crashes>>
  PROVE  TlsSound'
<1> DEFINE n == events + 1
<1>1. /\ DOMAIN reports' = DOMAIN reports /\ DOMAIN files' = DOMAIN files
      /\ \A k \in DOMAIN reports :
           /\ reports'[k].paths = reports[k].paths
           /\ reports'[k].created = reports[k].created
           /\ reports'[k].interval = reports[k].interval
  BY AppendEffect
<1>2. \A k \in DOMAIN reports : DueOf(reports'[k]) = DueOf(reports[k])
  BY <1>1 DEF DueOf
<1>3. n \in 1..MaxEvents /\ events \in Nat /\ errors \in Nat
  BY ReportSchedulerAssumption DEF ReportType
<1>4. \A p \in DOMAIN files : \/ files'[p].records = files[p].records
                              \/ p = path /\ files'[p].records = files[p].records \cup {n}
  <2>1. \/ files' = files
        \/ path \in DOMAIN files /\ files' = [files EXCEPT ![path].records = @ \cup {n}]
    BY <1>3 DEF json_append
  <2>2. QED  BY <2>1 DEF ReportType, FileType
<1>5. Unsent' = Unsent
  BY DEF Unsent
<1>6. \A p : Holding(p)' = Holding(p) /\ Filling(p)' = Filling(p)
  BY <1>1, <1>5 DEF Holding, Filling
<1>7. ASSUME NEW k \in Tls
      PROVE  Bar(k)' >= Bar(k)
  <2>1. Bar(k) \in Nat /\ Bar(k)' = Bar(k)
    BY <1>1, <1>2, BarIsNat DEF Bar
  <2>2. QED  BY <2>1
<1>8. TlsJobs'
  BY <1>5, <1>7, JobsKept
<1>9. TlsEntries' /\ KeysMatch'
  BY <1>1, <1>2 DEF TlsSound, TlsEntries, KeysMatch
<1>10. TlsReports'
  BY <1>1, <1>2, <1>5 DEF TlsSound, TlsReports, Uniform
<1>11. RecordsApart'
  <2>1. \A p \in DOMAIN files : files[p].records \subseteq 1..events
    BY DEF TlsSound, RecordsApart
  <2>2. n \notin 1..events /\ 1..events \subseteq 1..n /\ n \in 1..n
    BY <1>3
  <2>3. \A m \in 1..MaxEvents : m > n => sent[m] = 0
    BY <1>3 DEF TlsSound, RecordsApart
  <2>4. events' = n /\ sent' = sent
    OBVIOUS
  <2>5. \A p, q \in DOMAIN files : p # q => files[p].records \cap files[q].records = {}
    BY DEF TlsSound, RecordsApart
  <2> HIDE DEF n
  <2>6. \A p \in DOMAIN files : files'[p].records \subseteq 1..n
    BY <1>4, <2>1, <2>2
  <2>7. \A p, q \in DOMAIN files : p # q => files'[p].records \cap files'[q].records = {}
    BY <1>4, <2>1, <2>2, <2>5
  <2>8. QED  BY <1>1, <2>3, <2>4, <2>6, <2>7 DEF RecordsApart
<1>12. TlsCounts'
  <2>1. IsFiniteSet(Unsent)'
    BY <1>5 DEF TlsSound, TlsCounts
  <2>2. ASSUME NEW p \in DOMAIN files, p.key \in Tls, NEW m \in files'[p].records
        PROVE  sent[m] + Cardinality(Holding(p)) + Filling(p) <= 1 + crashes
    <3>1. CASE m \in files[p].records
      BY <2>2, <3>1 DEF TlsSound, TlsCounts
    <3>2. CASE m \notin files[p].records
      <4>1. p = path /\ m = n
        BY <1>4, <2>2, <3>2
      <4>2. sent[m] = 0
        BY <1>3, <4>1 DEF TlsSound, RecordsApart
      <4>3. key \in Tls
        BY <2>2, <4>1 DEF TlsSound, KeysMatch
      <4>4. Cardinality(Holding(p)) <= crashes
        BY <4>1, <4>3, FewHoldOpen
      <4>5. Cardinality(Holding(p)) \in Nat /\ crashes \in Nat /\ Filling(p) \in {0, 1}
        BY HoldingFacts DEF ReportType, Filling
      <4>6. QED  BY <4>2, <4>4, <4>5
    <3>3. QED  BY <3>1, <3>2
  <2>3. QED  BY <1>1, <1>6, <2>1, <2>2 DEF TlsCounts
<1>13. QED  BY <1>8, <1>9, <1>10, <1>11, <1>12 DEF TlsSound

\* Opening a file keeps the account of TLS records, even in place of one that a job
\* loaded by a restart has.
LEMMA WriteKeepsTls ==
  ASSUME ReportType, ReportType', TlsSound, NEW key \in Keys, NEW report \in Report,
         NEW path \in Path, Written(key, report, path), crashes' = crashes
  PROVE  TlsSound'
<1> DEFINE more == [report EXCEPT !.paths = @ \cup {path}, !.size = @ + 1]
           n == events + 1
<1>1. /\ more.paths = report.paths \cup {path}
      /\ more.created = report.created /\ more.interval = report.interval
  BY DEF Report
<1>2. DueOf(more) = DueOf(report) /\ DueOf(path) = DueOf(report) /\ DueOf(report) \in Nat
  BY <1>1, ReportDueIsNat DEF DueOf, Written
<1>3. reports' = With(reports, key, more)
  BY DEF Written
<1> HIDE DEF more
<1>4. /\ DOMAIN reports' = DOMAIN reports \cup {key} /\ reports'[key] = more
      /\ \A k \in DOMAIN reports : k # key => reports'[k] = reports[k]
  BY <1>3 DEF With
<1>5. /\ DOMAIN files' = DOMAIN files \cup {path} /\ files'[path].records = {n}
      /\ \A p \in DOMAIN files : p # path => files'[p] = files[p]
  BY DEF With, Written
<1>6. jobs' = jobs /\ now' = now /\ sent' = sent /\ events' = n /\ path.key = key
  BY DEF Written
<1>7. n \in 1..MaxEvents /\ events \in Nat /\ now \in Nat
  BY ReportSchedulerAssumption DEF Written, ReportType
<1>8. \/ key \in DOMAIN reports /\ report = reports[key] /\ main' = main
      \/ /\ key \notin DOMAIN reports /\ report.paths = {} /\ DueOf(report) > now
         /\ main' = Plus(main, Entry(key, DueOf(report)))
  BY DEF Written
<1>9. Unsent' = Unsent /\ \A p : Holding(p)' = Holding(p)
  BY <1>6 DEF Unsent, Holding
<1>10. Bar(key) <= DueOf(report) /\ Bar(key) \in Nat
  <2>1. CASE key \in DOMAIN reports /\ report = reports[key]
    BY <1>2, <2>1 DEF Bar
  <2>2. CASE key \notin DOMAIN reports /\ DueOf(report) > now
    BY <1>2, <1>7, <2>2 DEF Bar
  <2>3. QED  BY <1>8, <2>1, <2>2
<1>11. ASSUME NEW k \in Tls
       PROVE  Bar(k)' >= Bar(k)
  <2>1. CASE k = key
    <3>1. Bar(k)' = DueOf(report)
      BY <1>2, <1>4, <2>1 DEF Bar
    <3>2. QED  BY <1>2, <1>10, <2>1, <3>1
  <2>2. CASE k # key
    <3>1. Bar(k)' = Bar(k) /\ Bar(k) \in Nat
      BY <1>4, <1>6, <2>2, BarIsNat DEF Bar
    <3>2. QED  BY <3>1
  <2>3. QED  BY <2>1, <2>2
<1>12. TlsJobs'
  BY <1>6, <1>9, <1>11, JobsKept
<1>13. TlsEntries'
  <2>1. CASE key \in DOMAIN reports /\ report = reports[key] /\ main' = main
    BY <1>2, <1>4, <2>1 DEF TlsSound, TlsEntries
  <2>2. CASE key \notin DOMAIN reports /\ main' = Plus(main, Entry(key, DueOf(report)))
    <3> DEFINE new == Entry(key, DueOf(report))
    <3>1. new.key = key /\ new.due = DueOf(report) /\ main' = Plus(main, new)
      BY <2>2 DEF Entry
    <3> HIDE DEF new
    <3>2. IsABag(main) /\ (key \in Tls => new \notin DOMAIN main)
      BY <2>2, <3>1 DEF TlsSound, TlsEntries, ReportType
    <3>3. /\ DOMAIN main' = DOMAIN main \cup {new}
          /\ new \notin DOMAIN main => main'[new] = 1
          /\ \A e \in DOMAIN main : e # new => main'[e] = main[e]
      <4>1. IsABag(main)
        BY <3>2
      <4>2. /\ DOMAIN Plus(main, new) = DOMAIN main \cup {new}
            /\ new \notin DOMAIN main => Plus(main, new)[new] = 1
            /\ \A e \in DOMAIN main : e # new => Plus(main, new)[e] = main[e]
        BY <4>1, BagAdd
      <4>3. QED  BY <3>1, <4>2
    <3>4. ASSUME NEW e \in DOMAIN main', e.key \in Tls
          PROVE  main'[e] = 1 /\ e.key \in DOMAIN reports' /\ e.due = DueOf(reports'[e.key])
      <4>1. CASE e = new
        BY <1>2, <1>4, <3>1, <3>2, <3>3, <3>4, <4>1
      <4>2. CASE e # new
        <5>1. /\ e \in DOMAIN main /\ main[e] = 1 /\ main'[e] = main[e]
              /\ e.key \in DOMAIN reports /\ e.due = DueOf(reports[e.key])
          BY <3>3, <3>4, <4>2 DEF TlsSound, TlsEntries
        <5>2. QED  BY <1>4, <2>2, <5>1
      <4>3. QED  BY <4>1, <4>2
    <3>5. QED  BY <3>4 DEF TlsEntries
  <2>3. QED  BY <1>8, <2>1, <2>2
<1>14. KeysMatch'
  <2>1. \A p \in more.paths : p.key = key
    BY <1>1, <1>6, <1>8 DEF TlsSound, KeysMatch
  <2>2. QED  BY <1>4, <1>6, <2>1 DEF TlsSound, KeysMatch
<1>15. TlsReports'
  <2> SUFFICES ASSUME NEW k \in DOMAIN reports', k \in Tls
               PROVE  /\ \E p \in reports'[k].paths : DueOf(p) = DueOf(reports'[k])
                      /\ \/ \A p \in reports'[k].paths : DueOf(p) = DueOf(reports'[k])
                         \/ crashes > 0 /\ \A job \in Unsent : job.key # k
    BY <1>9 DEF TlsReports, Uniform
  <2>1. CASE k # key
    BY <1>4, <2>1 DEF TlsSound, TlsReports, Uniform
  <2>2. CASE k = key
    <3>1. path \in more.paths /\ DueOf(path) = DueOf(more) /\ reports'[k] = more
      BY <1>1, <1>2, <1>4, <2>2
    <3>2. \/ \A p \in report.paths : DueOf(p) = DueOf(report)
          \/ crashes > 0 /\ \A job \in Unsent : job.key # key
      BY <1>8, <2>2 DEF TlsSound, TlsReports, Uniform
    <3>3. QED  BY <1>1, <1>2, <2>2, <3>1, <3>2
  <2>3. QED  BY <2>1, <2>2
<1>16. RecordsApart'
  <2>1. \A p \in DOMAIN files : files[p].records \subseteq 1..events
    BY DEF TlsSound, RecordsApart
  <2>2. n \notin 1..events /\ 1..events \subseteq 1..n /\ n \in 1..n
    BY <1>7
  <2>3. \A m \in 1..MaxEvents : m > n => sent[m] = 0
    BY <1>7 DEF TlsSound, RecordsApart
  <2>4. \A p, q \in DOMAIN files : p # q => files[p].records \cap files[q].records = {}
    BY DEF TlsSound, RecordsApart
  <2> HIDE DEF n
  <2>5. \A p \in DOMAIN files' : files'[p].records \subseteq 1..n
    BY <1>5, <2>1, <2>2
  <2>6. \A p \in DOMAIN files : n \notin files[p].records
    BY <2>1, <2>2
  <2>7. \A p, q \in DOMAIN files' : p # q => files'[p].records \cap files'[q].records = {}
    BY <1>5, <2>4, <2>6
  <2>8. QED  BY <1>6, <2>3, <2>5, <2>7 DEF RecordsApart
<1>17. TlsCounts'
  <2>1. IsFiniteSet(Unsent)'
    BY <1>9 DEF TlsSound, TlsCounts
  <2>2. ASSUME NEW p \in DOMAIN files', p.key \in Tls, NEW m \in files'[p].records
        PROVE  sent[m] + Cardinality(Holding(p)) + Filling(p)' <= 1 + crashes
    <3>1. CASE p = path
      <4>1. sent[m] = 0
        BY <1>5, <1>7, <2>2, <3>1 DEF TlsSound, RecordsApart
      <4>2. Cardinality(Holding(p)) <= crashes
        BY <1>2, <1>6, <1>10, <3>1, FewHold
      <4>3. Cardinality(Holding(p)) \in Nat /\ crashes \in Nat /\ Filling(p)' \in {0, 1}
        BY HoldingFacts DEF ReportType, Filling
      <4>4. QED  BY <4>1, <4>2, <4>3
    <3>2. CASE p # path
      <4>1. p \in DOMAIN files /\ m \in files[p].records
        BY <1>5, <2>2, <3>2
      <4>2. Filling(p)' = Filling(p)
        <5>1. CASE p.key = key
          <6>1. p \in more.paths <=> p \in report.paths
            BY <1>1, <3>2
          <6>2. QED  BY <1>4, <1>8, <5>1, <6>1 DEF Filling
        <5>2. CASE p.key # key
          BY <1>4, <5>2 DEF Filling
        <5>3. QED  BY <5>1, <5>2
      <4>3. QED  BY <2>2, <4>1, <4>2 DEF TlsSound, TlsCounts
    <3>3. QED  BY <3>1, <3>2
  <2>3. QED  BY <1>6, <1>9, <2>1, <2>2 DEF TlsCounts
<1>18. QED  BY <1>12, <1>13, <1>14, <1>15, <1>16, <1>17 DEF TlsSound

\* Handing a due TLS report to the worker pool keeps the account of TLS records: its
\* files pass from the report to the job.
LEMMA TlsDueKeepsTls ==
  ASSUME ReportType, ReportType', TlsSound, NEW e \in DOMAIN main, IsDue(e), e.key \in Tls,
         main' = Less(main, e), jobs' = Plus(jobs, Job(e.key)),
         reports' = Without(reports, {e.key}),
         UNCHANGED <<now, files, events, sent, crashes>>
  PROVE  TlsSound'
<1> DEFINE key == e.key
<1>1. PICK new : new = Job(key)
  OBVIOUS
<1>2. main[e] = 1 /\ key \in DOMAIN reports /\ e.due = DueOf(reports[key])
  BY DEF TlsSound, TlsEntries
<1>3. /\ new.key = key /\ new.paths = reports[key].paths /\ ~new.sent
      /\ jobs' = Plus(jobs, new) /\ IsABag(jobs) /\ IsABag(main)
  BY <1>1 DEF Job, ReportType
<1>4. /\ DueOf(reports[key]) <= now /\ now \in Nat /\ DueOf(reports[key]) \in Nat
      /\ Bar(key) = DueOf(reports[key])
  <2>1. reports[key] \in Report
    BY <1>2 DEF ReportType
  <2>2. QED  BY <1>2, <2>1, ReportDueIsNat DEF IsDue, Bar, ReportType
<1>5. /\ DOMAIN reports' = DOMAIN reports \ {key}
      /\ \A k \in DOMAIN reports' : reports'[k] = reports[k]
  BY DEF Without
<1>6. Bar(key)' = now + 1
  BY <1>5 DEF Bar
<1>7. \A p \in new.paths : p \in Path /\ p.key = key /\ DueOf(p) \in Nat
  <2>1. \A p \in new.paths : p \in Path /\ p.key = key
    BY <1>2, <1>3 DEF ReportType, Report, TlsSound, KeysMatch
  <2>2. QED  BY <2>1, DueIsNat
<1>8. /\ \E p \in new.paths : DueOf(p) = DueOf(reports[key])
      /\ \/ \A p \in new.paths : DueOf(p) = DueOf(reports[key])
         \/ crashes > 0 /\ \A job \in Unsent : job.key # key
  BY <1>2, <1>3 DEF TlsSound, TlsReports, Uniform
<1>9. new \notin DOMAIN jobs
  <2> SUFFICES ASSUME new \in DOMAIN jobs
               PROVE  FALSE
    OBVIOUS
  <2>1. new \in Unsent
    BY <1>3 DEF Unsent
  <2>2. \E p \in new.paths : DueOf(p) < DueOf(reports[key])
    BY <1>3, <1>4, <2>1 DEF TlsSound, TlsJobs
  <2>3. QED  BY <1>3, <1>4, <1>8, <2>1, <2>2
<1>10. /\ DOMAIN jobs' = DOMAIN jobs \cup {new} /\ jobs'[new] = 1
      /\ \A job \in DOMAIN jobs : jobs'[job] = jobs[job]
  <2>1. IsABag(jobs)
    BY <1>3
  <2>2. /\ DOMAIN Plus(jobs, new) = DOMAIN jobs \cup {new} /\ Plus(jobs, new)[new] = 1
        /\ \A job \in DOMAIN jobs : job # new => Plus(jobs, new)[job] = jobs[job]
    BY <1>9, <2>1, BagAdd
  <2>3. QED  BY <1>3, <1>9, <2>2
<1>11. Unsent' = Unsent \cup {new} /\ new \notin Unsent
  BY <1>3, <1>9, <1>10 DEF Unsent
<1>12. TlsEntries'
  <2>1. /\ DOMAIN main' \subseteq DOMAIN main /\ e \notin DOMAIN main'
        /\ \A f \in DOMAIN main' : main'[f] = main[f]
    <3>1. IsABag(main)
      BY <1>3
    <3>2. /\ DOMAIN Less(main, e) \subseteq DOMAIN main /\ e \notin DOMAIN Less(main, e)
          /\ \A f \in DOMAIN main : f # e => Less(main, e)[f] = main[f]
      BY <1>2, <3>1, BagTake
    <3>3. QED  BY <3>2
  <2>2. ASSUME NEW f \in DOMAIN main', f.key \in Tls
        PROVE  main[f] = 1 /\ f.key \in DOMAIN reports' /\ f.due = DueOf(reports'[f.key])
    <3>1. /\ f \in DOMAIN main /\ f # e /\ main[f] = 1
          /\ f.key \in DOMAIN reports /\ f.due = DueOf(reports[f.key])
      BY <2>1, <2>2 DEF TlsSound, TlsEntries
    <3>2. f \in [key : Keys, due : Nat] /\ e \in [key : Keys, due : Nat]
      BY <3>1 DEF ReportType
    <3>3. f.key # key
      BY <1>2, <3>1, <3>2
    <3>4. QED  BY <1>5, <3>1, <3>3
  <2>3. QED  BY <2>1, <2>2 DEF TlsEntries
<1>13. KeysMatch'
  BY <1>3, <1>5, <1>7, <1>10 DEF TlsSound, KeysMatch
<1>14. TlsReports'
  <2> SUFFICES ASSUME NEW k \in DOMAIN reports', k \in Tls
               PROVE  /\ \E p \in reports'[k].paths : DueOf(p) = DueOf(reports'[k])
                      /\ \/ \A p \in reports'[k].paths : DueOf(p) = DueOf(reports'[k])
                         \/ crashes > 0 /\ \A job \in Unsent' : job.key # k
    BY DEF TlsReports, Uniform
  <2>1. k \in DOMAIN reports /\ k # key /\ reports'[k] = reports[k]
    BY <1>5
  <2>2. QED  BY <1>3, <1>11, <2>1 DEF TlsSound, TlsReports, Uniform
<1>15. RecordsApart'
  BY DEF TlsSound, RecordsApart
<1>16. TlsJobs'
  <2>1. ASSUME NEW job \in Unsent
        PROVE  /\ Bar(job.key) <= Bar(job.key)' /\ Bar(job.key) \in Nat /\ Bar(job.key)' \in Nat
               /\ \A p \in job.paths : DueOf(p) \in Nat
    <3>1. \A p \in job.paths : p \in Path
      BY DEF Unsent, ReportType, JobType
    <3>2. CASE job.key = key
      BY <1>4, <1>6, <3>1, <3>2, DueIsNat
    <3>3. CASE job.key # key
      <4>1. Bar(job.key)' = Bar(job.key) /\ Bar(job.key) \in Nat
        BY <1>5, <3>3, BarIsNat DEF Bar
      <4>2. QED  BY <3>1, <4>1, DueIsNat
    <3>4. QED  BY <3>2, <3>3
  <2>2. ASSUME NEW job \in Unsent, Late(job)'
        PROVE  Late(job)
    <3>1. PICK p \in job.paths : DueOf(p) >= Bar(job.key)'
      BY <2>2 DEF Late
    <3>2. DueOf(p) >= Bar(job.key)
      BY <2>1, <3>1
    <3>3. QED  BY <3>2 DEF Late
  <2>3. Late(new)' => crashes > 0 /\ \A job \in Unsent : job.key # key
    <3> SUFFICES ASSUME Late(new)'
                 PROVE  crashes > 0 /\ \A job \in Unsent : job.key # key
      OBVIOUS
    <3>1. PICK p \in new.paths : DueOf(p) >= now + 1
      BY <1>3, <1>6 DEF Late
    <3>2. DueOf(p) # DueOf(reports[key])
      BY <1>4, <3>1
    <3>3. QED  BY <1>8, <3>1, <3>2
  <2>4. ASSUME NEW job \in Unsent'
        PROVE  jobs'[job] = 1 /\ \E p \in job.paths : DueOf(p) < Bar(job.key)'
    <3>1. CASE job = new
      <4>1. PICK p \in new.paths : DueOf(p) = DueOf(reports[key])
        BY <1>8
      <4>2. DueOf(p) < Bar(key)'
        BY <1>4, <1>6, <4>1
      <4>3. QED  BY <1>3, <1>10, <3>1, <4>2
    <3>2. CASE job \in Unsent
      <4>1. jobs[job] = 1 /\ \E p \in job.paths : DueOf(p) < Bar(job.key)
        BY <3>2 DEF TlsSound, TlsJobs
      <4>2. PICK p \in job.paths : DueOf(p) < Bar(job.key)
        BY <4>1
      <4>3. DueOf(p) < Bar(job.key)'
        BY <2>1, <3>2, <4>2
      <4>4. jobs'[job] = jobs[job]
        BY <1>10, <3>2 DEF Unsent
      <4>5. QED  BY <4>1, <4>3, <4>4
    <3>3. QED  BY <1>11, <3>1, <3>2
  <2>5. ASSUME NEW job \in Unsent', Late(job)'
        PROVE  /\ crashes > 0
               /\ \A other \in Unsent' : other.key = job.key /\ Late(other)' => other = job
    <3>1. CASE job = new
      BY <1>3, <1>11, <2>3, <2>5, <3>1
    <3>2. CASE job \in Unsent
      <4>1. Late(job)
        BY <2>2, <2>5, <3>2
      <4>2. crashes > 0 /\ \A other \in Unsent : other.key = job.key /\ Late(other) => other = job
        BY <3>2, <4>1 DEF TlsSound, TlsJobs
      <4>3. \A other \in Unsent : other.key = job.key /\ Late(other)' => other = job
        BY <2>2, <4>2
      <4>4. ~(new.key = job.key /\ Late(new)')
        BY <1>3, <2>3, <3>2
      <4>5. QED  BY <1>11, <4>2, <4>3, <4>4
    <3>3. QED  BY <1>11, <3>1, <3>2
  <2>6. QED  BY <2>4, <2>5 DEF TlsJobs
<1>17. TlsCounts'
  <2>1. IsFiniteSet(Unsent)'
    BY <1>11, FS_AddElement DEF TlsSound, TlsCounts
  <2>2. ASSUME NEW p \in DOMAIN files, p.key \in Tls, NEW n \in files[p].records
        PROVE  sent[n] + Cardinality(Holding(p)') + Filling(p)' <= 1 + crashes
    <3>1. sent[n] + Cardinality(Holding(p)) + Filling(p) <= 1 + crashes
      BY <2>2 DEF TlsSound, TlsCounts
    <3>2. IsFiniteSet(Holding(p)) /\ Cardinality(Holding(p)) \in Nat
      BY HoldingFacts
    <3>3. CASE p \in new.paths
      <4>1. Holding(p)' = Holding(p) \cup {new} /\ new \notin Holding(p)
        BY <1>11, <3>3 DEF Holding
      <4>2. Cardinality(Holding(p) \cup {new}) = Cardinality(Holding(p)) + 1
        BY <3>2, <4>1, FS_AddElement
      <4>3. Filling(p) = 1 /\ Filling(p)' = 0
        BY <1>2, <1>3, <1>5, <1>7, <3>3 DEF Filling
      <4>4. sent[n] \in Nat /\ crashes \in Nat
        <5>1. n \in 1..MaxEvents
          BY DEF ReportType, FileType
        <5>2. QED  BY <5>1 DEF ReportType
      <4>5. QED  BY <3>1, <3>2, <4>1, <4>2, <4>3, <4>4
    <3>4. CASE p \notin new.paths
      <4>1. Holding(p)' = Holding(p)
        BY <1>11, <3>4 DEF Holding
      <4>2. Filling(p)' = Filling(p)
        BY <1>3, <1>5, <3>4 DEF Filling
      <4>3. QED  BY <3>1, <4>1, <4>2
    <3>5. QED  BY <3>3, <3>4
  <2>3. QED  BY <2>1, <2>2 DEF TlsCounts
<1>18. QED  BY <1>12, <1>13, <1>14, <1>15, <1>16, <1>17 DEF TlsSound

\* A due entry of a DMARC key leaves the account of TLS records alone.
LEMMA DmarcDueKeepsTls ==
  ASSUME ReportType, ReportType', TlsSound, NEW e \in DOMAIN main, e.key \notin Tls,
         main' = Less(main, e),
         \/ /\ e.key \in DOMAIN reports
            /\ jobs' = Plus(jobs, Job(e.key)) /\ reports' = Without(reports, {e.key})
         \/ UNCHANGED <<jobs, reports>>,
         UNCHANGED <<now, files, events, sent, crashes>>
  PROVE  TlsSound'
<1> DEFINE new == Job(e.key)
<1>1. new.key = e.key /\ (e.key \in DOMAIN reports => new.paths = reports[e.key].paths)
  BY DEF Job
<1>2. \/ e.key \in DOMAIN reports /\ jobs' = Plus(jobs, new)
      \/ jobs' = jobs
  OBVIOUS
<1> HIDE DEF new
<1>3. /\ DOMAIN jobs' \subseteq DOMAIN jobs \cup {new} /\ DOMAIN jobs \subseteq DOMAIN jobs'
      /\ new \in DOMAIN jobs' => new \in DOMAIN jobs \/ e.key \in DOMAIN reports
      /\ \A job \in DOMAIN jobs : job # new => jobs'[job] = jobs[job]
  <2>1. IsABag(jobs)
    BY DEF ReportType
  <2>2. /\ DOMAIN Plus(jobs, new) = DOMAIN jobs \cup {new}
        /\ \A job \in DOMAIN jobs : job # new => Plus(jobs, new)[job] = jobs[job]
    BY <2>1, BagAdd
  <2>3. QED  BY <1>2, <2>2
<1>4. Unsent' = Unsent /\ \A job \in Unsent : jobs'[job] = jobs[job]
  BY <1>1, <1>3 DEF Unsent
<1>5. /\ DOMAIN reports' \subseteq DOMAIN reports
      /\ DOMAIN reports \ {e.key} \subseteq DOMAIN reports'
      /\ \A k \in DOMAIN reports' : reports'[k] = reports[k]
  BY DEF Without
<1>6. \A k \in Tls : (k \in DOMAIN reports' <=> k \in DOMAIN reports)
  BY <1>5
<1>7. ASSUME NEW k \in Tls
      PROVE  Bar(k)' >= Bar(k)
  <2>1. Bar(k)' = Bar(k) /\ Bar(k) \in Nat
    BY <1>5, <1>6, BarIsNat DEF Bar
  <2>2. QED  BY <2>1
<1>8. TlsJobs'
  BY <1>4, <1>7, JobsKept
<1>9. TlsEntries'
  <2>1. IsABag(main)
    BY DEF ReportType
  <2>2. /\ DOMAIN main' \subseteq DOMAIN main
        /\ \A f \in DOMAIN main : f # e => main'[f] = main[f]
    BY <2>1, BagTake
  <2>3. QED  BY <1>5, <1>6, <2>2 DEF TlsSound, TlsEntries
<1>10. KeysMatch'
  BY <1>1, <1>3, <1>5 DEF TlsSound, KeysMatch
<1>11. TlsReports'
  BY <1>4, <1>5, <1>6 DEF TlsSound, TlsReports, Uniform
<1>12. RecordsApart'
  BY DEF TlsSound, RecordsApart
<1>13. TlsCounts'
  <2>1. \A p : Holding(p)' = Holding(p) /\ (p.key \in Tls => Filling(p)' = Filling(p))
    BY <1>4, <1>5, <1>6 DEF Holding, Filling
  <2>2. QED  BY <1>4, <2>1 DEF TlsSound, TlsCounts
<1>14. QED  BY <1>8, <1>9, <1>10, <1>11, <1>12, <1>13 DEF TlsSound

\* Every step in which no write fails and nothing is cancelled keeps the account of
\* TLS records.
LEMMA TlsStep ==
  ASSUME ReportType, ReportType', TlsSound, [Next]_vars, errors' = errors, cancels' = cancels
  PROVE  TlsSound'
<1>1. CASE UNCHANGED <<now, main, reports, files, jobs, events, sent, crashes>>
  <2>1. /\ Unsent' = Unsent
        /\ \A p : Holding(p)' = Holding(p) /\ Filling(p)' = Filling(p)
    BY <1>1 DEF Unsent, Holding, Filling
  <2>2. TlsEntries' /\ KeysMatch' /\ RecordsApart'
    BY <1>1 DEF TlsSound, TlsEntries, KeysMatch, RecordsApart
  <2>3. TlsReports' /\ TlsJobs' /\ TlsCounts'
    BY <1>1, <2>1 DEF TlsSound, TlsReports, Uniform, TlsJobs, Late, Bar, TlsCounts
  <2>4. QED  BY <2>2, <2>3 DEF TlsSound
<1>2. CASE NextDue
  <2>1. UNCHANGED <<now, files, events, sent, crashes>>
    BY <1>2 DEF NextDue, ghosts, bounds
  <2>2. CASE UNCHANGED <<main, jobs, reports>>
    BY <1>1, <2>1, <2>2
  <2>3. CASE \E e \in FirstEntries :
               /\ IsDue(e) /\ main' = Less(main, e)
               /\ \/ /\ e.key \in DOMAIN reports
                     /\ jobs' = Plus(jobs, Job(e.key))
                     /\ reports' = Without(reports, {e.key})
                  \/ e.key \notin DOMAIN reports /\ UNCHANGED <<jobs, reports>>
    <3>1. PICK e \in FirstEntries :
               /\ IsDue(e) /\ main' = Less(main, e)
               /\ \/ /\ e.key \in DOMAIN reports
                     /\ jobs' = Plus(jobs, Job(e.key))
                     /\ reports' = Without(reports, {e.key})
                  \/ e.key \notin DOMAIN reports /\ UNCHANGED <<jobs, reports>>
      BY <2>3
    <3>2. e \in DOMAIN main
      BY DEF FirstEntries, BagToSet
    <3>3. CASE e.key \in Tls
      <4>1. e.key \in DOMAIN reports
        BY <3>2, <3>3 DEF TlsSound, TlsEntries
      <4>2. QED  BY <2>1, <3>1, <3>2, <3>3, <4>1, TlsDueKeepsTls
    <3>4. CASE e.key \notin Tls
      BY <2>1, <3>1, <3>2, <3>4, DmarcDueKeepsTls
    <3>5. QED  BY <3>3, <3>4
  <2>4. QED  BY <1>2, <2>2, <2>3 DEF NextDue
<1>3. CASE \E key \in Keys, interval \in Intervals, policy \in Policies \cup {NoPolicy} :
             Event(key, policy, interval)
  <2>1. PICK key \in Keys, interval \in Intervals, policy \in Policies \cup {NoPolicy} :
          Event(key, policy, interval)
    BY <1>3
  <2>2. crashes' = crashes
    BY <2>1 DEF Event, NextEvent
  <2>3. \/ \E report \in Report, path \in Path : Written(key, report, path)
        \/ /\ key \in DOMAIN reports
           /\ UNCHANGED <<now, main, jobs, sent>> /\ events' = events + 1 /\ events < MaxEvents
           /\ \E path \in reports[key].paths : json_append(key, reports[key], path, events + 1)
    BY <2>1, EventWrites
  <2>4. QED  BY <2>2, <2>3, WriteKeepsTls, AppendKeepsTls
<1>4. \A key \in Keys : ~Cancel(key)
  <2>1. cancels \in Nat
    BY DEF ReportType
  <2>2. cancels + 1 # cancels
    BY <2>1
  <2>3. QED  BY <2>2 DEF Cancel
<1>5. QED
  BY <1>1, <1>2, <1>3, <1>4, StepCases, TickKeepsTls, SendKeepsTls, CleanupKeepsTls, CrashKeepsTls
  DEF vars, ghosts, bounds, Timeout

\* Where files can be written and nothing is cancelled, a TLS record is reported
\* again only after a crash, and once for each, however events, due reports, jobs
\* and restarts follow each other.
THEOREM TlsRecordsRepeatOnlyByCrash == Spec => []TlsRepeatedByCrash
<1> DEFINE TlsInv == errors + cancels = 0 => TlsSound
<1>1. Init => TlsInv
  <2> SUFFICES ASSUME Init
               PROVE  TlsSound
    OBVIOUS
  <2>1. DOMAIN main = {} /\ DOMAIN jobs = {} /\ DOMAIN reports = {} /\ DOMAIN files = {}
    BY BagEmpty DEF Init
  <2>2. Unsent = {}
    BY <2>1 DEF Unsent
  <2>3. IsFiniteSet(Unsent)
    BY <2>2, FS_EmptySet
  <2>4. \A n \in 1..MaxEvents : sent[n] = 0
    BY DEF Init
  <2>5. QED
    BY <2>1, <2>2, <2>3, <2>4 DEF TlsSound, TlsEntries, KeysMatch, TlsReports, TlsJobs,
                                  RecordsApart, TlsCounts
<1>2. ReportInv /\ ReportInv' /\ TlsInv /\ [Next]_vars => TlsInv'
  <2> SUFFICES ASSUME ReportInv, ReportInv', TlsInv, [Next]_vars, errors' + cancels' = 0
               PROVE  TlsSound'
    OBVIOUS
  <2>1. ReportType /\ ReportType'
    BY DEF ReportInv
  <2>2. errors = 0 /\ cancels = 0 /\ errors' = 0 /\ cancels' = 0
    BY <2>1, FailuresStay
  <2>3. TlsSound
    BY <2>2
  <2>4. QED  BY <2>1, <2>2, <2>3, TlsStep
<1>3. ReportInv /\ TlsInv => TlsRepeatedByCrash
  <2> SUFFICES ASSUME ReportInv, TlsSound, NEW path \in DOMAIN files, path.key \in Tls,
                      NEW n \in files[path].records
               PROVE  sent[n] <= 1 + crashes
    BY DEF TlsRepeatedByCrash
  <2>1. ReportType
    BY DEF ReportInv
  <2>2. sent[n] + Cardinality(Holding(path)) + Filling(path) <= 1 + crashes
    BY DEF TlsSound, TlsCounts
  <2>3. n \in 1..MaxEvents
    BY <2>1 DEF ReportType, FileType
  <2>4. /\ sent[n] \in Nat /\ crashes \in Nat /\ Cardinality(Holding(path)) \in Nat
        /\ Filling(path) \in {0, 1}
    BY <2>1, <2>3, HoldingFacts DEF ReportType, Filling
  <2>5. QED  BY <2>2, <2>4
<1>4. QED  BY <1>1, <1>2, <1>3, SchedulerReachable, PTL DEF Spec
=============================================================================
