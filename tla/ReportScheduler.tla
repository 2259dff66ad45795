-------------------------- MODULE ReportScheduler --------------------------
(***************************************************************************)
(* The scheduler of aggregate reports (reporting/scheduler.rs, dmarc.rs,   *)
(* tls.rs): events are added to report files, a heap says when a report is *)
(* due, a worker reads the files of a due report, sends it and removes     *)
(* them, and a restart rebuilds the scheduler from the file names.         *)
(*                                                                         *)
(* A DMARC key is a domain and a policy and has one file; a TLS key is a   *)
(* domain and has a file for each policy.  Abstracted: the contents of     *)
(* reports and records (a record has size 1), addresses, compression and   *)
(* queueing of the report's message, and the List and Status requests,     *)
(* which only read.  A report and its files carry what build_report_path   *)
(* puts in a file's name.                                                  *)
(***************************************************************************)
EXTENDS Naturals, FiniteSets, Bags

CONSTANTS
  Dmarc, Tls,        \* the report keys of the two kinds
  Policies,          \* the policies of a TLS domain
  NoPolicy,          \* stands for the policy in a DMARC key
  Intervals,         \* the lengths of AggregateFrequency
  MaxSize,           \* max_size
  MaxTime, MaxEvents,
  MaxFaults          \* bounds on time, events, and crashes, failed writes and cancellations

Keys == Dmarc \cup Tls

ASSUME ReportSchedulerAssumption ==
  /\ Dmarc \cap Tls = {} /\ NoPolicy \notin Policies
  /\ Intervals \subseteq Nat \ {0} /\ Intervals # {}
  /\ MaxSize \in Nat /\ MaxTime \in Nat /\ MaxEvents \in Nat /\ MaxFaults \in Nat

VARIABLES
  now,
  main,        \* Scheduler::main: a bag of due times and keys
  reports,     \* Scheduler::reports: what is known of each report being filled
  draining,    \* the scheduler is in the loop over due reports
  files,       \* the files on disk: path -> records, and whether they parse
  jobs,        \* a bag of the reports the worker pool has: key, paths, progress
  events,      \* how many events came in; the n-th is the record n
  sent,        \* how often a record was reported
  dropped,     \* the records given up on purpose
  crashes, errors, cancels

ghosts == <<events, sent, dropped>>
bounds == <<crashes, errors, cancels>>
vars == <<now, main, reports, draining, files, jobs, ghosts, bounds>>

\* A function with the value at k replaced or added, and one without K.
With(f, k, v) == [x \in DOMAIN f \cup {k} |-> IF x = k THEN v ELSE f[x]]
Without(f, K) == [x \in DOMAIN f \ K |-> f[x]]

\* A bag with a copy of x more, or less.
Plus(B, x) == B (+) SetToBag({x})
Less(B, x) == B (-) SetToBag({x})

Entry(key, due) == [key |-> key, due |-> due]
DueOf(report) == report.created + report.interval

-----------------------------------------------------------------------------
Init ==
  /\ now = 0 /\ main = EmptyBag /\ reports = <<>> /\ draining = FALSE
  /\ files = <<>> /\ jobs = EmptyBag
  /\ events = 0 /\ sent = [n \in 1..MaxEvents |-> 0] /\ dropped = {}
  /\ crashes = 0 /\ errors = 0 /\ cancels = 0

Tick ==
  /\ now < MaxTime
  /\ now' = now + 1
  /\ UNCHANGED <<main, reports, draining, files, jobs, ghosts, bounds>>

-----------------------------------------------------------------------------
(* Events                                                                  *)

\* AggregateFrequency::to_timestamp: the start of the current interval.
to_timestamp(interval) == now - (now % interval)

\* Fault: files are named without the time their interval began.
UndatedPath(key, policy, created, interval) ==
  [key |-> key, policy |-> policy, created |-> 0, interval |-> interval]

build_report_path(key, policy, created, interval) ==
  [key |-> key, policy |-> policy, created |-> created, interval |-> interval]

\* json_write puts the first record n in a new file at path, over one that is
\* there; on an error the file may be missing or cut short, and the path is taken
\* out of the report it was added to, the report too if it has no other.
json_write(key, report, path, n) ==
  \/ /\ files' = With(files, path, [records |-> {n}, readable |-> TRUE])
     /\ reports' = With(reports, key, [report EXCEPT !.paths = @ \cup {path},
                                                      !.size = @ + 1])
     /\ UNCHANGED <<errors, dropped>>
  \/ /\ crashes + errors + cancels < MaxFaults
     /\ errors' = errors + 1
     /\ dropped' = dropped \cup {n}
     /\ files' \in {files, With(files, path, [records |-> {}, readable |-> FALSE])}
     /\ reports' = IF report.paths = {} THEN Without(reports, {key})
                   ELSE With(reports, key, report)

\* json_append: the record is left out if it is over max_size.  An error may
\* leave a part of the record at the end of the file, which then never parses.
json_append(key, report, path, n) ==
  \/ /\ report.size >= MaxSize
     /\ dropped' = dropped \cup {n}
     /\ UNCHANGED <<files, reports, errors>>
  \/ /\ report.size < MaxSize /\ path \in DOMAIN files
     /\ files' = [files EXCEPT ![path].records = @ \cup {n}]
     /\ reports' = [reports EXCEPT ![key].size = @ + 1]
     /\ UNCHANGED <<errors, dropped>>
  \/ /\ report.size < MaxSize /\ path \in DOMAIN files
     /\ crashes + errors + cancels < MaxFaults
     /\ errors' = errors + 1
     /\ dropped' = dropped \cup {n}
     /\ \E readable \in {FALSE, files[path].readable} :
          files' = [files EXCEPT ![path].readable = readable]
     /\ UNCHANGED reports
  \/ /\ report.size < MaxSize /\ path \notin DOMAIN files
     /\ UNCHANGED <<files, reports, errors, dropped>>

\* The first event of a report decides its interval and pushes its due time.
FirstRecord(key, policy, interval) ==
  LET created == to_timestamp(interval)
      report == [paths |-> {}, created |-> created, interval |-> interval, size |-> 0]
  IN /\ key \notin DOMAIN reports
     /\ main' = Plus(main, Entry(key, created + interval))
     /\ json_write(key, report, build_report_path(key, policy, created, interval), events + 1)

NextEvent ==
  /\ ~draining /\ events < MaxEvents
  /\ \A i \in Intervals : now + i <= MaxTime
  /\ events' = events + 1
  /\ UNCHANGED <<now, draining, jobs, sent, crashes, cancels>>

schedule_dmarc(key, interval) ==
  /\ NextEvent
  /\ \/ FirstRecord(key, NoPolicy, interval)
     \/ /\ key \in DOMAIN reports
        /\ \E path \in reports[key].paths : json_append(key, reports[key], path, events + 1)
        /\ UNCHANGED main

\* A policy that the report does not have yet gets a file of its own.
schedule_tls(key, policy, interval) ==
  /\ NextEvent
  /\ \/ FirstRecord(key, policy, interval)
     \/ /\ key \in DOMAIN reports
        /\ LET report == reports[key]
               open == {path \in report.paths : path.policy = policy}
               new == build_report_path(key, policy, report.created, report.interval)
           IN \/ open = {} /\ json_write(key, report, new, events + 1)
              \/ \E path \in open : json_append(key, report, path, events + 1)
        /\ UNCHANGED main

\* ReportRequest::Cancel: the report and its files are deleted; the entry in the
\* heap stays.
Cancel(key) ==
  /\ ~draining /\ key \in DOMAIN reports /\ crashes + errors + cancels < MaxFaults
  /\ cancels' = cancels + 1
  /\ reports' = Without(reports, {key})
  /\ files' = Without(files, reports[key].paths)
  /\ dropped' = dropped \cup UNION {files[p].records : p \in reports[key].paths \cap DOMAIN files}
  /\ UNCHANGED <<now, main, draining, jobs, events, sent, crashes, errors>>

-----------------------------------------------------------------------------
(* Due reports                                                             *)

\* Fault: the due time is rounded down.
IsAlmostDue(e) == e.due <= now + 1

IsDue(e) == e.due <= now

\* BinaryHeap::peek
FirstEntries == {e \in BagToSet(main) : \A f \in BagToSet(main) : e.due <= f.due}

\* recv times out, at wake_up_time or after it.
Timeout ==
  /\ ~draining
  /\ \E e \in FirstEntries : IsDue(e)
  /\ draining' = TRUE
  /\ UNCHANGED <<now, main, reports, files, jobs, ghosts, bounds>>

\* What the worker pool gets of a report.
Job(key) == [key |-> key, paths |-> reports[key].paths, sent |-> FALSE]

\* Fault: an entry whose report is gone stays on top of the heap.
StopAtStaleEntry ==
  /\ draining
  /\ \/ \E e \in FirstEntries :
          /\ IsDue(e) /\ e.key \in DOMAIN reports
          /\ main' = Less(main, e)
          /\ jobs' = Plus(jobs, Job(e.key))
          /\ reports' = Without(reports, {e.key})
          /\ UNCHANGED draining
     \/ /\ \A e \in FirstEntries : ~IsDue(e) \/ e.key \notin DOMAIN reports
        /\ draining' = FALSE
        /\ UNCHANGED <<main, jobs, reports>>
  /\ UNCHANGED <<now, files, ghosts, bounds>>

\* next_due: the report of a due entry goes to the worker pool.  An entry whose
\* report is gone ends the loop, as does one that is not due.
NextDue ==
  /\ draining
  /\ \/ \E e \in FirstEntries :
          /\ IsDue(e)
          /\ main' = Less(main, e)
          /\ \/ /\ e.key \in DOMAIN reports
                /\ jobs' = Plus(jobs, Job(e.key))
                /\ reports' = Without(reports, {e.key})
                /\ UNCHANGED draining
             \/ /\ e.key \notin DOMAIN reports
                /\ draining' = FALSE
                /\ UNCHANGED <<jobs, reports>>
     \/ /\ \A e \in FirstEntries : ~IsDue(e)
        /\ draining' = FALSE
        /\ UNCHANGED <<main, jobs, reports>>
  /\ UNCHANGED <<now, files, ghosts, bounds>>

Readable(job) == {p \in job.paths \cap DOMAIN files : files[p].readable}
RecordsOf(paths) == UNION {files[p].records : p \in paths}

\* Fault: the job stays as it was.
SentAgain(job) == jobs

Sent(job) == Plus(Less(jobs, job), [job EXCEPT !.sent = TRUE])

\* The report has the records of the files that parse, and is sent.  Or nobody
\* wants it, or the addresses cannot be verified.
SendReport(job) ==
  /\ Readable(job) # {}
  /\ jobs' = Sent(job)
  /\ \/ /\ sent' = [n \in DOMAIN sent |-> IF n \in RecordsOf(Readable(job))
                                         THEN sent[n] + 1 ELSE sent[n]]
        /\ UNCHANGED dropped
     \/ /\ dropped' = dropped \cup RecordsOf(Readable(job))
        /\ UNCHANGED sent

\* A file that does not parse is left where it is.
generate_dmarc_report(job) ==
  /\ BagIn(job, jobs) /\ ~job.sent /\ job.key \in Dmarc
  /\ \/ SendReport(job)
     \/ /\ Readable(job) = {}
        /\ jobs' = Less(jobs, job)
        /\ UNCHANGED <<sent, dropped>>
  /\ UNCHANGED <<now, main, reports, draining, files, events, bounds>>

\* An empty report is not sent, and its files are removed like the others.
generate_tls_report(job) ==
  /\ BagIn(job, jobs) /\ ~job.sent /\ job.key \in Tls
  /\ \/ SendReport(job)
     \/ /\ Readable(job) = {}
        /\ jobs' = Sent(job)
        /\ UNCHANGED <<sent, dropped>>
  /\ UNCHANGED <<now, main, reports, draining, files, events, bounds>>

\* Fault: the files are left behind.
KeepFiles(job) ==
  /\ BagIn(job, jobs) /\ job.sent
  /\ jobs' = Less(jobs, job)
  /\ UNCHANGED <<now, main, reports, draining, files, ghosts, bounds>>

\* cleanup_blocking or remove_file
Cleanup(job) ==
  /\ BagIn(job, jobs) /\ job.sent
  /\ jobs' = Less(jobs, job)
  /\ files' = Without(files, job.paths)
  /\ UNCHANGED <<now, main, reports, draining, ghosts, bounds>>

-----------------------------------------------------------------------------
(* Restart                                                                 *)

PathsOf(onDisk, key) == {path \in onDisk : path.key = key}

\* What add_path makes of the files of a key when first is the one that counts:
\* the last one read for a DMARC key, the first one for a TLS key.
Loaded(onDisk, key, first) ==
  LET paths == IF key \in Tls THEN PathsOf(onDisk, key) ELSE {first}
  IN [paths |-> paths, created |-> first.created, interval |-> first.interval,
      size |-> Cardinality(RecordsOf(paths))]

\* The files add_path makes an entry for: each DMARC file, and one for a TLS key.
Pushed(onDisk, first) == {path \in onDisk : path.key \in Dmarc \/ path = first[path.key]}

\* Fault: the interval is added to the due time again.
LoadedLateEntries(onDisk, first) ==
  LET entryOf(path) == Entry(path.key, DueOf(path) + path.interval)
  IN [e \in {entryOf(path) : path \in Pushed(onDisk, first)} |->
        Cardinality({path \in Pushed(onDisk, first) : entryOf(path) = e})]

\* The entries add_path pushes, as a bag.
LoadedEntries(onDisk, first) ==
  LET entryOf(path) == Entry(path.key, DueOf(path))
  IN [e \in {entryOf(path) : path \in Pushed(onDisk, first)} |->
        Cardinality({path \in Pushed(onDisk, first) : entryOf(path) = e})]

\* The process is killed and read_reports finds the files, of which those that
\* are empty are removed.
Crash ==
  /\ crashes + errors + cancels < MaxFaults
  /\ crashes' = crashes + 1
  /\ \E empty \in SUBSET {p \in DOMAIN files : files[p].records = {}} :
     LET onDisk == DOMAIN files \ empty
         keys == {path.key : path \in onDisk}
     IN \E first \in [keys -> onDisk] :
          /\ \A key \in keys : first[key].key = key
          /\ files' = Without(files, empty)
          /\ reports' = [key \in keys |-> Loaded(onDisk, key, first[key])]
          /\ main' = LoadedEntries(onDisk, first)
  /\ draining' = FALSE /\ jobs' = EmptyBag
  /\ UNCHANGED <<now, ghosts, errors, cancels>>

-----------------------------------------------------------------------------
Work ==
  \/ Timeout \/ NextDue
  \/ \E job \in BagToSet(jobs) : generate_dmarc_report(job) \/ generate_tls_report(job) \/ Cleanup(job)

Next ==
  \/ Tick \/ Work \/ Crash
  \/ \E key \in Dmarc, interval \in Intervals : schedule_dmarc(key, interval)
  \/ \E key \in Tls, interval \in Intervals, policy \in Policies :
        schedule_tls(key, policy, interval)
  \/ \E key \in Keys : Cancel(key)

Spec == Init /\ [][Next]_vars

\* Time passes, the worker pool runs its jobs, and recv times out once no event
\* comes in any more.
FairSpec == Spec /\ WF_vars(Tick) /\ WF_vars(Work)

-----------------------------------------------------------------------------
(* Properties                                                              *)

\* Nothing has yet left an entry in the heap without its report, or two files to
\* one DMARC key.
NoStaleEntries == crashes + errors + cancels = 0

\* Every report has an entry in the heap that comes no later than the end of its
\* interval, whatever was cancelled or failed to be written before, and after
\* a restart (schedule_dmarc, schedule_tls, add_path).
ScheduledInTime ==
  \A key \in DOMAIN reports :
     \E e \in BagToSet(main) : e.key = key /\ e.due <= DueOf(reports[key])

\* No report is sent before its interval ends, unless an entry of the heap has
\* outlived its report.
NotEarly ==
  NoStaleEntries => \A job \in BagToSet(jobs) : \A path \in job.paths : DueOf(path) <= now

\* As long as nothing fails, a record is on disk until it is reported or given up
\* on purpose, even if an event comes in while the report before is still being
\* generated, and it is reported once.  (An entry that outlived its report may put
\* two jobs on one file.)
RecordReportedOnce ==
  NoStaleEntries => \A n \in 1..events :
    /\ sent[n] <= 1
    /\ \/ sent[n] > 0 \/ n \in dropped
       \/ \E path \in DOMAIN files : n \in files[path].records

\* Where files can be written and nothing is cancelled, a TLS record is reported
\* again only after a crash, once for each: read_reports makes one entry for all
\* files of a TLS domain.
TlsRepeatedByCrash ==
  errors + cancels = 0 => \A path \in DOMAIN files : path.key \in Tls =>
    \A n \in files[path].records : sent[n] <= 1 + crashes

\* A file that parses belongs to a report, or to a job, or to a DMARC key that
\* had two files at a restart: nothing is forgotten on disk.
FilesAccounted ==
  \A path \in DOMAIN files : files[path].readable =>
    \/ path.key \in DOMAIN reports /\ path \in reports[path.key].paths
    \/ \E job \in BagToSet(jobs) : path \in job.paths
    \/ crashes > 0 /\ path.key \in Dmarc

\* Once events stop, every report is sent or given up.
AllReported == <>[](DOMAIN reports = {} /\ jobs = EmptyBag)
=============================================================================
