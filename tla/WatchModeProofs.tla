---------------------------- MODULE WatchModeProofs -----------------------------
(***************************************************************************)
(* Proofs about WatchMode for every set of process identifiers and any     *)
(* number of source changes.  That one host runs at most is not inductive: *)
(* a host is started by the end of a build or of another host, and the     *)
(* proof needs that nothing is left then of any other process, neither     *)
(* running nor with a report the parent has yet to read.                   *)
(***************************************************************************)
EXTENDS WatchMode, FiniteSetTheorems, TLAPS

-----------------------------------------------------------------------------
(* The inductive invariant.                                                *)

(* Only the host started last has left anything: every other identifier is *)
(* free, and so is its own once it is gone and read.                       *)
OthersGone ==
    /\ \A h \in Hosts \ {child} : host[h] = Gone
    /\ host[child].alive \/ host[child].unread \/ host[child] = Gone

(* What awaits a report or an exit of a host awaits it of one that runs.   *)
Awaited == cycle \in {"initial", "refusing", "killing", "starting"} => host[child].alive

(* A host that outlives its start has said how it went, and was heard.     *)
Heard ==
    host[child].alive /\ cycle \notin {"initial", "starting"} =>
        host[child].report # "none" /\ ~host[child].unread

(* After close() what still runs has been told to end.                     *)
ToldToEnd == closed /\ host[child].alive => host[child].told # "no"

(* What is unread has been written.                                        *)
UnreadWritten == host[child].unread => host[child].report # "none"

IInv ==
    /\ TypeOK /\ OthersGone /\ UnreadWritten
    /\ Awaited /\ Heard /\ ToldToEnd /\ ViewIsCurrent

-----------------------------------------------------------------------------
(* What is done to the record of a process.                                *)

LEMMA HostFields ==
    ASSUME NEW r \in Host
    PROVE  /\ r.alive \in BOOLEAN /\ r.unread \in BOOLEAN
           /\ r.told \in {"no", "SIGTERM", "SIGKILL"} /\ r.report \in Reports \cup {"none"}
BY DEF Host

LEMMA EmptyRecords ==
    /\ Gone \in Host /\ ~Gone.alive /\ ~Gone.unread /\ Gone.report = "none"
    /\ Gone.told = "no"
    /\ Loading \in Host /\ Loading.alive /\ ~Loading.unread /\ Loading.report = "none"
    /\ Loading.told = "no"
BY DEF Gone, Loading, Host

(* A signal changes nothing else, and is not sent twice.                   *)
LEMMA TerminatedFields ==
    ASSUME NEW r \in Host
    PROVE  /\ Terminated(r) \in Host
           /\ Terminated(r).alive = r.alive /\ Terminated(r).unread = r.unread
           /\ Terminated(r).report = r.report
           /\ r.alive => Terminated(r).told # "no"
           /\ ~r.alive => Terminated(r) = r
<1>1. CASE r.alive /\ r.told = "no"
  BY <1>1 DEF Terminated, Host
<1>2. CASE ~(r.alive /\ r.told = "no")
  <2>1. Terminated(r) = r
    BY <1>2 DEF Terminated
  <2> QED BY <1>2, <2>1
<1> QED BY <1>1, <1>2

(* An identifier is given back with nothing left of the process.           *)
LEMMA ReleasedFields ==
    ASSUME NEW r \in Host
    PROVE  /\ Released(r) \in Host
           /\ Released(r).alive = r.alive /\ Released(r).unread = r.unread
           /\ Released(r).alive \/ Released(r).unread \/ Released(r) = Gone
           /\ r.alive \/ r.unread => Released(r) = r
           /\ r.told = "no" => Released(r).told = "no"
<1>1. CASE r.alive \/ r.unread
  <2>1. Released(r) = r
    BY <1>1 DEF Released
  <2> QED BY <1>1, <2>1
<1>2. CASE ~r.alive /\ ~r.unread
  <2>1. Released(r) = Gone
    BY <1>2 DEF Released
  <2> QED BY <1>2, <2>1, EmptyRecords, HostFields
<1> QED BY <1>1, <1>2

(* Whoever runs, or has a report to be read, is the host started last.     *)
LEMMA TheChild ==
    ASSUME IInv, NEW h \in Hosts, host[h].alive \/ host[h].unread
    PROVE  h = child
BY EmptyRecords DEF IInv, OthersGone

-----------------------------------------------------------------------------
(* One lemma for what every step does to the processes: it leaves them     *)
(* alone, changes the record of the child, or starts another.              *)

(* The part of the types that does not mention the processes.              *)
ParentOK ==
    /\ snapshot \in Hosts \cup {None}
    /\ {closed, dirty, timer, pending, fresh} \subseteq BOOLEAN
    /\ cycle \in Cycle
    /\ events \subseteq Files
    /\ changes \in 0..MaxChanges

(* What IInv says of the child, given its record.                          *)
Serves(r) ==
    /\ cycle \in {"initial", "refusing", "killing", "starting"} => r.alive
    /\ r.alive /\ cycle \notin {"initial", "starting"} => r.report # "none" /\ ~r.unread
    /\ closed /\ r.alive => r.told # "no"
    /\ r.alive /\ r.report = "ready" /\ ~r.unread => snapshot = child
    /\ r.unread => r.report # "none"

LEMMA ChildServes == TypeOK /\ OthersGone /\ Serves(host[child]) <=> IInv
BY DEF IInv, Serves, Awaited, Heard, ToldToEnd, UnreadWritten, ViewIsCurrent

LEMMA ChildChanges ==
    ASSUME IInv, ParentOK', child' = child, NEW r, r \in Host,
           host' = [host EXCEPT ![child] = r],
           r.alive \/ r.unread \/ r = Gone, Serves(host[child])'
    PROVE  IInv'
<1>1. TypeOK /\ OthersGone
  BY DEF IInv
<1>2. host'[child] = r /\ \A h \in Hosts \ {child} : host'[h] = host[h]
  BY <1>1 DEF TypeOK
<1>3. TypeOK'
  BY <1>1 DEF TypeOK, ParentOK
<1>4. OthersGone'
  BY <1>1, <1>2 DEF OthersGone
<1> QED BY <1>2, <1>3, <1>4 DEF IInv, Serves, Awaited, Heard, ToldToEnd, UnreadWritten, ViewIsCurrent

LEMMA ChildKept ==
    ASSUME IInv, ParentOK', UNCHANGED <<host, child>>, Serves(host[child])'
    PROVE  IInv'
BY DEF IInv, TypeOK, ParentOK, OthersGone, Serves, Awaited, Heard, ToldToEnd, UnreadWritten, ViewIsCurrent

LEMMA AnotherStarts ==
    ASSUME IInv, ParentOK', ~closed', NEW hosts \in [Hosts -> Host],
           \A h \in Hosts : hosts[h] = Gone, StartChild(hosts)
    PROVE  IInv'
<1>1. PICK h \in Hosts :
          host' = [hosts EXCEPT ![h] = Loading] /\ child' = h /\ cycle' = "starting"
  BY DEF StartChild
<1>2. host'[child'] = Loading /\ \A g \in Hosts \ {child'} : host'[g] = Gone
  BY <1>1
<1>3. TypeOK'
  BY <1>1, EmptyRecords DEF TypeOK, ParentOK
<1>4. OthersGone'
  BY <1>2, EmptyRecords DEF OthersGone
<1> QED
  BY <1>1, <1>2, <1>3, <1>4, EmptyRecords
  DEF IInv, Serves, Awaited, Heard, ToldToEnd, UnreadWritten, ViewIsCurrent

LEMMA Facts ==
    ASSUME IInv
    PROVE  /\ TypeOK /\ OthersGone /\ ParentOK /\ Serves(host[child])
           /\ host[child] \in Host /\ child \in Hosts
           /\ \A h \in Hosts : host[h] \in Host
           /\ host[child].alive \/ host[child].unread \/ host[child] = Gone
BY ChildServes DEF IInv, TypeOK, ParentOK, OthersGone

-----------------------------------------------------------------------------
(* The steps.                                                              *)

LEMMA Initially == Init => IInv
<1> SUFFICES ASSUME Init PROVE IInv
  OBVIOUS
<1>1. TypeOK
  <2>1. host \in [Hosts -> Host] /\ child \in Hosts
    BY EmptyRecords DEF Init
  <2>2. snapshot \in Hosts \cup {None} /\ cycle \in Cycle /\ changes \in 0..MaxChanges
    BY WatchAssumption DEF Init, Cycle
  <2>3. /\ {closed, dirty, timer, pending, fresh} \subseteq BOOLEAN
        /\ events \subseteq Files
    BY DEF Init
  <2> QED BY <2>1, <2>2, <2>3 DEF TypeOK
<1>2. host[child] = Loading /\ \A h \in Hosts \ {child} : host[h] = Gone
  BY DEF Init
<1> QED
  BY <1>1, <1>2, EmptyRecords
  DEF Init, IInv, OthersGone, Awaited, Heard, ToldToEnd, UnreadWritten, ViewIsCurrent

LEMMA StepFires == ASSUME IInv, Fires PROVE IInv'
<1>1. ParentOK'
  BY Facts DEF ParentOK, Fires, RunCycle, BeginBuild, Cycle
<1>2. Serves(host[child])'
  BY Facts DEF Serves, Fires, RunCycle, BeginBuild
<1> QED BY <1>1, <1>2, ChildKept DEF Fires

LEMMA StepOutside ==
    ASSUME IInv, NEW file \in Files,
           SourceChanges(file) \/ BuildWrites(file) \/ WatchEvent(file)
    PROVE  IInv'
<1>1. UNCHANGED <<host, child, snapshot, closed, cycle, dirty, fresh>>
  BY DEF SourceChanges, BuildWrites, WatchEvent
<1>2. ParentOK'
  <2>1. timer' \in BOOLEAN /\ pending' \in BOOLEAN
    BY Facts DEF ParentOK, SourceChanges, BuildWrites, WatchEvent
  <2>2. events' \subseteq Files /\ changes' \in 0..MaxChanges
    BY Facts, WatchAssumption DEF ParentOK, SourceChanges, BuildWrites, WatchEvent
  <2> QED BY <1>1, <2>1, <2>2, Facts DEF ParentOK
<1>3. Serves(host[child])'
  BY <1>1, Facts DEF Serves
<1> QED BY <1>1, <1>2, <1>3, ChildKept

LEMMA StepClose == ASSUME IInv, Close PROVE IInv'
<1> DEFINE r == Terminated(host[child])
<1>1. ParentOK'
  BY Facts DEF ParentOK, Close
<1>2. r \in Host /\ (r.alive \/ r.unread \/ r = Gone)
  BY Facts, TerminatedFields
<1>3. host' = [host EXCEPT ![child] = r] /\ child' = child /\ host'[child] = r
  BY Facts DEF Close, TypeOK
<1>4. Serves(host[child])'
  BY <1>3, Facts, TerminatedFields DEF Serves, Close, Watching, Started
<1> HIDE DEF r
<1> QED BY <1>1, <1>2, <1>3, <1>4, ChildChanges

LEMMA StepKillTimeout == ASSUME IInv, NEW h \in Hosts, KillTimeout(h) PROVE IInv'
<1> DEFINE r == [host[child] EXCEPT !.told = "SIGKILL"]
<1>1. h = child /\ host[child].alive
  BY TheChild DEF KillTimeout
<1>2. ParentOK'
  BY Facts DEF ParentOK, KillTimeout
<1>3. /\ r \in Host /\ r.alive /\ r.told = "SIGKILL"
      /\ r.report = host[child].report /\ r.unread = host[child].unread
  BY <1>1, Facts DEF Host
<1>4. host' = [host EXCEPT ![child] = r] /\ child' = child /\ host'[child] = r
  BY <1>1, Facts DEF KillTimeout, TypeOK
<1> HIDE DEF r
<1>5. Serves(host[child])'
  BY <1>1, <1>3, <1>4, Facts DEF Serves, KillTimeout
<1> QED BY <1>2, <1>3, <1>4, <1>5, ChildChanges

LEMMA StepHostReports ==
    ASSUME IInv, NEW h \in Hosts, NEW report \in Reports, HostReports(h, report)
    PROVE  IInv'
<1> DEFINE r == [host[child] EXCEPT !.report = report, !.unread = TRUE]
<1>1. h = child /\ host[child].alive /\ host[child].report = "none"
  BY TheChild DEF HostReports
<1>2. ParentOK'
  BY Facts DEF ParentOK, HostReports
<1>3. /\ r \in Host /\ r.alive /\ r.told = host[child].told
      /\ r.report = report /\ r.unread
  BY <1>1, Facts DEF Host
<1>4. host' = [host EXCEPT ![child] = r] /\ child' = child /\ host'[child] = r
  BY <1>1, Facts DEF HostReports, TypeOK
<1> HIDE DEF r
<1>5. Serves(host[child])'
  BY <1>1, <1>3, <1>4, Facts DEF Serves, HostReports, Reports
<1> QED BY <1>2, <1>3, <1>4, <1>5, ChildChanges

LEMMA CycleEnds ==
    ASSUME ParentOK, LeaveCycle \/ EndIteration
    PROVE  cycle' \in {"idle", "building"} /\ dirty' \in BOOLEAN /\ pending' \in BOOLEAN
BY DEF ParentOK, LeaveCycle, EndIteration, BeginBuild

(* The old host is gone: another starts, unless close() was called.        *)
LEMMA KillEnds ==
    ASSUME IInv, NEW hosts \in [Hosts -> Host], \A h \in Hosts : hosts[h] = Gone,
           AfterKill(hosts), UNCHANGED <<snapshot, closed, timer, events, changes>>
    PROVE  IInv'
<1>1. CASE closed
  <2>1. host' = [host EXCEPT ![child] = Gone] /\ child' = child
    BY <1>1, Facts DEF AfterKill, OthersGone, TypeOK
  <2>2. ParentOK'
    BY <1>1, Facts, CycleEnds DEF AfterKill, ParentOK, Cycle
  <2>3. Serves(host[child])'
    BY <1>1, <2>1, Facts, EmptyRecords DEF AfterKill, LeaveCycle, Serves, TypeOK
  <2> QED BY <2>1, <2>2, <2>3, EmptyRecords, ChildChanges
<1>2. CASE ~closed
  <2>1. StartChild(hosts)
    BY <1>2 DEF AfterKill
  <2>2. ParentOK'
    BY <2>1, Facts DEF StartChild, ParentOK, Cycle
  <2> QED BY <1>2, <2>1, <2>2, AnotherStarts
<1> QED BY <1>1, <1>2

LEMMA StepBuildEnds == ASSUME IInv, NEW ok \in BOOLEAN, BuildEnds(ok) PROVE IInv'
<1>1. /\ cycle = "building" /\ AfterBuild(ok)
      /\ UNCHANGED <<snapshot, closed, timer, events, changes>>
      /\ ~host[child].alive => ~host[child].unread
  BY Facts DEF BuildEnds, Alive
<1>2. CASE UNCHANGED <<host, child, fresh>> /\ (LeaveCycle \/ EndIteration)
  <2>1. cycle' \in {"idle", "building"} /\ ParentOK'
    BY <1>1, <1>2, Facts, CycleEnds DEF ParentOK, Cycle
  <2>2. Serves(host[child])'
    BY <1>1, <1>2, <2>1, Facts DEF Serves
  <2> QED BY <1>2, <2>1, <2>2, ChildKept
<1>3. CASE Replace /\ host[child].alive
  <2> DEFINE r == Terminated(host[child])
  <2>1. r \in Host /\ (r.alive \/ r.unread \/ r = Gone)
    BY Facts, TerminatedFields
  <2>2. /\ host' = [host EXCEPT ![child] = r] /\ child' = child /\ host'[child] = r
        /\ cycle' = "killing" /\ fresh' = TRUE /\ UNCHANGED <<dirty, pending>>
    BY <1>3, Facts DEF Replace, TypeOK
  <2>3. ParentOK'
    BY <1>1, <2>2, Facts DEF ParentOK, Cycle
  <2>4. Serves(host[child])'
    BY <1>1, <1>3, <2>2, Facts, TerminatedFields DEF Serves
  <2> HIDE DEF r
  <2> QED BY <2>1, <2>2, <2>3, <2>4, ChildChanges
<1>4. CASE Replace /\ ~host[child].alive
  <2>1. \A h \in Hosts : host[h] = Gone
    BY <1>1, <1>4, Facts DEF OthersGone
  <2>2. AfterKill(host)
    BY <1>4 DEF Replace
  <2> QED BY <1>1, <2>1, <2>2, Facts, KillEnds DEF TypeOK
<1> QED BY <1>1, <1>2, <1>3, <1>4 DEF AfterBuild

LEMMA StepReadReport == ASSUME IInv, NEW h \in Hosts, ReadReport(h) PROVE IInv'
<1> DEFINE read == [host[child] EXCEPT !.unread = FALSE]
           r == Released(read)
           hosts == [host EXCEPT ![child] = r]
<1>1. h = child /\ host[child].unread
  BY TheChild DEF ReadReport
<1>2. /\ read \in Host /\ ~read.unread /\ read.alive = host[child].alive
      /\ read.report = host[child].report /\ read.told = host[child].told
  BY Facts DEF Host
<1>3. /\ r \in Host /\ (r.alive \/ r = Gone) /\ ~r.unread
      /\ r.alive = host[child].alive /\ (r.alive => r = read)
  BY <1>2, ReleasedFields
<1>4. /\ hosts \in [Hosts -> Host] /\ hosts[child] = r
      /\ hosts = [host EXCEPT ![h] = Released([@ EXCEPT !.unread = FALSE])]
  BY <1>1, <1>3, Facts DEF TypeOK
<1> HIDE DEF read, r
<1>5. /\ snapshot' \in Hosts \cup {None} /\ UNCHANGED <<child, timer, events, changes, fresh>>
      /\ host[child].report = "ready" => snapshot' = child
      /\ host[child].report # "ready" => snapshot' = snapshot
  BY <1>1, Facts DEF ReadReport, Seen, ParentOK
<1>6. CASE cycle = "initial" /\ host[child].report # "ready"
  <2> DEFINE q == Terminated(r)
  <2>1. closed' = TRUE /\ cycle' = "refusing" /\ UNCHANGED <<dirty, pending>>
        /\ host' = [hosts EXCEPT ![child] = q]
    BY <1>1, <1>4, <1>6 DEF ReadReport
  <2>2. q \in Host /\ q.alive /\ q.told # "no" /\ ~q.unread /\ q.report = host[child].report
    BY <1>2, <1>3, <1>6, Facts, TerminatedFields DEF Serves
  <2>3. host' = [host EXCEPT ![child] = q] /\ host'[child] = q
    BY <1>4, <2>1, Facts DEF TypeOK
  <2>4. ParentOK'
    BY <1>5, <2>1, Facts DEF ParentOK, Cycle
  <2>5. host[child].report # "none"
    BY <1>1, Facts DEF Serves
  <2>6. Serves(host[child])'
    BY <1>5, <1>6, <2>1, <2>2, <2>3, <2>5 DEF Serves
  <2> HIDE DEF q
  <2> QED BY <1>5, <2>2, <2>3, <2>4, <2>6, ChildChanges
<1>7. CASE ~(cycle = "initial" /\ host[child].report # "ready")
  <2>1. host' = hosts /\ closed' = closed /\ cycle' \in Cycle
        /\ dirty' \in BOOLEAN /\ pending' \in BOOLEAN
    BY <1>1, <1>4, <1>7, Facts, CycleEnds DEF ReadReport, ParentOK, Cycle
  <2>2. /\ cycle' \notin {"initial", "starting"}
        /\ cycle' \in {"refusing", "killing"} => host[child].alive
    BY <1>1, <1>7, Facts, CycleEnds DEF ReadReport, Serves
  <2>3. ParentOK'
    BY <1>5, <2>1, Facts DEF ParentOK
  <2>4. host[child].report # "none"
    BY <1>1, Facts DEF Serves
  <2>5. Serves(host[child])'
    BY <1>2, <1>3, <1>4, <1>5, <2>1, <2>2, <2>4, Facts DEF Serves
  <2> QED BY <1>3, <1>4, <1>5, <2>1, <2>3, <2>5, ChildChanges
<1> QED BY <1>6, <1>7

LEMMA StepHostExits == ASSUME IInv, NEW h \in Hosts, HostExits(h) PROVE IInv'
<1> DEFINE gone == [host[child] EXCEPT !.alive = FALSE]
           r == Released(gone)
           hosts == [host EXCEPT ![child] = r]
<1>1. h = child /\ host[child].alive
  BY TheChild DEF HostExits
<1>2. /\ gone \in Host /\ ~gone.alive /\ gone.unread = host[child].unread
      /\ gone.report = host[child].report
  BY Facts DEF Host
<1>3. /\ r \in Host /\ ~r.alive /\ (r.unread \/ r = Gone)
      /\ r.unread = host[child].unread /\ (r.unread => r.report # "none")
  BY <1>2, ReleasedFields, Facts DEF Serves
<1>4. /\ hosts \in [Hosts -> Host] /\ hosts[child] = r
      /\ hosts = [host EXCEPT ![h] = Released([@ EXCEPT !.alive = FALSE])]
      /\ \A g \in Hosts \ {child} : hosts[g] = Gone
  BY <1>1, <1>3, Facts DEF TypeOK, OthersGone
<1> HIDE DEF gone, r
<1>5. UNCHANGED <<snapshot, timer, events, changes>>
  BY DEF HostExits
<1>6. CASE cycle = "killing"
  <2>1. AfterKill(hosts) /\ UNCHANGED closed
    BY <1>1, <1>4, <1>6 DEF HostExits
  <2>2. \A g \in Hosts : hosts[g] = Gone
    BY <1>1, <1>3, <1>4, <1>6, Facts DEF Serves
  <2> HIDE DEF hosts
  <2> QED BY <1>4, <1>5, <2>1, <2>2, KillEnds
<1>7. CASE cycle # "killing"
  <2>1. /\ host' = hosts /\ UNCHANGED <<child, fresh>>
        /\ closed' \in BOOLEAN /\ dirty' \in BOOLEAN /\ pending' \in BOOLEAN
        /\ cycle' \in {"refused", "idle", "building"}
    <3>1. CASE cycle \in {"initial", "refusing"}
      BY <1>1, <1>4, <3>1, Facts DEF HostExits, ParentOK
    <3>2. CASE cycle = "starting"
      BY <1>1, <1>4, <3>2, Facts, CycleEnds DEF HostExits, ParentOK
    <3>3. CASE cycle \notin {"initial", "refusing", "starting"}
      BY <1>1, <1>4, <1>7, <3>3, Facts DEF HostExits, ParentOK, Cycle
    <3> QED BY <3>1, <3>2, <3>3
  <2>2. ParentOK'
    BY <1>5, <2>1, Facts DEF ParentOK, Cycle
  <2>3. Serves(host[child])'
    BY <1>3, <1>4, <2>1 DEF Serves
  <2> QED BY <1>3, <2>1, <2>2, <2>3, ChildChanges
<1> QED BY <1>6, <1>7

LEMMA Step == IInv /\ [Next]_vars => IInv'
<1> SUFFICES ASSUME IInv, [Next]_vars PROVE IInv'
  OBVIOUS
<1>1. CASE UNCHANGED vars
  <2>1. ParentOK'
    BY <1>1, Facts DEF vars, ParentOK
  <2>2. Serves(host[child])'
    BY <1>1, Facts DEF vars, Serves
  <2> QED BY <1>1, <2>1, <2>2, ChildKept DEF vars
<1> QED
  BY <1>1, StepFires, StepOutside, StepClose, StepKillTimeout, StepHostReports,
     StepBuildEnds, StepReadReport, StepHostExits
  DEF Next

LEMMA Invariance == Spec => []IInv
BY Initially, Step, PTL DEF Spec

-----------------------------------------------------------------------------
(* startWatchMode: the state of the parent and of its hosts has its types. *)
THEOREM WatchTypeCorrect == Spec => []TypeOK
<1>1. IInv => TypeOK
  BY DEF IInv
<1> QED BY <1>1, Invariance, PTL

(* runCycle and killChild: at any time one host runs at most, and what is  *)
(* shown is the one that runs, once it has said that it is ready.          *)
THEOREM OneHostAtATime == Spec => []OneHost
<1>1. ASSUME IInv PROVE OneHost
  <2>1. Alive \subseteq {child}
    BY <1>1, TheChild DEF Alive
  <2>2. Cardinality(Alive) <= 1
    <3>1. IsFiniteSet({child}) /\ Cardinality({child}) = 1
      BY FS_Singleton
    <3> QED BY <2>1, <3>1, FS_Subset, FS_CardinalityType
  <2> QED BY <1>1, <2>2 DEF OneHost, IInv
<1> QED BY <1>1, Invariance, PTL

(* What a step does to the processes, as far as the theorems about actions *)
(* need it: no process is told to stop unless close() was called or a build*)
(* has succeeded, and once close() was called none starts.                 *)
Spares(h) ==
    /\ host[h].told = "no" /\ host'[h].told # "no" => closed' \/ fresh'
    /\ closed /\ host'[h].alive => host[h].alive

LEMMA StartSpares ==
    ASSUME NEW hosts \in [Hosts -> Host], StartChild(hosts), ~closed, NEW h \in Hosts,
           host[h].told = "no" => hosts[h].told = "no"
    PROVE  Spares(h)
BY EmptyRecords DEF StartChild, Spares

LEMMA BuildSpares ==
    ASSUME IInv, NEW ok \in BOOLEAN, BuildEnds(ok), NEW h \in Hosts PROVE Spares(h)
<1>1. AfterBuild(ok)
  BY DEF BuildEnds
<1>2. CASE UNCHANGED host
  BY <1>2 DEF Spares
<1>3. CASE Replace /\ ~closed /\ host[child].alive
  BY <1>3 DEF Replace, Spares
<1>4. CASE Replace /\ ~closed /\ ~host[child].alive
  BY <1>4, Facts, StartSpares DEF Replace, AfterKill, TypeOK
<1> QED BY <1>1, <1>2, <1>3, <1>4 DEF AfterBuild

LEMMA ReadSpares ==
    ASSUME IInv, NEW g \in Hosts, ReadReport(g), NEW h \in Hosts PROVE Spares(h)
<1> DEFINE read == [host[g] EXCEPT !.unread = FALSE]
           r == Released(read)
           hosts == [host EXCEPT ![g] = r]
<1>1. read \in Host /\ read.alive = host[g].alive /\ read.told = host[g].told
  BY Facts DEF Host
<1>2. r \in Host /\ r.alive = host[g].alive /\ (host[g].told = "no" => r.told = "no")
  BY <1>1, ReleasedFields
<1>3. hosts \in [Hosts -> Host] /\ (host[h].told = "no" => hosts[h].told = "no")
      /\ hosts[h].alive = host[h].alive /\ hosts = [host EXCEPT ![g] = Released([@ EXCEPT !.unread = FALSE])]
  BY <1>2, Facts DEF TypeOK
<1> HIDE DEF read, r, hosts
<1>4. CASE host' = hosts
  BY <1>3, <1>4 DEF Spares
<1>5. CASE closed' = TRUE /\ host' = [hosts EXCEPT ![g] = Terminated(@)]
  <2>1. host'[h].alive = hosts[h].alive
    BY <1>3, <1>5, TerminatedFields
  <2> QED BY <1>3, <1>5, <2>1 DEF Spares
<1> QED BY <1>3, <1>4, <1>5 DEF ReadReport

LEMMA ExitSpares ==
    ASSUME IInv, NEW g \in Hosts, HostExits(g), NEW h \in Hosts PROVE Spares(h)
<1> DEFINE gone == [host[g] EXCEPT !.alive = FALSE]
           r == Released(gone)
           hosts == [host EXCEPT ![g] = r]
<1>1. gone \in Host /\ ~gone.alive /\ gone.told = host[g].told
  BY Facts DEF Host
<1>2. r \in Host /\ ~r.alive /\ (host[g].told = "no" => r.told = "no")
  BY <1>1, ReleasedFields
<1>3. /\ hosts \in [Hosts -> Host] /\ (host[h].told = "no" => hosts[h].told = "no")
      /\ hosts[h].alive => host[h].alive
      /\ hosts = [host EXCEPT ![g] = Released([@ EXCEPT !.alive = FALSE])]
  BY <1>2, Facts DEF TypeOK
<1> HIDE DEF gone, r, hosts
<1>4. CASE host' = hosts
  BY <1>3, <1>4 DEF Spares
<1>5. CASE AfterKill(hosts)
  BY <1>3, <1>4, <1>5, StartSpares DEF AfterKill
<1> QED BY <1>3, <1>4, <1>5 DEF HostExits

LEMMA StepSpares == ASSUME IInv, [Next]_vars, NEW h \in Hosts PROVE Spares(h)
<1>1. CASE UNCHANGED host
  BY <1>1 DEF Spares
<1>2. CASE Close
  <2>1. host'[h].alive = host[h].alive
    BY <1>2, Facts, TerminatedFields DEF Close, TypeOK
  <2> QED BY <1>2, <2>1 DEF Close, Spares
<1>3. ASSUME NEW g \in Hosts, KillTimeout(g) PROVE Spares(h)
  BY <1>3, Facts DEF KillTimeout, TypeOK, Host, Spares
<1>4. ASSUME NEW g \in Hosts, NEW report \in Reports, HostReports(g, report)
      PROVE  Spares(h)
  BY <1>4, Facts DEF HostReports, TypeOK, Host, Spares
<1> QED
  BY <1>1, <1>2, <1>3, <1>4, BuildSpares, ReadSpares, ExitSpares
  DEF Next, Fires, SourceChanges, BuildWrites, WatchEvent, vars

(* runCycle: a failed build leaves the running host in peace; a host is    *)
(* told to stop by close() or after a build that succeeded.                *)
THEOREM FailedBuildKeepsServing == Spec => KeepsServing
<1>1. IInv /\ [Next]_vars =>
          [\A h \in Hosts : host[h].told = "no" /\ host'[h].told # "no" => closed' \/ fresh']_vars
  BY StepSpares DEF Spares
<1> QED BY <1>1, Invariance, PTL DEF Spec, KeepsServing

(* close(), whatever cycle is under way: nothing is started after it, and  *)
(* what still runs has been sent a signal, so that CloseIsFinal rests on   *)
(* the timer of killChild alone.                                           *)
NothingStarts == [][closed => Alive' \subseteq Alive]_vars
AllTold == closed => \A h \in Alive : host[h].told # "no"

THEOREM NothingAfterClose == Spec => NothingStarts /\ []AllTold
<1>1. IInv /\ [Next]_vars => [closed => Alive' \subseteq Alive]_vars
  BY StepSpares DEF Spares, Alive
<1>2. IInv => AllTold
  BY TheChild DEF IInv, ToldToEnd, AllTold, Alive
<1> QED BY <1>1, <1>2, Invariance, PTL DEF Spec, NothingStarts
=============================================================================
