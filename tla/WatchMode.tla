-------------------------------- MODULE WatchMode --------------------------------
(***************************************************************************)
(* startWatchMode of packages/devtools/src/watch.ts: the engine runs in a  *)
(* child process, a host; source changes run the build command, and only a *)
(* build that succeeded replaces the host.                                 *)
(*                                                                         *)
(* Watch events, timers, exits and reports of processes, and close(), are  *)
(* events of the parent; each finds the microtasks of the one before done, *)
(* so an await and what follows it is one step with the event that settles *)
(* it.  Hosts are process identifiers, taken again once a process is gone. *)
(***************************************************************************)
EXTENDS Naturals, FiniteSets

CONSTANTS
    Hosts,                    \* process identifiers
    None,                     \* no host
    ModuleDirectoryInsideCwd, \* the module lies in a directory below the cwd
    MaxChanges                \* bound on the source changes

ASSUME WatchAssumption ==
    None \notin Hosts /\ ModuleDirectoryInsideCwd \in BOOLEAN /\ MaxChanges \in Nat

VARIABLES
    host,     \* host[h]: the process h
    child,    \* the host started last
    snapshot, \* the host engineView() and enginePort() speak of, or None
    closed,   \* close() has been called, or the first host did not start
    cycle,    \* what startWatchMode, and then runCycle, awaits
    dirty,    \* another cycle has been asked for
    timer,    \* debounceTimer is running
    events,   \* the Files with an event that the watchers have yet to report
    changes,  \* how many source changes there were
    pending,  \* a source changed since a build last began
    fresh     \* a build succeeded since a host was last started

vars ==
    <<host, child, snapshot, closed, cycle, dirty, timer, events, changes, pending, fresh>>

(* What handleWatchEvent tells apart.                                      *)
Files ==
    {"source",  \* in none of the classes below
     "ignored", \* the module, and what a segment or a pattern excludes
     "sibling", \* another file in the directory of the module
     "unnamed"} \* the event has no file name

Reports == {"ready", "load-error", "doctor-findings"}

Cycle ==
    {"initial",   \* the first startChild
     "refusing",  \* killChild of a first host that did not start
     "refused",   \* there are no handles
     "idle", "building",
     "killing",   \* killChild(previous)
     "starting"}  \* startChild

Host ==
    [alive : BOOLEAN,
     told : {"no", "SIGTERM", "SIGKILL"}, \* the signal sent last
     report : Reports \cup {"none"},      \* what it has written about its start,
     unread : BOOLEAN]                    \* and the parent has not read yet

Gone == [alive |-> FALSE, told |-> "no", report |-> "none", unread |-> FALSE]
Loading == [Gone EXCEPT !.alive = TRUE]

TypeOK ==
    /\ host \in [Hosts -> Host]
    /\ child \in Hosts
    /\ snapshot \in Hosts \cup {None}
    /\ {closed, dirty, timer, pending, fresh} \subseteq BOOLEAN
    /\ cycle \in Cycle
    /\ events \subseteq Files
    /\ changes \in 0..MaxChanges

Alive == {h \in Hosts : host[h].alive}

Init ==
    /\ child \in Hosts
    /\ host = [h \in Hosts |-> IF h = child THEN Loading ELSE Gone]
    /\ snapshot = None
    /\ closed = FALSE
    /\ cycle = "initial"
    /\ dirty = FALSE
    /\ timer = FALSE
    /\ events = {}
    /\ changes = 0
    /\ pending = FALSE
    /\ fresh = FALSE

(* There are handles, and watchers.                                        *)
Started == cycle \notin {"initial", "refusing", "refused"}
Watching == Started /\ ~closed

-----------------------------------------------------------------------------
(* killChild, up to its await.                                             *)
Terminated(r) == IF r.alive /\ r.told = "no" THEN [r EXCEPT !.told = "SIGTERM"] ELSE r

(* The timer of a killChild whose host did not heed SIGTERM.               *)
KillTimeout(h) ==
    /\ host[h].alive /\ host[h].told = "SIGTERM"
    /\ host' = [host EXCEPT ![h].told = "SIGKILL"]
    /\ UNCHANGED <<child, snapshot, closed, cycle, dirty, timer, events, changes, pending,
                   fresh>>

-----------------------------------------------------------------------------
(* runCycle.                                                               *)

(* The head of the loop: a build begins, and reads the sources there are.  *)
BeginBuild == cycle' = "building" /\ dirty' = FALSE /\ pending' = FALSE

LeaveCycle == cycle' = "idle" /\ UNCHANGED <<dirty, pending>>

(* The end of the loop.                                                    *)
EndIteration == IF dirty /\ ~closed THEN BeginBuild ELSE LeaveCycle

StartChild(hosts) ==
    \E h \in Hosts :
        /\ hosts[h] = Gone
        /\ host' = [hosts EXCEPT ![h] = Loading]
        /\ child' = h
        /\ cycle' = "starting"
        /\ fresh' = FALSE
        /\ UNCHANGED <<dirty, pending>>

(* Mutant of AfterKill: closed is not looked at again after the await.     *)
AfterKillStarts(hosts) == StartChild(hosts)

(* What follows the await on killChild(previous).                          *)
AfterKill(hosts) ==
    IF closed
    THEN LeaveCycle /\ host' = hosts /\ UNCHANGED child /\ fresh' = TRUE
    ELSE StartChild(hosts)

(* Mutant of Replace: killChild(previous) is not awaited.                  *)
ReplaceAtOnce == AfterKill([host EXCEPT ![child] = Terminated(@)])

Replace ==
    IF host[child].alive
    THEN /\ host' = [host EXCEPT ![child] = Terminated(@)]
         /\ cycle' = "killing"
         /\ fresh' = TRUE
         /\ UNCHANGED <<child, dirty, pending>>
    ELSE AfterKill(host)

(* Mutant of AfterBuild: a failed build replaces the host as well.         *)
AfterBuildAlways(ok) ==
    CASE closed -> LeaveCycle /\ UNCHANGED <<host, child, fresh>>
      [] ~closed /\ ok -> Replace
      [] OTHER -> /\ host' = [host EXCEPT ![child] = Terminated(@)]
                  /\ cycle' = "killing"
                  /\ UNCHANGED <<child, dirty, pending, fresh>>

(* What follows the await on runBuild().                                   *)
AfterBuild(ok) ==
    CASE closed -> LeaveCycle /\ UNCHANGED <<host, child, fresh>>
      [] ~closed /\ ok -> Replace
      [] OTHER -> EndIteration /\ UNCHANGED <<host, child, fresh>>

(* A build takes long enough for the parent to have read all that a host   *)
(* wrote before it exited.                                                 *)
BuildEnds(ok) ==
    /\ cycle = "building"
    /\ \A h \in Hosts \ Alive : ~host[h].unread
    /\ AfterBuild(ok)
    /\ UNCHANGED <<snapshot, closed, timer, events, changes>>

(* Mutant of RunCycle: a change is forgotten while a cycle runs.           *)
RunCycleForgets ==
    IF cycle # "idle" \/ closed THEN UNCHANGED <<cycle, dirty, pending>> ELSE BeginBuild

RunCycle ==
    IF cycle # "idle" \/ closed
    THEN dirty' = TRUE /\ UNCHANGED <<cycle, pending>>
    ELSE BeginBuild

-----------------------------------------------------------------------------
(* schedule, and the watchers.                                             *)

Fires ==
    /\ timer
    /\ timer' = FALSE
    /\ RunCycle
    /\ UNCHANGED <<host, child, snapshot, closed, events, changes, fresh>>

Ignored(file) == file = "ignored" \/ (file = "sibling" /\ ModuleDirectoryInsideCwd)

WatchEvent(file) ==
    /\ Watching
    /\ file \in events
    /\ events' = events \ {file}
    /\ timer' = (timer \/ ~Ignored(file))
    /\ UNCHANGED <<host, child, snapshot, closed, cycle, dirty, changes, pending, fresh>>

-----------------------------------------------------------------------------
(* What the hosts, the build command and the developer do.                 *)

SourceChanges(file) ==
    /\ Watching
    /\ ~Ignored(file)
    /\ changes < MaxChanges
    /\ changes' = changes + 1
    /\ pending' = TRUE
    /\ events' = events \cup {file}
    /\ UNCHANGED <<host, child, snapshot, closed, cycle, dirty, timer, fresh>>

(* A build may write where the watchers look.                              *)
BuildWrites(file) ==
    /\ Watching
    /\ cycle = "building"
    /\ events' = events \cup {file}
    /\ UNCHANGED <<host, child, snapshot, closed, cycle, dirty, timer, changes, pending,
                   fresh>>

(* The module has loaded, or it cannot be served.                          *)
HostReports(h, report) ==
    /\ host[h].alive /\ host[h].report = "none"
    /\ host' = [host EXCEPT ![h].report = report, ![h].unread = TRUE]
    /\ UNCHANGED <<child, snapshot, closed, cycle, dirty, timer, events, changes, pending,
                   fresh>>

(* An identifier is free once the process is gone and its pipe is read.    *)
Released(r) == IF r.alive \/ r.unread THEN r ELSE Gone

Seen(h) == IF host[h].report = "ready" THEN h ELSE snapshot

(* The parent reads the report, which settles the startChild of h.         *)
ReadReport(h) ==
    LET hosts == [host EXCEPT ![h] = Released([@ EXCEPT !.unread = FALSE])]
        ready == host[h].report = "ready"
    IN  /\ host[h].unread
        /\ snapshot' = Seen(h)
        /\ CASE cycle = "initial" /\ ready ->
                    cycle' = "idle" /\ host' = hosts /\ UNCHANGED <<closed, dirty, pending>>
             [] cycle = "initial" /\ ~ready ->
                    /\ closed' = TRUE
                    /\ host' = [hosts EXCEPT ![h] = Terminated(@)]
                    /\ cycle' = "refusing"
                    /\ UNCHANGED <<dirty, pending>>
             [] cycle = "starting" /\ h = child ->
                    EndIteration /\ host' = hosts /\ UNCHANGED closed
             [] OTHER -> host' = hosts /\ UNCHANGED <<closed, cycle, dirty, pending>>
        /\ UNCHANGED <<child, timer, events, changes, fresh>>

(* A host exits, told to or not, and with that settle its startChild and   *)
(* every killChild that awaits it.                                         *)
HostExits(h) ==
    LET hosts == [host EXCEPT ![h] = Released([@ EXCEPT !.alive = FALSE])]
    IN  /\ host[h].alive
        /\ CASE cycle \in {"initial", "refusing"} ->
                    /\ closed' = TRUE /\ cycle' = "refused" /\ host' = hosts
                    /\ UNCHANGED <<child, dirty, pending, fresh>>
             [] cycle = "starting" /\ h = child ->
                    EndIteration /\ host' = hosts /\ UNCHANGED <<child, closed, fresh>>
             [] cycle = "killing" /\ h = child ->
                    AfterKill(hosts) /\ UNCHANGED closed
             [] OTHER -> host' = hosts /\ UNCHANGED <<child, closed, cycle, dirty, pending,
                                                      fresh>>
        /\ UNCHANGED <<snapshot, timer, events, changes>>

(* close().                                                                *)
Close ==
    /\ Watching
    /\ closed' = TRUE
    /\ timer' = FALSE
    /\ events' = {}
    /\ host' = [host EXCEPT ![child] = Terminated(@)]
    /\ UNCHANGED <<child, snapshot, cycle, dirty, changes, pending, fresh>>

-----------------------------------------------------------------------------
Next ==
    \/ Fires \/ Close
    \/ \E file \in Files : SourceChanges(file) \/ BuildWrites(file) \/ WatchEvent(file)
    \/ \E ok \in BOOLEAN : BuildEnds(ok)
    \/ \E h \in Hosts :
          \/ KillTimeout(h) \/ ReadReport(h) \/ HostExits(h)
          \/ \E report \in Reports : HostReports(h, report)

Spec == Init /\ [][Next]_vars

(* Timers fire, events are delivered, a build ends, a host that loads      *)
(* reports or exits, and SIGKILL ends a host.                              *)
FairSpec ==
    /\ Spec
    /\ WF_vars(Fires)
    /\ \A file \in Files : WF_vars(WatchEvent(file))
    /\ WF_vars(\E ok \in BOOLEAN : BuildEnds(ok))
    /\ \A h \in Hosts :
          /\ WF_vars(KillTimeout(h)) /\ WF_vars(ReadReport(h))
          /\ WF_vars(\E report \in Reports : HostReports(h, report))
          /\ WF_vars(host[h].told = "SIGKILL" /\ HostExits(h))

-----------------------------------------------------------------------------
(* The view and the port shown to the developer are those of the host that *)
(* runs, as soon as it has said that it is ready; a late report of an      *)
(* earlier host changes nothing.                                           *)
ViewIsCurrent ==
    host[child].alive /\ host[child].report = "ready" /\ ~host[child].unread =>
        snapshot = child

(* Two engines never run at once, whichever of a rebuild, a crash and a    *)
(* close comes first: a second one would find the port taken.  The one     *)
(* that runs is the one that is shown.                                     *)
OneHost == Cardinality(Alive) <= 1 /\ ViewIsCurrent

(* "The previous host keeps serving through a failed build": a host is     *)
(* told to stop only by close(), or when a build has succeeded since it    *)
(* was started.                                                            *)
KeepsServing ==
    [][\A h \in Hosts : host[h].told = "no" /\ host'[h].told # "no" => closed' \/ fresh']_vars

(* However changes fall on debounce, build and restart, a build begins     *)
(* after the last of them, even when builds set off further builds for     *)
(* ever.  That they may: what a build writes is heeded unless it is        *)
(* ignored.  When from some time on builds write ignored files only, the   *)
(* watcher ends up idle, with nothing missed.                              *)
CatchesUp ==
    /\ pending ~> closed \/ ~pending
    /\ <>[][\A file \in Files : BuildWrites(file) => Ignored(file)]_vars
          => <>[](closed \/ (cycle = "idle" /\ ~pending))

(* After close() every host ends, one that ignores SIGTERM too, and no     *)
(* cycle that was under way starts another.                                *)
CloseIsFinal == closed ~> [](Alive = {})
=============================================================================
