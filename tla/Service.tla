------------------------------- MODULE Service -------------------------------
(***************************************************************************)
(* The life of the service process (service/main.cpp): loading the         *)
(* configuration, starting the parts in order, the threads that run the    *)
(* shared io_context, the HTTP server's thread, the cleaner and backup     *)
(* threads, and the way down after a signal.                               *)
(*                                                                         *)
(* A coroutine is a task of the io_context: it holds a thread from the     *)
(* time it is resumed until it awaits something that has not happened yet. *)
(* What the tasks read and write is the subject of Exchange and            *)
(* Replication; here it matters when they hold a thread and when they end. *)
(***************************************************************************)
EXTENDS Configuration

CONSTANTS Scenarios,     \* environments, files, options and faults to start with
          MaxConnections, \* bounds a scenario's TCP clients connected at once
          MaxSubscribers, \* bounds a scenario's subscribers
          MaxPeers,      \* bound on Configuration.peers
          MaxThreads     \* bound on Configuration.threads

\* What loadConfig ends with, unless it fails: the object made from the file, or
\* the first one with the options and their peers.
Loaded(s) ==
    IF s.options.file THEN FromFile(s.env, s.file)
    ELSE WithPeers(WithOptions(NewConfiguration(s.env), s.options), s.options)

ASSUME ServiceAssumption ==
    /\ {MaxConnections, MaxSubscribers, MaxPeers, MaxThreads} \subseteq Nat
    /\ \A s \in Scenarios : \E n \in 0..MaxPeers : DOMAIN Loaded(s).peers = 1..n

Connection == {<<"connection", i>> : i \in 1..MaxConnections}
Subscriber == {<<"subscriber", i>> : i \in 1..MaxSubscribers}
Tcp        == <<"tcp", 0>>
Notifier   == <<"notifier", 0>>
Signal     == <<"signal", 0>>
Peer       == {<<"peer", i>> : i \in 1..MaxPeers}
Task       == Connection \cup Subscriber \cup Peer \cup {Tcp, Notifier, Signal}

Main   == 0
Http   == -1
Thread == -1..MaxThreads

\* What a thread does that runs no task.
Absent   == <<"absent", 0>>       \* not created
Starting == <<"starting", 0>>     \* created, not yet in ioc.run()
Idle     == <<"idle", 0>>         \* in ioc.run() without a handler
Leaving  == <<"leaving", 0>>      \* out of ioc.run(), with work left to do
Returned == <<"returned", 0>>

VARIABLES scenario,   \* what this process is started with
          pc,         \* main's next step
          object,     \* the Configuration objects; Freed once replaced
          holder,     \* the object the holder owns
          stopped,    \* ioc.stopped()
          ready,      \* handlers in the order they were queued
          state,      \* of every task
          at,         \* the await a task is at
          on,         \* what each thread does
          queued,     \* subscribers whose notification queue is not empty
          due,        \* subscribers whose last ping is more than 15 s ago
          signalled,  \* SIGINT or SIGTERM was received
          web,        \* the HTTP server's own thread
          cleaner,    \* the cleaner thread
          backup,     \* the backup thread
          day,        \* today
          startDay,   \* the day the backup thread last dealt with
          tested,     \* the day its last backup was started for
          kept        \* days of the backups on disk, oldest first

vars == <<scenario, pc, object, holder, stopped, ready, state, at, on, queued,
          due, signalled, web, cleaner, backup, day, startDay, tested, kept>>

config  == <<scenario, object, holder>>
tasks   == <<ready, state, at, queued, due>>
backups == <<backup, day, startDay, tested, kept>>
outside == <<signalled, web, cleaner>>

Freed == [freed |-> TRUE]
conf  == object[holder]

Init ==
    /\ scenario \in Scenarios
    /\ pc = "options"
    /\ object = <<NewConfiguration(scenario.env)>> /\ holder = 1
    /\ stopped = FALSE
    /\ ready = <<>>
    /\ state = [t \in Task |-> "none"] /\ at = [t \in Task |-> "start"]
    /\ on = [h \in Thread |-> IF h = Main THEN Starting ELSE Absent]
    /\ queued = {} /\ due = {}
    /\ signalled = FALSE
    /\ web = "off" /\ cleaner = "none" /\ backup = "none"
    /\ day = 0 /\ startDay = 0 /\ tested = 0 /\ kept = <<>>
-----------------------------------------------------------------------------
(* loadConfig: conf is a reference to the first object throughout. *)

Goto(step) == pc' = step

ParseOptions ==
    /\ pc = "options"
    /\ \/ /\ scenario.options.error           \* also --help: exit
          /\ Goto("exit") /\ UNCHANGED object
       \/ /\ ~ scenario.options.error
          /\ object' = [object EXCEPT ![1] = WithOptions(@, scenario.options)]
          /\ Goto(IF scenario.options.file THEN "file" ELSE "peers")
    /\ UNCHANGED <<scenario, holder, stopped, tasks, on, outside, backups>>

LoadFileInPlace ==                                          \* mutant
    /\ pc = "file" /\ ~ scenario.file.error
    /\ object' = [object EXCEPT ![1].set =
                    [s \in Setting |-> Over(scenario.file.set[s], @[s])]]
    /\ Goto("peers")
    /\ UNCHANGED <<scenario, holder, stopped, tasks, on, outside, backups>>

\* The file is not found or not valid: the exception ends the process.
LoadFile ==
    /\ pc = "file"
    /\ \/ /\ scenario.file.error
          /\ Goto("exit") /\ UNCHANGED <<object, holder>>
       \/ /\ ~ scenario.file.error
          /\ object' = <<Freed, FromFile(scenario.env, scenario.file)>>
          /\ holder' = 2
          /\ Goto("peers")
    /\ UNCHANGED <<scenario, stopped, tasks, on, outside, backups>>

\* Appending to the peers of a freed object is undefined: the process fails
\* or nothing that is still in use changes.
AppendPeers ==
    /\ pc = "peers"
    /\ \/ /\ object[1] # Freed
          /\ object' = [object EXCEPT ![1] = WithPeers(@, scenario.options)]
          /\ Goto("database")
       \/ /\ object[1] = Freed
          /\ Goto("database") /\ UNCHANGED object
       \/ /\ object[1] = Freed /\ scenario.options.peers # <<>>
          /\ Goto("exit") /\ UNCHANGED object
    /\ UNCHANGED <<scenario, holder, stopped, tasks, on, outside, backups>>
-----------------------------------------------------------------------------
(* The io_context. *)

\* A coroutine is spawned, or what it awaits has happened.
Queue(ts) ==
    /\ ready' = ready \o ts
    /\ state' = [t \in Task |-> IF \E i \in DOMAIN ts : ts[i] = t THEN "ready" ELSE state[t]]

\* Tasks that have not ended keep ioc.run() from returning.
Work == {t \in Task : state[t] \notin {"none", "gone"}}

\* The task gives its thread back, waiting for the given completion or done.
Awaits(h, t, point) ==
    /\ on' = [on EXCEPT ![h] = Idle]
    /\ state' = [state EXCEPT ![t] = "waiting"] /\ at' = [at EXCEPT ![t] = point]
Ends(h, t) ==
    /\ on' = [on EXCEPT ![h] = Idle]
    /\ state' = [state EXCEPT ![t] = "gone"]
    /\ UNCHANGED at

Take(h) ==
    /\ on[h] = Idle /\ ~ stopped /\ ready # <<>>
    /\ on' = [on EXCEPT ![h] = Head(ready)]
    /\ state' = [state EXCEPT ![Head(ready)] = "running"]
    /\ ready' = Tail(ready)
    /\ UNCHANGED <<config, pc, stopped, at, queued, due, outside, backups>>

\* run() returns when the context is stopped; running out of work stops it.
RunReturns(h) ==
    /\ on[h] = Idle
    /\ stopped \/ Work = {}
    /\ stopped' = TRUE
    /\ on' = [on EXCEPT ![h] = IF h > 0 THEN Returned ELSE Leaving]
    /\ UNCHANGED <<config, pc, tasks, outside, backups>>

\* Of the connections a scenario allows.
Free(served) ==
    {c \in served : /\ state[c] \in {"none", "gone"}
                    /\ c[2] <= IF served = Connection THEN scenario.connections
                                                    ELSE scenario.subscribers}

\* What was awaited has happened: a client connected or sent something, a
\* write was done, a peer answered.
Completed(t) ==
    /\ state[t] = "waiting" /\ t # Signal
    /\ t = Tcp => Free(Connection) # {}
    /\ t = Notifier => Free(Subscriber) # {}
    /\ Queue(<<t>>)
    /\ UNCHANGED <<config, pc, stopped, at, on, queued, due, outside, backups>>

SignalReceived ==
    /\ state[Signal] = "waiting"
    /\ signalled' = TRUE
    /\ Queue(<<Signal>>)
    /\ UNCHANGED <<config, pc, stopped, at, on, queued, due, web, cleaner, backups>>
-----------------------------------------------------------------------------
(* main: the parts are started in this order. *)

AfterHttpFirst ==                                           \* mutant
    [database |-> "http", http |-> "tcp", tcp |-> "cleaner", cleaner |-> "backup",
     backup |-> "notifier", notifier |-> "signals", signals |-> "run",
     run |-> "stop", stop |-> "join", join |-> "end"]

After ==
    [database |-> "tcp", tcp |-> "http", http |-> "cleaner", cleaner |-> "backup",
     backup |-> "notifier", notifier |-> "signals", signals |-> "run",
     run |-> "stop", stop |-> "join", join |-> "end"]

Start(step) == pc = step /\ Goto(After[step])

OpenDatabase ==
    /\ IF scenario.dbError THEN pc = "database" /\ Goto("exit") ELSE Start("database")
    /\ UNCHANGED <<config, stopped, tasks, on, outside, backups>>

StartTcp ==
    /\ Start("tcp")
    /\ Queue(<<Tcp>>)
    /\ UNCHANGED <<config, stopped, at, on, queued, due, outside, backups>>

StartHttp ==
    /\ Start("http")
    /\ on' = IF conf.set["http"] # "0" THEN [on EXCEPT ![Http] = Starting] ELSE on
    /\ UNCHANGED <<config, stopped, tasks, outside, backups>>

StartCleaner ==
    /\ Start("cleaner")
    /\ cleaner' = "run"
    /\ UNCHANGED <<config, stopped, tasks, on, signalled, web, backups>>

StartBackup ==
    /\ Start("backup")
    /\ backup' = "test" /\ startDay' = day /\ tested' = day
    /\ UNCHANGED <<config, stopped, tasks, on, outside, day, kept>>

\* Without peers there is neither a notifier nor a listener.
StartPeering ==
    /\ Start("notifier")
    /\ IF conf.peers = <<>>
       THEN UNCHANGED <<ready, state>>
       ELSE Queue(<<Notifier>> \o [i \in DOMAIN conf.peers |-> <<"peer", i>>])
    /\ UNCHANGED <<config, stopped, at, on, queued, due, outside, backups>>

AwaitSignal ==
    /\ Start("signals")
    /\ state' = [state EXCEPT ![Signal] = "waiting"]
    /\ UNCHANGED <<config, stopped, ready, at, on, queued, due, outside, backups>>

RunContext ==
    /\ Start("run")
    /\ on' = [h \in Thread |-> IF h \in 0..conf.set["threads"] THEN Idle ELSE on[h]]
    /\ UNCHANGED <<config, stopped, tasks, outside, backups>>

FlaggedAfterJoin == pc = "end"                              \* mutant

\* cleaner.stop() and backup.stop() raise the flags the two threads test.
Flagged == pc \in {"join", "end"}

StopThreads ==
    /\ on[Main] = Leaving
    /\ Start("stop")
    /\ UNCHANGED <<config, stopped, tasks, on, outside, backups>>

Join ==
    /\ Start("join")
    /\ \A h \in Thread \ {Main} : on[h] \in {Absent, Returned}
    /\ cleaner = "done" /\ backup = "done"
    /\ on' = [on EXCEPT ![Main] = Returned]
    /\ UNCHANGED <<config, stopped, tasks, outside, backups>>
-----------------------------------------------------------------------------
(* The HTTP server: its thread helps to run the context. *)

HttpListen ==
    /\ on[Http] = Starting
    /\ \/ scenario.httpError /\ on' = [on EXCEPT ![Http] = Returned] /\ UNCHANGED web
       \/ ~ scenario.httpError /\ on' = [on EXCEPT ![Http] = Idle] /\ web' = "idle"
    /\ UNCHANGED <<config, pc, stopped, tasks, signalled, cleaner, backups>>

\* A change made through HTTP or TCP is emitted to every subscriber.
Emit == queued' = queued \cup {s \in Subscriber : at[s] # "start"}

\* None is taken once the server is being stopped.
HttpRequest ==
    /\ on[Http] # Leaving
    /\ web = "idle" /\ web' = "busy"
    /\ UNCHANGED <<config, pc, stopped, tasks, on, signalled, cleaner, backups>>

HttpAnswer ==
    /\ web = "busy" /\ web' = "idle"
    /\ Emit
    /\ UNCHANGED <<config, pc, stopped, ready, state, at, due, on, signalled, cleaner, backups>>

\* server.stop() and server.join(): a request in progress is finished.
HttpStop ==
    /\ on[Http] = Leaving /\ web = "idle"
    /\ web' = "off"
    /\ on' = [on EXCEPT ![Http] = Returned]
    /\ UNCHANGED <<config, pc, stopped, tasks, signalled, cleaner, backups>>
-----------------------------------------------------------------------------
(* The tasks.  An exception that leaves a detached coroutine ends it and is *)
(* not reported.                                                           *)

Fails(h, t) ==
    /\ Ends(h, t)
    /\ UNCHANGED <<config, pc, stopped, ready, queued, due, outside, backups>>

Suspends(h, t, point) ==
    /\ Awaits(h, t, point)
    /\ UNCHANGED <<config, pc, stopped, ready, queued, due, outside, backups>>

\* tcp::coroutine::listener and pnotifier::listener: the port is bound, then
\* connections are accepted and served until accepting one fails.
Bind(h, t, error) ==
    /\ on[h] = t /\ at[t] = "start"
    /\ IF error THEN Fails(h, t) ELSE Suspends(h, t, "accept")

Accept(h, t, served) ==
    /\ on[h] = t /\ at[t] = "accept"
    /\ \E c \in Free(served) :
        /\ \A d \in Free(served) : c[2] <= d[2]
        /\ on' = [on EXCEPT ![h] = Idle]
        /\ ready' = Append(ready, c)
        /\ state' = [state EXCEPT ![c] = "ready", ![t] = IF stopped THEN "gone" ELSE "waiting"]
        /\ at' = [at EXCEPT ![c] = "start"]
    /\ UNCHANGED <<config, pc, stopped, queued, due, outside, backups>>

AcceptFails(h, t) ==
    /\ on[h] = t /\ at[t] = "accept"
    /\ Fails(h, t)

\* serve: read a request, process it, write the answer; end of file ends it.
ServeRead(h, c) ==
    /\ on[h] = c /\ at[c] \in {"start", "write"}
    /\ Suspends(h, c, "read")

ServeRequest(h, c) ==
    /\ on[h] = c /\ at[c] = "read"
    /\ Awaits(h, c, "write")
    /\ Emit
    /\ UNCHANGED <<config, pc, stopped, ready, due, outside, backups>>

ServeEnds(h, c) ==
    /\ on[h] = c /\ at[c] = "read"
    /\ Fails(h, c)

\* pnotifier::serve: with nothing to write and no ping due, respond returns
\* without awaiting anything and is called again: the thread stays held.
Subscribe(h, s) ==
    /\ on[h] = s /\ at[s] = "start"
    /\ at' = [at EXCEPT ![s] = "loop"]
    /\ queued' = queued \ {s} /\ due' = due \ {s}
    /\ UNCHANGED <<config, pc, stopped, ready, state, on, outside, backups>>

Notify(h, s) ==
    /\ on[h] = s /\ at[s] = "loop"
    /\ s \in queued
    /\ queued' = queued \ {s}
    /\ Awaits(h, s, "loop")
    /\ UNCHANGED <<config, pc, stopped, ready, due, outside, backups>>

PingSynchronously(h, s) ==                                  \* mutant
    /\ on[h] = s /\ at[s] = "loop"
    /\ s \notin queued /\ s \in due
    /\ due' = due \ {s}
    /\ UNCHANGED <<config, pc, stopped, ready, state, at, on, queued, outside, backups>>

Ping(h, s) ==
    /\ on[h] = s /\ at[s] = "loop"
    /\ s \notin queued /\ s \in due
    /\ Suspends(h, s, "ping")

\* The ping was written or could not be; either way the next one is due later.
Pinged(h, s) ==
    /\ on[h] = s /\ at[s] = "ping"
    /\ due' = due \ {s} /\ at' = [at EXCEPT ![s] = "loop"]
    /\ UNCHANGED <<config, pc, stopped, ready, state, on, queued, outside, backups>>

\* The listener of a peer: resolve once, then connect and read until the
\* context is stopped.
Resolve(h, p) ==
    /\ on[h] = p /\ at[p] = "start"
    /\ IF scenario.resolveError THEN Fails(h, p) ELSE Suspends(h, p, "read")

Listen(h, p) ==
    /\ on[h] = p /\ at[p] = "read"
    /\ IF stopped THEN Fails(h, p) ELSE Suspends(h, p, "read")

HandleSignal(h) ==
    /\ on[h] = Signal
    /\ stopped' = TRUE
    /\ Ends(h, Signal)
    /\ UNCHANGED <<config, pc, ready, queued, due, outside, backups>>
-----------------------------------------------------------------------------
(* The cleaner and backup threads; what a pass does is in Storage. *)

Rest == <<config, pc, stopped, tasks, on, signalled, web>>

\* The pass in progress returns and the flag is tested.
CleanerStep ==
    /\ cleaner = "run" /\ Flagged
    /\ cleaner' = "done"
    /\ UNCHANGED <<Rest, backups>>

BackupTest ==
    /\ backup = "test"
    /\ IF Flagged THEN backup' = "done" /\ UNCHANGED tested
       ELSE IF day > startDay THEN backup' = "create" /\ tested' = day
       ELSE UNCHANGED <<backup, tested>>
    /\ UNCHANGED <<Rest, cleaner, day, startDay, kept>>

Newest(n) == SubSeq(kept, 1 + (IF Len(kept) > n THEN Len(kept) - n ELSE 0), Len(kept))

\* The engine may not open, the backup may fail, or the flag be raised.
BackupCreate ==
    /\ backup = "create"
    /\ \/ scenario.backupError /\ backup' = "sleep" /\ UNCHANGED kept
       \/ backup' = "purge" /\ (Flagged \/ scenario.backupError) /\ UNCHANGED kept
       \/ backup' = "purge" /\ ~ Flagged /\ kept' = Append(kept, day)
    /\ UNCHANGED <<Rest, cleaner, day, startDay, tested>>

BackupPurge ==
    /\ backup = "purge" /\ backup' = "sleep"
    /\ \/ (Flagged \/ scenario.backupError) /\ UNCHANGED kept
       \/ ~ Flagged /\ kept' = Newest(conf.set["maxBackups"])
    /\ UNCHANGED <<Rest, cleaner, day, startDay, tested>>

BackupDoneToday ==                                          \* mutant
    /\ backup = "sleep" /\ backup' = "test"
    /\ startDay' = day
    /\ UNCHANGED <<Rest, cleaner, day, tested, kept>>

\* Whatever became of it, the day is done; the thread sleeps and tests again.
BackupDone ==
    /\ backup = "sleep" /\ backup' = "test"
    /\ startDay' = tested
    /\ UNCHANGED <<Rest, cleaner, day, tested, kept>>

Midnight ==
    /\ day < scenario.days
    /\ day' = day + 1
    /\ UNCHANGED <<Rest, cleaner, backup, startDay, tested, kept>>

\* More than 15 seconds pass since the last ping.
TimePasses(s) ==
    /\ s \notin due /\ state[s] \notin {"none", "gone"}
    /\ due' = due \cup {s}
    /\ UNCHANGED <<config, pc, stopped, ready, state, at, on, queued, outside, backups>>
-----------------------------------------------------------------------------
LoadConfig == ParseOptions \/ LoadFile \/ AppendPeers

MainStep == \/ LoadConfig \/ OpenDatabase \/ StartTcp \/ StartHttp \/ StartCleaner
            \/ StartBackup \/ StartPeering \/ AwaitSignal \/ RunContext
            \/ StopThreads \/ Join

Step(h) ==
    \/ Take(h) \/ RunReturns(h) \/ HandleSignal(h)
    \/ Bind(h, Tcp, scenario.tcpError) \/ Bind(h, Notifier, scenario.notifierError)
    \/ Accept(h, Tcp, Connection) \/ Accept(h, Notifier, Subscriber)
    \/ AcceptFails(h, Tcp) \/ AcceptFails(h, Notifier)
    \/ \E c \in Connection : ServeRead(h, c) \/ ServeRequest(h, c) \/ ServeEnds(h, c)
    \/ \E s \in Subscriber : Subscribe(h, s) \/ Notify(h, s) \/ Ping(h, s) \/ Pinged(h, s)
    \/ \E p \in Peer : Resolve(h, p) \/ Listen(h, p)

HttpStep == HttpListen \/ HttpAnswer \/ HttpStop

BackupStep == BackupTest \/ BackupCreate \/ BackupPurge \/ BackupDone

Next == \/ MainStep \/ (\E h \in Thread : Step(h))
        \/ HttpStep \/ HttpRequest \/ CleanerStep \/ BackupStep
        \/ (\E t \in Task : Completed(t)) \/ SignalReceived
        \/ (\E s \in Subscriber : TimePasses(s)) \/ Midnight

\* Every thread of the process is scheduled and time passes; nothing is
\* assumed of clients, peers or of writes that may never complete.
Spec == /\ Init /\ [][Next]_vars
        /\ WF_vars(MainStep) /\ \A h \in Thread : WF_vars(Step(h))
        /\ WF_vars(HttpStep) /\ WF_vars(CleanerStep) /\ WF_vars(BackupStep)
        /\ \A s \in Subscriber : WF_vars(TimePasses(s))
-----------------------------------------------------------------------------
(* Properties. *)

\* With --config-file no value given by another option is in effect: the
\* options were written to the object that the file's object replaced.
FileIgnoresOptions ==
    pc \notin {"options", "file", "exit"} /\ scenario.options.file =>
        conf = FromFile(scenario.env, scenario.file)

\* The io_context stops on a signal only, unless the TCP port could not be
\* bound: no thread finds it without work while main is still starting parts.
StaysUp == stopped /\ ~ signalled => state[Tcp] = "gone"

\* A client that connected or sent a request is given a thread, unless the
\* context is stopped, though subscribers with nothing to write give theirs
\* back for a ping only.
ClientsServed ==
    \A t \in Connection \cup {Tcp} : state[t] = "ready" ~> state[t] # "ready" \/ stopped

\* After a signal the process ends, whatever holds the threads.
Exits == signalled ~> pc = "end"

\* The backup thread does not fall behind the days, also when a backup lasts
\* past midnight.
BackupFollowsDay == []<>(backup # "none" => tested = day \/ Flagged)
=============================================================================
