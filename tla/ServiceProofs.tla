---------------------------- MODULE ServiceProofs ----------------------------
(***************************************************************************)
(* Proofs about the process, for any configurations and faults it may be   *)
(* started with and any number of threads, clients, subscribers and peers. *)
(***************************************************************************)
EXTENDS Service, SequenceTheorems, TLAPS

Label == {Absent, Starting, Idle, Leaving, Returned}

\* main's steps before the TCP server is started, and before the others are.
BeforeTcp == {"options", "file", "peers", "database", "tcp", "exit"}
BeforePeering == BeforeTcp \cup {"http", "cleaner", "backup", "notifier"}

Typed ==
    /\ scenario \in Scenarios
    /\ ready \in Seq(Task)
    /\ state \in [Task -> {"none", "ready", "running", "waiting", "gone"}]
    /\ on \in [Thread -> Task \cup Label]

\* The objects loadConfig has made so far.
Loading ==
    /\ pc = "options" => holder = 1 /\ object = <<NewConfiguration(scenario.env)>>
    /\ pc = "file" => scenario.options.file
    /\ pc = "peers" =>
          IF scenario.options.file
          THEN holder = 2 /\ object = <<Freed, FromFile(scenario.env, scenario.file)>>
          ELSE /\ holder = 1
               /\ object = <<WithOptions(NewConfiguration(scenario.env), scenario.options)>>
    /\ pc \notin {"options", "file", "peers", "exit"} => conf = Loaded(scenario)

\* A handler is queued once or held by one thread: no coroutine is resumed twice.
QueuedOnce ==
    /\ \A i \in DOMAIN ready : state[ready[i]] = "ready"
    /\ \A i, j \in DOMAIN ready : ready[i] = ready[j] => i = j

RunsOnce ==
    /\ \A h \in Thread : on[h] \in Task => state[on[h]] = "running"
    /\ \A h, k \in Thread : on[h] \in Task /\ on[h] = on[k] => h = k

\* A thread is in ioc.run() only after the TCP server was started.
Begun ==
    /\ pc \in BeforeTcp => /\ ~ stopped /\ ready = <<>>
                           /\ \A h \in Thread : on[h] \in {Absent, Starting}
                           /\ on[Http] = Absent
                           /\ \A t \in Task : state[t] = "none"
    /\ pc \notin BeforeTcp => state[Tcp] # "none"
    /\ pc \in BeforePeering => \A t \in Peer \cup {Notifier} : state[t] = "none"
    /\ pc \in BeforePeering \cup {"signals"} => state[Signal] = "none"

Signals == state[Signal] \in {"ready", "running"} => signalled

Running == Typed /\ QueuedOnce /\ RunsOnce /\ Begun /\ Signals

IInv == Running /\ Loading /\ StaysUp
-----------------------------------------------------------------------------
(* Names. *)

LEMMA Names ==
    /\ Main \in Thread /\ Http \in Thread /\ Main # Http
    /\ {Tcp, Notifier, Signal} \cup Connection \cup Subscriber \cup Peer = Task
    /\ Task \cap Label = {}
    /\ Tcp # Notifier /\ Tcp # Signal /\ Notifier # Signal
    /\ {Tcp, Notifier, Signal} \cap (Connection \cup Subscriber \cup Peer) = {}
    /\ Peer \cap (Connection \cup Subscriber) = {}
<1>1. Main \in Thread /\ Http \in Thread /\ Main # Http
  BY ServiceAssumption DEF Main, Http, Thread
<1>2. {Tcp, Notifier, Signal} \cup Connection \cup Subscriber \cup Peer = Task
  BY DEF Task
<1>3. \A t \in Task : t[1] \in {"connection", "subscriber", "peer", "tcp", "notifier", "signal"}
  BY DEF Task, Tcp, Notifier, Signal, Connection, Subscriber, Peer
<1>4. \A l \in Label : l[1] \in {"absent", "starting", "idle", "leaving", "returned"}
  BY DEF Label, Absent, Starting, Idle, Leaving, Returned
<1>5. Task \cap Label = {}
  BY <1>3, <1>4
<1>6. /\ Tcp[1] = "tcp" /\ Notifier[1] = "notifier" /\ Signal[1] = "signal"
      /\ \A t \in Connection : t[1] = "connection"
      /\ \A t \in Subscriber : t[1] = "subscriber"
      /\ \A t \in Peer : t[1] = "peer"
  BY DEF Tcp, Notifier, Signal, Connection, Subscriber, Peer
<1> QED
  BY <1>1, <1>2, <1>5, <1>6

LEMMA Labels ==
    /\ {Absent, Starting, Idle, Leaving, Returned} = Label
    /\ Idle \notin {Absent, Starting}
BY DEF Label, Absent, Starting, Idle, Leaving, Returned

\* The steps main goes through once the configuration is loaded.
LEMMA StepsOfMain ==
    DOMAIN After = {"database", "tcp", "http", "cleaner", "backup", "notifier",
                    "signals", "run", "stop", "join"}
BY ZenonT(60) DEF After
-----------------------------------------------------------------------------
(* What tasks and threads do to the queue. *)

\* Tasks that are neither queued nor running are queued.
LEMMA QueueOnce ==
    ASSUME Typed, QueuedOnce, RunsOnce,
           NEW ts \in Seq(Task),
           \A i \in DOMAIN ts : state[ts[i]] \notin {"ready", "running"},
           \A i, j \in DOMAIN ts : ts[i] = ts[j] => i = j,
           Queue(ts), UNCHANGED on
    PROVE  /\ ready' \in Seq(Task)
           /\ state' \in [Task -> {"none", "ready", "running", "waiting", "gone"}]
           /\ QueuedOnce' /\ RunsOnce'
<1>1. /\ ready' = ready \o ts
      /\ ready' \in Seq(Task) /\ Len(ready') = Len(ready) + Len(ts)
      /\ \A i \in 1..(Len(ready) + Len(ts)) :
            ready'[i] = IF i <= Len(ready) THEN ready[i] ELSE ts[i - Len(ready)]
  BY ConcatProperties DEF Typed, Queue
<1>2. /\ Len(ready) \in Nat /\ DOMAIN ready = 1..Len(ready)
      /\ Len(ts) \in Nat /\ DOMAIN ts = 1..Len(ts)
      /\ DOMAIN ready' = 1..Len(ready')
      /\ \A i \in DOMAIN ready : ready[i] \in Task
      /\ \A i \in DOMAIN ts : ts[i] \in Task
  BY <1>1, LenProperties, ElementOfSeq DEF Typed
<1>3. \A t \in Task : state'[t] = IF \E i \in DOMAIN ts : ts[i] = t THEN "ready" ELSE state[t]
  BY DEF Queue
<1>4. state' \in [Task -> {"none", "ready", "running", "waiting", "gone"}]
  BY DEF Queue, Typed
<1>5. \A i \in DOMAIN ready' :
         \/ i \in DOMAIN ready /\ ready'[i] = ready[i]
         \/ i - Len(ready) \in DOMAIN ts /\ ready'[i] = ts[i - Len(ready)] /\ i > Len(ready)
  BY <1>1, <1>2
<1>6. \A i \in DOMAIN ready' : state'[ready'[i]] = "ready"
  BY <1>2, <1>3, <1>5 DEF QueuedOnce
<1>7. ASSUME NEW i \in DOMAIN ready', NEW j \in DOMAIN ready', ready'[i] = ready'[j]
      PROVE  i = j
  <2>1. CASE i \in DOMAIN ready /\ j \in DOMAIN ready
    BY <2>1, <1>1, <1>2, <1>7 DEF QueuedOnce
  <2>2. CASE i \notin DOMAIN ready /\ j \notin DOMAIN ready
    <3>1. i - Len(ready) = j - Len(ready)
      BY <2>2, <1>5, <1>7
    <3> QED
      BY <3>1, <1>1, <1>2
  <2>3. CASE i \in DOMAIN ready <=> j \notin DOMAIN ready
    BY <2>3, <1>2, <1>5, <1>7 DEF QueuedOnce
  <2> QED
    BY <2>1, <2>2, <2>3
<1>8. RunsOnce'
  BY <1>3 DEF RunsOnce
<1> QED
  BY <1>1, <1>4, <1>6, <1>7, <1>8 DEF QueuedOnce

\* A thread takes the first of the queue.
LEMMA TakeOnce ==
    ASSUME IInv, NEW h \in Thread, Take(h)
    PROVE  IInv'
<1> USE DEF IInv, Running
<1> DEFINE t == Head(ready)
<1>1. /\ ready \in Seq(Task) /\ ready # <<>> /\ t \in Task /\ t = ready[1]
      /\ ready' = Tail(ready) /\ ready' \in Seq(Task)
      /\ Len(ready) \in Nat /\ DOMAIN ready = 1..Len(ready)
      /\ Len(ready') = Len(ready) - 1 /\ DOMAIN ready' = 1..Len(ready')
      /\ \A i \in DOMAIN ready' : ready'[i] = ready[i + 1] /\ i + 1 \in DOMAIN ready
      /\ 1 \in DOMAIN ready
  BY HeadTailProperties, LenProperties DEF Take, Typed
<1>2. /\ on' = [on EXCEPT ![h] = t] /\ state' = [state EXCEPT ![t] = "running"]
      /\ state[t] = "ready"
  BY <1>1 DEF Take, QueuedOnce
<1>3. /\ on[h] = Idle /\ Idle \notin Task /\ ~ stopped
      /\ UNCHANGED <<pc, scenario, object, holder, stopped, signalled>>
  BY Names, Labels DEF Take, config, outside
<1> HIDE DEF t
<1>4. Typed'
  BY <1>1, <1>2, <1>3 DEF Typed
<1>5. QueuedOnce'
  <2>1. ASSUME NEW i \in DOMAIN ready'
        PROVE  state'[ready'[i]] = "ready"
    <3>1. ready'[i] # t /\ ready'[i] \in Task /\ state[ready'[i]] = "ready"
      BY <1>1, ElementOfSeq DEF QueuedOnce
    <3> QED
      BY <3>1, <1>2 DEF Typed
  <2>2. ASSUME NEW i \in DOMAIN ready', NEW j \in DOMAIN ready', ready'[i] = ready'[j]
        PROVE  i = j
    <3>1. i + 1 = j + 1
      BY <2>2, <1>1 DEF QueuedOnce
    <3> QED
      BY <3>1, <1>1
  <2> QED
    BY <2>1, <2>2 DEF QueuedOnce
<1>6. RunsOnce'
  BY <1>1, <1>2, <1>3 DEF RunsOnce, Typed
<1>7. Begun'
  BY <1>1, <1>2, <1>3, Names DEF Begun, Typed
<1>8. Signals' /\ StaysUp'
  BY <1>1, <1>2, <1>3, Names DEF Signals, StaysUp, Typed
<1>9. Loading'
  BY <1>3 DEF Loading, conf
<1> QED
  BY <1>4, <1>5, <1>6, <1>7, <1>8, <1>9

\* A task gives its thread back; the context is stopped by a signal only.
LEMMA GivesBack ==
    ASSUME IInv, NEW h \in Thread, NEW t \in Task, on[h] = t,
           NEW s \in {"waiting", "gone"},
           on' = [on EXCEPT ![h] = Idle], state' = [state EXCEPT ![t] = s],
           UNCHANGED <<config, pc, ready, signalled>>,
           (stopped' = stopped) \/ signalled
    PROVE  IInv'
<1> USE DEF IInv, Running
<1>1. Idle \notin Task /\ Idle \in Label /\ state[t] = "running" /\ state'[t] = s
  BY Names, Labels DEF RunsOnce, Typed
<1>2. UNCHANGED <<scenario, object, holder>>
  BY DEF config
<1>3. pc \notin BeforeTcp
  BY <1>1, Labels DEF Begun, Typed
<1>4. Typed'
  BY <1>1, <1>2 DEF Typed
<1>5. QueuedOnce'
  <2>1. \A i \in DOMAIN ready : ready[i] \in Task /\ ready[i] # t
    BY <1>1, ElementOfSeq, LenProperties DEF QueuedOnce, Typed
  <2> QED
    BY <2>1 DEF QueuedOnce, Typed
<1>6. RunsOnce'
  BY <1>1 DEF RunsOnce, Typed
<1>7. Begun'
  BY <1>1, <1>3, Names DEF Begun, Typed
<1>8. Signals' /\ StaysUp'
  BY <1>1, Names DEF Signals, StaysUp, Typed
<1>9. Loading'
  BY <1>2 DEF Loading, conf
<1> QED
  BY <1>4, <1>5, <1>6, <1>7, <1>8, <1>9

LEMMA FailsInv ==
    ASSUME IInv, NEW h \in Thread, NEW t \in Task, on[h] = t, Fails(h, t)
    PROVE  IInv'
<1>1. /\ on' = [on EXCEPT ![h] = Idle] /\ state' = [state EXCEPT ![t] = "gone"]
      /\ UNCHANGED <<config, pc, ready, signalled, stopped>>
  BY DEF Fails, Ends, outside
<1> QED
  BY <1>1, GivesBack, ZenonT(60)

LEMMA SuspendsInv ==
    ASSUME IInv, NEW h \in Thread, NEW t \in Task, on[h] = t, NEW point, Suspends(h, t, point)
    PROVE  IInv'
<1>1. /\ on' = [on EXCEPT ![h] = Idle] /\ state' = [state EXCEPT ![t] = "waiting"]
      /\ UNCHANGED <<config, pc, ready, signalled, stopped>>
  BY DEF Suspends, Awaits, outside
<1> QED
  BY <1>1, GivesBack, ZenonT(60)

\* A server spawns the coroutine of a connection.
LEMMA AcceptInv ==
    ASSUME IInv, NEW h \in Thread, NEW t \in {Tcp, Notifier},
           NEW served \in {Connection, Subscriber}, Accept(h, t, served)
    PROVE  IInv'
<1> USE DEF IInv, Running
<1>1. PICK c \in Free(served) :
         /\ on' = [on EXCEPT ![h] = Idle] /\ ready' = Append(ready, c)
         /\ state' = [state EXCEPT ![c] = "ready", ![t] = IF stopped THEN "gone" ELSE "waiting"]
  BY ZenonT(60) DEF Accept
<1>2. on[h] = t /\ UNCHANGED <<scenario, object, holder, pc, stopped, signalled>>
  BY DEF Accept, config, outside
<1>3. /\ c \in Connection \cup Subscriber /\ c \in Task /\ state[c] \in {"none", "gone"}
      /\ t \in Task /\ c # t /\ c \notin Peer \cup {Notifier, Signal, Tcp} /\ t # Signal
      /\ Idle \notin Task /\ Idle \in Label
  BY Names, Labels DEF Free
<1>4. state[t] = "running" /\ pc \notin BeforeTcp
  BY <1>2, <1>3, Labels, Names DEF RunsOnce, Begun
<1>5. /\ state'[c] = "ready" /\ state'[t] \in {"gone", "waiting"}
      /\ \A u \in Task \ {c, t} : state'[u] = state[u]
      /\ state' \in [Task -> {"none", "ready", "running", "waiting", "gone"}]
  BY <1>1, <1>3 DEF Typed
<1>6. /\ ready \in Seq(Task) /\ ready' \in Seq(Task)
      /\ Len(ready) \in Nat /\ DOMAIN ready = 1..Len(ready)
      /\ DOMAIN ready' = 1..(Len(ready) + 1)
      /\ \A i \in 1..Len(ready) : ready'[i] = ready[i] /\ ready[i] \in Task \ {c, t}
      /\ ready'[Len(ready) + 1] = c
  <2>1. /\ ready' \in Seq(Task) /\ Len(ready') = Len(ready) + 1
        /\ \A i \in 1..Len(ready) : ready'[i] = ready[i]
        /\ ready'[Len(ready) + 1] = c
    BY <1>1, <1>3, AppendProperties DEF Typed
  <2>2. Len(ready) \in Nat /\ DOMAIN ready = 1..Len(ready) /\ DOMAIN ready' = 1..Len(ready')
    BY <2>1, LenProperties DEF Typed
  <2>3. \A i \in 1..Len(ready) : ready[i] \in Task /\ state[ready[i]] = "ready"
    BY <2>2, ElementOfSeq DEF Typed, QueuedOnce
  <2> QED
    BY <2>1, <2>2, <2>3, <1>3, <1>4 DEF Typed
<1>7. Typed'
  BY <1>1, <1>2, <1>3, <1>5, <1>6 DEF Typed
<1>8. QueuedOnce'
  <2>1. \A i \in DOMAIN ready' : state'[ready'[i]] = "ready"
    BY <1>5, <1>6 DEF QueuedOnce
  <2>2. \A i, j \in DOMAIN ready' : ready'[i] = ready'[j] => i = j
    BY <1>6 DEF QueuedOnce
  <2> QED
    BY <2>1, <2>2 DEF QueuedOnce
<1>9. RunsOnce'
  <2>1. \A k \in Thread : on'[k] = IF k = h THEN Idle ELSE on[k]
    BY <1>1 DEF Typed
  <2>2. \A k \in Thread : on[k] \in Task => on[k] # c
    BY <1>3 DEF RunsOnce
  <2> QED
    BY <2>1, <2>2, <1>2, <1>3, <1>5 DEF RunsOnce
<1>10. Begun'
  BY <1>2, <1>3, <1>4, <1>5, Names DEF Begun
<1>11. Signals' /\ StaysUp'
  BY <1>2, <1>3, <1>4, <1>5, Names DEF Signals, StaysUp
<1>12. Loading'
  BY <1>2 DEF Loading, conf
<1> QED
  BY <1>7, <1>8, <1>9, <1>10, <1>11, <1>12

\* Nothing of what the invariant says changes.
LEMMA Unconcerned ==
    ASSUME IInv, UNCHANGED <<config, pc, stopped, ready, state, on, signalled>>
    PROVE  IInv'
<1>1. UNCHANGED <<scenario, object, holder>>
  BY DEF config
<1> QED
  BY <1>1 DEF IInv, Running, Typed, QueuedOnce, RunsOnce, Begun, Signals, Loading, conf, StaysUp

\* Any step of a thread in ioc.run().
LEMMA StepInv ==
    ASSUME IInv, NEW h \in Thread, Step(h)
    PROVE  IInv'
<1>1. CASE Take(h)
  BY <1>1, TakeOnce
<1>2. CASE RunReturns(h)
  <2> USE DEF IInv, Running
  <2>1. /\ on[h] = Idle /\ stopped' = TRUE /\ (stopped \/ Work = {})
        /\ on' = [on EXCEPT ![h] = IF h > 0 THEN Returned ELSE Leaving]
        /\ UNCHANGED <<scenario, object, holder, pc, ready, state, signalled>>
    BY <1>2 DEF RunReturns, config, tasks, outside
  <2>2. {Returned, Leaving} \subseteq Label /\ Label \cap Task = {}
    BY Names, Labels
  <2>3. pc \notin BeforeTcp /\ state[Tcp] # "none"
    BY <2>1, Labels DEF Begun
  <2>4. Typed' /\ QueuedOnce' /\ RunsOnce'
    BY <2>1, <2>2 DEF Typed, QueuedOnce, RunsOnce
  <2>5. Begun' /\ Signals'
    BY <2>1, <2>3 DEF Begun, Signals
  <2>6. StaysUp'
    BY <2>1, <2>3, Names DEF StaysUp, Work, Typed
  <2>7. Loading'
    BY <2>1 DEF Loading, conf
  <2> QED
    BY <2>4, <2>5, <2>6, <2>7
<1>3. CASE HandleSignal(h)
  <2> USE DEF IInv, Running
  <2>1. /\ on[h] = Signal /\ Signal \in Task /\ stopped' = TRUE
        /\ on' = [on EXCEPT ![h] = Idle] /\ state' = [state EXCEPT ![Signal] = "gone"]
        /\ UNCHANGED <<config, pc, ready, signalled>>
    BY <1>3, Names DEF HandleSignal, Ends, outside
  <2>2. signalled
    BY <2>1 DEF RunsOnce, Signals
  <2> QED
    BY <2>1, <2>2, GivesBack, ZenonT(60)
<1>4. ASSUME NEW t \in {Tcp, Notifier}, NEW error, Bind(h, t, error)
      PROVE  IInv'
  <2>1. t \in Task /\ on[h] = t
    BY <1>4, Names DEF Bind
  <2>2. Fails(h, t) \/ Suspends(h, t, "accept")
    BY <1>4 DEF Bind
  <2> QED
    BY <2>1, <2>2, FailsInv, SuspendsInv
<1>5. ASSUME NEW t \in {Tcp, Notifier}, AcceptFails(h, t)
      PROVE  IInv'
  <2>1. t \in Task /\ on[h] = t /\ Fails(h, t)
    BY <1>5, Names DEF AcceptFails
  <2> QED
    BY <2>1, FailsInv
<1>6. ASSUME NEW c \in Connection, ServeRead(h, c) \/ ServeRequest(h, c) \/ ServeEnds(h, c)
      PROVE  IInv'
  <2>1. c \in Task /\ on[h] = c
    BY <1>6, Names DEF ServeRead, ServeRequest, ServeEnds
  <2>2. CASE ServeRead(h, c)
    BY <2>1, <2>2, SuspendsInv DEF ServeRead
  <2>3. CASE ServeRequest(h, c)
    <3>1. /\ on' = [on EXCEPT ![h] = Idle] /\ state' = [state EXCEPT ![c] = "waiting"]
          /\ UNCHANGED <<config, pc, ready, signalled, stopped>>
      BY <2>3 DEF ServeRequest, Awaits, outside
    <3> QED
      BY <3>1, <2>1, GivesBack, ZenonT(60)
  <2>4. CASE ServeEnds(h, c)
    BY <2>1, <2>4, FailsInv DEF ServeEnds
  <2> QED
    BY <1>6, <2>2, <2>3, <2>4
<1>7. ASSUME NEW s \in Subscriber, Subscribe(h, s) \/ Notify(h, s) \/ Ping(h, s) \/ Pinged(h, s)
      PROVE  IInv'
  <2>1. s \in Task /\ on[h] = s
    BY <1>7, Names DEF Subscribe, Notify, Ping, Pinged
  <2>2. CASE Subscribe(h, s) \/ Pinged(h, s)
    <3>1. UNCHANGED <<config, pc, stopped, ready, state, on, signalled>>
      BY <2>2 DEF Subscribe, Pinged, outside
    <3> QED
      BY <3>1, Unconcerned
  <2>3. CASE Notify(h, s)
    <3>1. /\ on' = [on EXCEPT ![h] = Idle] /\ state' = [state EXCEPT ![s] = "waiting"]
          /\ UNCHANGED <<config, pc, ready, signalled, stopped>>
      BY <2>3 DEF Notify, Awaits, outside
    <3> QED
      BY <3>1, <2>1, GivesBack, ZenonT(60)
  <2>4. CASE Ping(h, s)
    <3>1. Suspends(h, s, "ping")
      BY <2>4 DEF Ping
    <3> QED
      BY <3>1, <2>1, SuspendsInv
  <2> QED
    BY <1>7, <2>2, <2>3, <2>4
<1>8. ASSUME NEW p \in Peer, Resolve(h, p) \/ Listen(h, p)
      PROVE  IInv'
  <2>1. p \in Task /\ on[h] = p /\ (Fails(h, p) \/ Suspends(h, p, "read"))
    BY <1>8, Names DEF Resolve, Listen
  <2> QED
    BY <2>1, FailsInv, SuspendsInv
<1>9. CASE Accept(h, Tcp, Connection) \/ Accept(h, Notifier, Subscriber)
  BY <1>9, AcceptInv
<1> QED
  BY <1>1, <1>2, <1>3, <1>4, <1>5, <1>6, <1>7, <1>8, <1>9, ZenonT(60) DEF Step
-----------------------------------------------------------------------------
(* main. *)

LEMMA InitInv ==
    ASSUME Init
    PROVE  IInv
<1>1. /\ on \in [Thread -> Task \cup Label] /\ \A h \in Thread : on[h] \in {Absent, Starting}
      /\ Http \in Thread /\ on[Http] = Absent
      /\ {Absent, Starting} \cap Task = {}
  BY Names, Labels DEF Init
<1>2. /\ ready = <<>> /\ ready \in Seq(Task) /\ \A t \in Task : state[t] = "none"
      /\ state \in [Task -> {"none", "ready", "running", "waiting", "gone"}]
      /\ {Tcp, Notifier, Signal} \cup Peer \subseteq Task
  BY Names DEF Init
<1>3. Typed
  BY <1>1, <1>2 DEF Init, Typed
<1>4. QueuedOnce /\ RunsOnce
  BY <1>1, <1>2 DEF QueuedOnce, RunsOnce
<1>5. Begun /\ Signals /\ StaysUp
  BY <1>1, <1>2 DEF Init, Begun, Signals, StaysUp, BeforeTcp
<1>6. Loading
  BY DEF Init, Loading
<1> QED
  BY <1>3, <1>4, <1>5, <1>6 DEF IInv, Running

\* An object that was constructed is not a freed one.
LEMMA NotFreed ==
    ASSUME NEW env, NEW options
    PROVE  WithOptions(NewConfiguration(env), options) # Freed
<1>1. DOMAIN WithOptions(NewConfiguration(env), options) = {"set", "peers"}
  BY DEF WithOptions, NewConfiguration
<1>2. DOMAIN Freed = {"freed"}
  BY DEF Freed
<1> QED
  BY <1>1, <1>2

LEMMA LoadConfigInv ==
    ASSUME IInv, LoadConfig
    PROVE  IInv'
<1> USE DEF IInv, Running
<1>1. /\ UNCHANGED <<scenario, stopped, ready, state, on, signalled>>
      /\ pc \in {"options", "file", "peers"} /\ pc' \in {"file", "peers", "database", "exit"}
  BY DEF LoadConfig, ParseOptions, LoadFile, AppendPeers, Goto, tasks, outside
<1>2. Running'
  BY <1>1 DEF Typed, QueuedOnce, RunsOnce, Begun, Signals, BeforeTcp, BeforePeering
<1>3. StaysUp'
  BY <1>1 DEF StaysUp
<1>4. CASE ParseOptions
  <2>1. pc = "options" /\ holder = 1 /\ object = <<NewConfiguration(scenario.env)>> /\ holder' = 1
    BY <1>4 DEF ParseOptions, Loading
  <2>2. CASE pc' = "exit"
    BY <2>2, <1>2, <1>3 DEF Loading
  <2>3. CASE pc' # "exit"
    <3>1. /\ object' = <<WithOptions(NewConfiguration(scenario.env), scenario.options)>>
          /\ pc' = IF scenario.options.file THEN "file" ELSE "peers"
      BY <1>4, <2>1, <2>3 DEF ParseOptions, Goto
    <3> QED
      BY <3>1, <2>1, <1>1, <1>2, <1>3 DEF Loading
  <2> QED
    BY <2>2, <2>3
<1>5. CASE LoadFile
  <2>1. scenario.options.file
    BY <1>5 DEF LoadFile, Loading
  <2> QED
    BY <1>5, <2>1, <1>1, <1>2, <1>3 DEF LoadFile, Goto, Loading
<1>6. CASE AppendPeers
  <2>1. /\ pc = "peers" /\ holder' = holder /\ pc' \in {"database", "exit"}
    BY <1>6 DEF AppendPeers, Goto
  <2>2. CASE scenario.options.file
    <3>1. holder = 2 /\ object = <<Freed, FromFile(scenario.env, scenario.file)>> /\ object[1] = Freed
      BY <2>1, <2>2 DEF Loading
    <3>2. object' = object
      BY <3>1, <1>6 DEF AppendPeers
    <3> QED
      BY <3>1, <3>2, <2>1, <2>2, <1>1, <1>2, <1>3 DEF Loading, conf, Loaded
  <2>3. CASE ~ scenario.options.file
    <3> DEFINE w == WithOptions(NewConfiguration(scenario.env), scenario.options)
    <3>1. holder = 1 /\ object = <<w>> /\ object[1] = w /\ w # Freed
      BY <2>1, <2>3, NotFreed DEF Loading
    <3> HIDE DEF w
    <3>2. object' = [object EXCEPT ![1] = WithPeers(@, scenario.options)]
      BY <3>1, <1>6 DEF AppendPeers
    <3>3. object'[1] = WithPeers(w, scenario.options)
      BY <3>1, <3>2
    <3> QED
      BY <3>1, <3>3, <2>1, <2>3, <1>1, <1>2, <1>3 DEF Loading, conf, Loaded, w
  <2> QED
    BY <2>2, <2>3
<1> QED
  BY <1>4, <1>5, <1>6 DEF LoadConfig

\* main moves on without touching the tasks.
LEMMA MovesOn ==
    ASSUME IInv, NEW step \in DOMAIN After, step # "tcp", step # "signals", Start(step),
           UNCHANGED <<config, ready, state, stopped, signalled>>
    PROVE  /\ Loading' /\ Signals' /\ StaysUp' /\ QueuedOnce'
           /\ on' \in [Thread -> Task \cup Label] => Typed'
           /\ UNCHANGED on => IInv'
           /\ pc \notin BeforeTcp => Begun'
<1> USE DEF IInv, Running
<1>1. /\ pc = step /\ pc' = After[step] /\ UNCHANGED <<scenario, object, holder>>
      /\ pc \notin {"options", "file", "peers", "exit", "tcp", "signals"}
      /\ pc' \notin {"options", "file", "peers", "exit"}
  BY DEF Start, Goto, After, config
<1>2. /\ pc \in BeforeTcp <=> pc = "database" 
      /\ pc' \in BeforeTcp <=> pc = "database"
      /\ pc' \in BeforePeering \cup {"signals"} => pc \in BeforePeering
      /\ pc' \in BeforePeering => pc \in BeforePeering
  BY <1>1 DEF After, BeforeTcp, BeforePeering
<1>3. Loading'
  BY <1>1 DEF Loading, conf
<1>4. Signals' /\ StaysUp' /\ QueuedOnce'
  BY DEF Signals, StaysUp, QueuedOnce
<1>5. ASSUME on' \in [Thread -> Task \cup Label]
      PROVE  Typed'
  BY <1>1, <1>5 DEF Typed
<1>6. ASSUME pc \notin BeforeTcp
      PROVE  Begun'
  BY <1>1, <1>2, <1>6 DEF Begun
<1>7. ASSUME UNCHANGED on
      PROVE  Typed' /\ RunsOnce' /\ Begun'
  BY <1>1, <1>2, <1>7 DEF Typed, RunsOnce, Begun
<1> QED
  BY <1>3, <1>4, <1>5, <1>6, <1>7

\* The steps that start the tasks.
LEMMA StartTcpInv ==
    ASSUME IInv, StartTcp
    PROVE  IInv'
<1> USE DEF IInv, Running
<1>1. /\ pc = "tcp" /\ pc' = "http" /\ Queue(<<Tcp>>)
      /\ UNCHANGED <<scenario, object, holder, stopped, on, signalled>>
  BY ZenonT(60) DEF StartTcp, Start, Goto, After, config, outside
<1>2. /\ \A t \in Task : state[t] = "none"
      /\ ~ stopped /\ on \in [Thread -> Task \cup Label]
  BY <1>1 DEF Begun, BeforeTcp, Typed
<1>3. /\ ready' \in Seq(Task) /\ QueuedOnce' /\ RunsOnce'
      /\ state' \in [Task -> {"none", "ready", "running", "waiting", "gone"}]
  <2>1. <<Tcp>> \in Seq(Task) /\ DOMAIN <<Tcp>> = {1} /\ <<Tcp>>[1] = Tcp
    BY Names
  <2> QED
    BY <2>1, <1>1, <1>2, Names, QueueOnce, ZenonT(60)
<1>4. \A t \in Task : state'[t] = IF t = Tcp THEN "ready" ELSE "none"
  BY <1>1, <1>2 DEF Queue
<1>5. Typed' /\ StaysUp'
  BY <1>1, <1>2, <1>3 DEF Typed, StaysUp
<1>6. Begun' /\ Signals'
  BY <1>1, <1>4, Names, ZenonT(60) DEF Begun, Signals, BeforeTcp, BeforePeering
<1>7. Loading'
  BY <1>1 DEF Loading, conf
<1> QED
  BY <1>3, <1>5, <1>6, <1>7

LEMMA StartPeeringInv ==
    ASSUME IInv, StartPeering
    PROVE  IInv'
<1> USE DEF IInv, Running
<1> DEFINE peers == [i \in DOMAIN conf.peers |-> <<"peer", i>>]
<1>1. /\ pc = "notifier" /\ pc' = "signals"
      /\ UNCHANGED <<config, stopped, on, signalled>>
  BY ZenonT(60) DEF StartPeering, Start, Goto, After, outside
<1>2. UNCHANGED <<scenario, object, holder>>
  BY <1>1 DEF config
<1>3. CASE UNCHANGED <<ready, state>>
  <2>1. Start("notifier") /\ "notifier" \in DOMAIN After
    BY StepsOfMain, ZenonT(60) DEF StartPeering
  <2> QED
    BY <1>1, <1>3, <2>1, MovesOn
<1>4. CASE Queue(<<Notifier>> \o peers)
  <2> DEFINE ts == <<Notifier>> \o peers
  <2>1. PICK n \in 0..MaxPeers : DOMAIN conf.peers = 1..n
    <3>1. conf = Loaded(scenario) /\ scenario \in Scenarios
      BY <1>1 DEF Loading, Typed
    <3> QED
      BY <3>1, ServiceAssumption
  <2>2. n \in Nat /\ \A i \in 1..n : <<"peer", i>> \in Peer
    BY ServiceAssumption DEF Peer
  <2>3. peers \in Seq(Task) /\ Len(peers) = n /\ \A i \in 1..n : peers[i] = <<"peer", i>>
    <3>1. peers \in [1..n -> Task]
      BY <2>1, <2>2, Names
    <3>2. peers \in Seq(Task)
      BY <3>1, <2>2, SeqDef
    <3>3. Len(peers) \in Nat /\ DOMAIN peers = 1..Len(peers)
      BY <3>2, LenProperties
    <3>4. DOMAIN peers = 1..n
      BY <2>1
    <3>5. Len(peers) = n
      BY <3>3, <3>4, <2>2
    <3>6. \A i \in 1..n : peers[i] = <<"peer", i>>
      BY <2>1
    <3> QED
      BY <3>2, <3>5, <3>6
  <2> HIDE DEF peers
  <2>4. /\ ts \in Seq(Task) /\ Len(ts) = n + 1
        /\ \A i \in 1..(n + 1) : ts[i] = IF i <= 1 THEN Notifier ELSE <<"peer", i - 1>>
    <3>1. <<Notifier>> \in Seq(Task) /\ Len(<<Notifier>>) = 1 /\ <<Notifier>>[1] = Notifier
      BY Names
    <3>2. /\ ts \in Seq(Task) /\ Len(ts) = 1 + n
          /\ \A i \in 1..(1 + n) : ts[i] = IF i <= 1 THEN <<Notifier>>[i] ELSE peers[i - 1]
      BY <3>1, <2>3, ConcatProperties
    <3> HIDE DEF ts
    <3>3. ASSUME NEW i \in 1..(n + 1)
          PROVE  ts[i] = IF i <= 1 THEN Notifier ELSE <<"peer", i - 1>>
      <4>1. CASE i = 1
        BY <4>1, <3>1, <3>2, <2>2
      <4>2. CASE i > 1
        <5>1. i - 1 \in 1..n /\ ~ (i <= 1) /\ i \in 1..(1 + n)
          BY <4>2, <2>2
        <5>2. ts[i] = peers[i - 1]
          BY <5>1, <3>2
        <5>3. peers[i - 1] = <<"peer", i - 1>>
          BY <5>1, <2>3
        <5> QED
          BY <5>1, <5>2, <5>3
      <4> QED
        BY <4>1, <4>2, <2>2
    <3> QED
      BY <3>2, <3>3, <2>2
  <2>5. Queue(ts)
    BY <1>4
  <2> HIDE DEF ts
  <2>6. /\ DOMAIN ts = 1..(n + 1)
        /\ \A i \in DOMAIN ts : ts[i] \in Peer \cup {Notifier}
        /\ \A i, j \in DOMAIN ts : ts[i] = ts[j] => i = j
    <3>1. DOMAIN ts = 1..(n + 1)
      BY <2>4, LenProperties
    <3>2. \A i \in 1..(n + 1) : i <= 1 \/ i - 1 \in 1..n
      BY <2>2
    <3>3. \A i \in DOMAIN ts : ts[i] \in Peer \cup {Notifier}
      BY <3>1, <3>2, <2>4, <2>2
    <3>4. ASSUME NEW i \in 1..(n + 1), NEW j \in 1..(n + 1), ts[i] = ts[j]
          PROVE  i = j
      <4>1. CASE i <= 1 /\ j <= 1
        BY <4>1, <2>2
      <4>2. CASE i <= 1 /\ j > 1
        BY <4>2, <3>2, <3>4, <2>4, <2>2, Names
      <4>3. CASE i > 1 /\ j <= 1
        BY <4>3, <3>2, <3>4, <2>4, <2>2, Names
      <4>4. CASE i > 1 /\ j > 1
        <5>1. ASSUME NEW k \in 1..(n + 1), k > 1
              PROVE  ts[k][2] = k - 1
          <6>1. ts[k] = <<"peer", k - 1>>
            BY <5>1, <2>4, <2>2
          <6> QED
            BY <6>1
        <5>2. i - 1 = j - 1
          BY <4>4, <3>4, <5>1
        <5> QED
          BY <5>2, <2>2
      <4> QED
        BY <4>1, <4>2, <4>3, <4>4, <2>2
    <3> QED
      BY <3>1, <3>3, <3>4
  <2>7. \A t \in Peer \cup {Notifier} : state[t] = "none"
    BY <1>1 DEF Begun, BeforePeering
  <2>8. /\ ready' \in Seq(Task) /\ QueuedOnce' /\ RunsOnce'
        /\ state' \in [Task -> {"none", "ready", "running", "waiting", "gone"}]
    BY <2>4, <2>5, <2>6, <2>7, <1>1, QueueOnce, ZenonT(60)
  <2>9. state'[Tcp] = state[Tcp] /\ state'[Signal] = state[Signal]
    BY <2>5, <2>6, Names DEF Queue
  <2>10. Typed'
    BY <2>8, <1>1, <1>2 DEF Typed
  <2>11. Begun'
    BY <2>9, <1>1 DEF Begun, BeforeTcp, BeforePeering
  <2>12. Signals' /\ StaysUp'
    BY <2>9, <1>1 DEF Signals, StaysUp
  <2>13. Loading'
    BY <1>1, <1>2 DEF Loading, conf
  <2> QED
    BY <2>8, <2>10, <2>11, <2>12, <2>13
<1> QED
  BY <1>3, <1>4 DEF StartPeering

LEMMA AwaitSignalInv ==
    ASSUME IInv, AwaitSignal
    PROVE  IInv'
<1> USE DEF IInv, Running
<1>1. /\ pc = "signals" /\ pc' = "run" /\ state' = [state EXCEPT ![Signal] = "waiting"]
      /\ UNCHANGED <<scenario, object, holder, stopped, ready, on, signalled>>
      /\ state[Signal] = "none"
  BY ZenonT(60) DEF AwaitSignal, Start, Goto, After, config, outside, Begun
<1>2. /\ \A i \in DOMAIN ready : ready[i] \in Task /\ ready[i] # Signal
      /\ \A h \in Thread : on[h] \in Task => on[h] # Signal
  BY <1>1, ElementOfSeq, LenProperties DEF QueuedOnce, RunsOnce, Typed
<1>3. Typed'
  BY <1>1, ZenonT(60) DEF Typed
<1>4. QueuedOnce' /\ RunsOnce'
  BY <1>1, <1>2 DEF QueuedOnce, RunsOnce, Typed
<1>5. Begun' /\ Signals' /\ StaysUp'
  BY <1>1, Names, ZenonT(60) DEF Begun, Signals, StaysUp, BeforeTcp, BeforePeering, Typed
<1>6. Loading'
  BY <1>1 DEF Loading, conf
<1> QED
  BY <1>3, <1>4, <1>5, <1>6

LEMMA MainStepInv ==
    ASSUME IInv, MainStep
    PROVE  IInv'
<1> USE DEF IInv, Running
<1>1. CASE OpenDatabase
  <2>1. UNCHANGED <<config, stopped, ready, state, on, signalled>>
    BY <1>1 DEF OpenDatabase, tasks, outside
  <2>2. CASE Start("database")
    <3>1. "database" \in DOMAIN After
      BY StepsOfMain, ZenonT(60)
    <3> QED
      BY <2>1, <2>2, <3>1, MovesOn
  <2>3. CASE pc = "database" /\ pc' = "exit"
    <3>1. UNCHANGED <<scenario, object, holder>>
      BY <2>1 DEF config
    <3> QED
      BY <2>1, <2>3, <3>1, ZenonT(60) DEF Typed, QueuedOnce, RunsOnce, Begun, Signals, Loading, StaysUp,
                              BeforeTcp, BeforePeering
  <2> QED
    BY <1>1, <2>2, <2>3 DEF OpenDatabase, Goto
<1>2. CASE StartCleaner \/ StartBackup \/ StopThreads
  <2>1. PICK step \in {"cleaner", "backup", "stop"} :
           Start(step) /\ UNCHANGED <<config, stopped, ready, state, on, signalled>>
    BY <1>2 DEF StartCleaner, StartBackup, StopThreads, tasks, outside
  <2>2. step \in DOMAIN After /\ step # "tcp" /\ step # "signals"
    BY StepsOfMain, ZenonT(60)
  <2> QED
    BY <2>1, <2>2, MovesOn
<1>3. CASE StartHttp
  <2>1. /\ Start("http") /\ pc = "http"
        /\ UNCHANGED <<config, stopped, ready, state, signalled>>
        /\ UNCHANGED on \/ on' = [on EXCEPT ![Http] = Starting]
    BY <1>3 DEF StartHttp, Start, tasks, outside
  <2>2. "http" \in DOMAIN After /\ pc \notin BeforeTcp
    BY <2>1, StepsOfMain, ZenonT(60) DEF BeforeTcp
  <2>3. on' \in [Thread -> Task \cup Label] /\ RunsOnce'
    BY <2>1, Names, Labels DEF Typed, RunsOnce
  <2> QED
    BY <2>1, <2>2, <2>3, MovesOn
<1>4. CASE RunContext
  <2>1. /\ Start("run") /\ pc = "run"
        /\ UNCHANGED <<config, stopped, ready, state, signalled>>
        /\ on' = [h \in Thread |-> IF h \in 0..conf.set["threads"] THEN Idle ELSE on[h]]
    BY <1>4 DEF RunContext, Start, tasks, outside
  <2>2. "run" \in DOMAIN After /\ pc \notin BeforeTcp
    BY <2>1, StepsOfMain, ZenonT(60) DEF BeforeTcp
  <2>3. \A h \in Thread : on'[h] = Idle \/ on'[h] = on[h]
    BY <2>1
  <2>4. on' \in [Thread -> Task \cup Label]
    BY <2>1, <2>3, Labels DEF Typed
  <2>5. RunsOnce'
    BY <2>1, <2>3, Names, Labels, ZenonT(60) DEF RunsOnce
  <2> QED
    BY <2>1, <2>2, <2>4, <2>5, MovesOn
<1>5. CASE Join
  <2>1. /\ Start("join") /\ pc = "join"
        /\ UNCHANGED <<config, stopped, ready, state, signalled>>
        /\ on' = [on EXCEPT ![Main] = Returned]
    BY <1>5 DEF Join, Start, tasks, outside
  <2>2. "join" \in DOMAIN After /\ pc \notin BeforeTcp
    BY <2>1, StepsOfMain, ZenonT(60) DEF BeforeTcp
  <2>3. on' \in [Thread -> Task \cup Label] /\ RunsOnce'
    BY <2>1, Names, Labels DEF Typed, RunsOnce
  <2> QED
    BY <2>1, <2>2, <2>3, MovesOn
<1> QED
  BY <1>1, <1>2, <1>3, <1>4, <1>5, LoadConfigInv, StartTcpInv, StartPeeringInv, AwaitSignalInv, ZenonT(60)
     DEF MainStep
-----------------------------------------------------------------------------
(* The HTTP thread, completions and signals, and the other threads. *)

LEMMA HttpListenInv ==
    ASSUME IInv, HttpListen
    PROVE  IInv'
<1> USE DEF IInv, Running
<1>0. PICK l \in {Returned, Idle} : on' = [on EXCEPT ![Http] = l]
  BY DEF HttpListen
<1>1. /\ on[Http] = Starting /\ Http \in Thread
      /\ UNCHANGED <<scenario, object, holder, pc, stopped, ready, state, signalled>>
  BY Names DEF HttpListen, config, tasks
<1>2. {Returned, Idle} \subseteq Label /\ Label \cap Task = {} /\ Starting # Absent
  BY Names, Labels DEF Starting, Absent
<1>3. pc \notin BeforeTcp
  BY <1>1, <1>2 DEF Begun
<1>4. Typed' /\ QueuedOnce' /\ RunsOnce'
  BY <1>0, <1>1, <1>2, ZenonT(60) DEF Typed, QueuedOnce, RunsOnce
<1>5. Begun' /\ Signals' /\ StaysUp'
  BY <1>1, <1>3, ZenonT(60) DEF Begun, Signals, StaysUp
<1>6. Loading'
  BY <1>1 DEF Loading, conf
<1> QED
  BY <1>4, <1>5, <1>6

LEMMA HttpStopInv ==
    ASSUME IInv, HttpStop
    PROVE  IInv'
<1> USE DEF IInv, Running
<1>1. /\ on[Http] = Leaving /\ on' = [on EXCEPT ![Http] = Returned]
      /\ UNCHANGED <<scenario, object, holder, pc, stopped, ready, state, signalled>>
  BY DEF HttpStop, config, tasks
<1>2. Returned \in Label /\ Label \cap Task = {} /\ Leaving \notin {Absent, Starting}
  BY Names, Labels DEF Starting, Absent, Leaving
<1>3. pc \notin BeforeTcp
  BY <1>1, <1>2 DEF Begun
<1>4. Typed' /\ QueuedOnce' /\ RunsOnce'
  BY <1>1, <1>2, ZenonT(60) DEF Typed, QueuedOnce, RunsOnce
<1>5. Begun' /\ Signals' /\ StaysUp'
  BY <1>1, <1>3 DEF Begun, Signals, StaysUp
<1>6. Loading'
  BY <1>1 DEF Loading, conf
<1> QED
  BY <1>4, <1>5, <1>6

\* A task that waits is queued; the one that waits for a signal only by one.
LEMMA CompletedInv ==
    ASSUME IInv, NEW t \in Task, state[t] = "waiting", Queue(<<t>>),
           t = Signal => signalled', signalled => signalled',
           UNCHANGED <<config, pc, stopped, on>>
    PROVE  IInv'
<1> USE DEF IInv, Running
<1>1. UNCHANGED <<scenario, object, holder>>
  BY DEF config
<1>2. <<t>> \in Seq(Task) /\ DOMAIN <<t>> = {1} /\ <<t>>[1] = t
  OBVIOUS
<1>3. /\ ready' \in Seq(Task) /\ QueuedOnce' /\ RunsOnce'
      /\ state' \in [Task -> {"none", "ready", "running", "waiting", "gone"}]
  BY <1>2, QueueOnce, ZenonT(60)
<1>4. \A u \in Task : state'[u] = IF u = t THEN "ready" ELSE state[u]
  BY <1>2 DEF Queue
<1>5. pc \notin BeforeTcp
  BY DEF Begun
<1>6. Typed'
  BY <1>1, <1>3 DEF Typed
<1>7. Begun'
  BY <1>4, <1>5, Names, ZenonT(60) DEF Begun
<1>8. Signals' /\ StaysUp'
  BY <1>4, Names, ZenonT(60) DEF Signals, StaysUp
<1>9. Loading'
  BY <1>1 DEF Loading, conf
<1> QED
  BY <1>3, <1>6, <1>7, <1>8, <1>9

LEMMA NextInv ==
    ASSUME IInv, [Next]_vars
    PROVE  IInv'
<1>1. ASSUME NEW t \in Task, Completed(t)
      PROVE  IInv'
  <2>1. /\ state[t] = "waiting" /\ t # Signal /\ Queue(<<t>>)
        /\ UNCHANGED <<config, pc, stopped, on, signalled>>
    BY <1>1 DEF Completed, outside
  <2> QED
    BY <2>1, CompletedInv
<1>2. CASE SignalReceived
  <2>1. /\ state[Signal] = "waiting" /\ Queue(<<Signal>>) /\ signalled' = TRUE
        /\ UNCHANGED <<config, pc, stopped, on>>
    BY <1>2 DEF SignalReceived
  <2> QED
    BY <2>1, CompletedInv, Names
<1>3. CASE HttpRequest \/ HttpAnswer \/ CleanerStep
  <2>1. UNCHANGED <<config, pc, stopped, ready, state, on, signalled>>
    BY <1>3 DEF HttpRequest, HttpAnswer, CleanerStep, Rest, tasks
  <2> QED
    BY <2>1, Unconcerned
<1>4. CASE BackupStep \/ Midnight
  <2>1. UNCHANGED <<config, pc, stopped, ready, state, on, signalled>>
    BY <1>4, ZenonT(60) DEF BackupStep, BackupTest, BackupCreate, BackupPurge, BackupDone, Midnight, Rest, tasks
  <2> QED
    BY <2>1, Unconcerned
<1>5. ASSUME NEW s \in Subscriber, TimePasses(s)
      PROVE  IInv'
  <2>1. UNCHANGED <<config, pc, stopped, ready, state, on, signalled>>
    BY <1>5 DEF TimePasses, outside
  <2> QED
    BY <2>1, Unconcerned
<1>6. CASE UNCHANGED vars
  <2>1. UNCHANGED <<config, pc, stopped, ready, state, on, signalled>>
    BY <1>6 DEF vars, config
  <2> QED
    BY <2>1, Unconcerned
<1> QED
  BY <1>1, <1>2, <1>3, <1>4, <1>5, <1>6, MainStepInv, StepInv, HttpListenInv, HttpStopInv
     DEF Next, HttpStep

\* IInv holds in every state.
LEMMA Invariance == Spec => []IInv
<1>1. Init => IInv
  BY InitInv
<1>2. IInv /\ [Next]_vars => IInv'
  BY NextInv
<1> QED
  BY <1>1, <1>2, PTL DEF Spec

\* Until a signal arrives, ioc.run() returns in no thread unless the acceptor
\* of the TCP server ended: the HTTP thread, which runs the context before main
\* does, never finds it out of work.
THEOREM RunsUntilSignalled == Spec => []StaysUp
<1>1. IInv => StaysUp
  BY DEF IInv
<1> QED
  BY <1>1, Invariance, PTL

\* Whatever the environment, the file and the options say: with --config-file
\* the configuration in effect is the file's over the environment's.
THEOREM FileReplacesOptions == Spec => []FileIgnoresOptions
<1>1. IInv => FileIgnoresOptions
  <2> SUFFICES ASSUME IInv, pc \notin {"options", "file", "exit"}, scenario.options.file
               PROVE  conf = FromFile(scenario.env, scenario.file)
    BY DEF FileIgnoresOptions
  <2>1. CASE pc = "peers"
    BY <2>1 DEF IInv, Loading, conf
  <2>2. CASE pc # "peers"
    BY <2>2 DEF IInv, Loading, Loaded
  <2> QED
    BY <2>1, <2>2
<1> QED
  BY <1>1, Invariance, PTL

\* A coroutine is resumed by one thread at a time, and is not in the queue of
\* the context twice or while a thread runs it.
THEOREM ResumedOnce == Spec => [](QueuedOnce /\ RunsOnce)
<1>1. IInv => QueuedOnce /\ RunsOnce
  BY DEF IInv, Running
<1> QED
  BY <1>1, Invariance, PTL
=============================================================================
