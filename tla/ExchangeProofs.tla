--------------------------- MODULE ExchangeProofs ---------------------------
(***************************************************************************)
(* The steps of the client, of the pool and of the process of the service, *)
(* and what is proved about a request and its answer.                      *)
(***************************************************************************)
EXTENDS ExchangeSteps

(* The client. *)

\* A thread changes its own state, that of at most one connection, which no
\* other thread uses, and the pool.
Moves(t, x, c) ==
    /\ IsClient(x) /\ client' = [client EXCEPT ![t] = x]
    /\ \A d \in Con : d # c => con'[d] = con[d]
    /\ \A u \in Thread : u # t /\ client[u].on # None => client[u].on # c
    /\ x.on \in {None, c}
    /\ c \in Con => Settles(con'[c])
    /\ x.on # None =>
          /\ Marks(x.got, Both) \cap MarksOn(con'[c], Both) = {}
          /\ con'[c].past # "short" =>
                Marks(x.got, Both) \cup MarksOn(con'[c], Both) \subseteq {x.call}
    /\ available' \in Seq(Con)
    /\ \A i, j \in DOMAIN available' : available'[i] = available'[j] => i = j
    /\ \A i \in DOMAIN available' :
          \/ available'[i] # c /\ \E j \in DOMAIN available : available'[i] = available[j]
          \/ /\ available'[i] = c /\ x.on = None
             /\ con'[c].past # "short" => MarksOn(con'[c], Both) = {}
    /\ x.on = None /\ x.call # 0 /\ x.from # 0 /\ x.past # "short" => x.from = x.call

LEMMA ClientStep ==
    ASSUME IInv, NEW t \in Thread, NEW x, NEW c, Moves(t, x, c)
    PROVE  /\ DOMAIN client' = Thread /\ \A u \in Thread : IsClient(client'[u])
           /\ Exclusive' /\ InStep' /\ Settled' /\ OwnAnswer'
<1> USE DEF IInv, Moves
<1>1. /\ DOMAIN client' = Thread /\ client'[t] = x
      /\ \A u \in Thread : u # t => client'[u] = client[u]
  BY ZenonT(60) DEF Typed
<1>2. \A u \in Thread : IsClient(client'[u])
  BY <1>1, SMTT(30) DEF Typed
<1>3. \A i \in DOMAIN available' : available'[i] \in Con
  BY ElementOfSeq, LenProperties, SMTT(30)
<1>4. None \notin Con
  BY ExchangeAssumption, ZenonT(60)
<1>5. Exclusive'
  <2>1. ASSUME NEW u \in Thread, NEW i \in DOMAIN available'
        PROVE  client'[u].on # available'[i]
    <3>1. CASE u = t
      BY <1>1, <1>3, <1>4, <3>1, SMTT(30)
    <3>2. CASE u # t
      <4>1. client'[u] = client[u]
        BY <1>1, <3>2, ZenonT(60)
      <4>2. CASE available'[i] = c
        BY <1>3, <1>4, <3>2, <4>1, <4>2, SMTT(30)
      <4>3. CASE \E j \in DOMAIN available : available'[i] = available[j]
        BY <4>1, <4>3, SMTT(30) DEF Exclusive
      <4> QED
        BY <4>2, <4>3, ZenonT(60)
    <3> QED
      BY <3>1, <3>2, ZenonT(60)
  <2>2. ASSUME NEW u \in Thread, NEW v \in Thread, client'[u].on # None, client'[u].on = client'[v].on
        PROVE  u = v
    <3>1. CASE u # t /\ v # t
      BY <1>1, <2>2, <3>1, ZenonT(60) DEF Exclusive
    <3>2. CASE u = t \/ v = t
      BY <1>1, <2>2, <3>2, ZenonT(60)
    <3> QED
      BY <3>1, <3>2, ZenonT(60)
  <2> QED
    BY <2>1, <2>2, ZenonT(60) DEF Exclusive
<1>6. InStep'
  <2>1. ASSUME NEW u \in Thread, client'[u].on # None
        PROVE  /\ Marks(client'[u].got, Both) \cap MarksOn(con'[client'[u].on], Both) = {}
               /\ con'[client'[u].on].past # "short" =>
                     Marks(client'[u].got, Both) \cup MarksOn(con'[client'[u].on], Both)
                        \subseteq {client'[u].call}
    <3>1. CASE u = t
      BY <1>1, <2>1, <3>1, ZenonT(60)
    <3>2. CASE u # t
      <4>1. client'[u] = client[u] /\ client[u].on # c /\ client[u].on \in Con
        BY <1>1, <2>1, <3>2, ZenonT(60) DEF Typed, IsClient
      <4>2. con'[client[u].on] = con[client[u].on]
        BY <4>1, ZenonT(60)
      <4> QED
        BY <2>1, <4>1, <4>2, ZenonT(60) DEF InStep
    <3> QED
      BY <3>1, <3>2, ZenonT(60)
  <2>2. ASSUME NEW i \in DOMAIN available', con'[available'[i]].past # "short"
        PROVE  MarksOn(con'[available'[i]], Both) = {}
    <3>1. CASE available'[i] # c /\ \E j \in DOMAIN available : available'[i] = available[j]
      <4>1. con'[available'[i]] = con[available'[i]]
        BY <1>3, <3>1, ZenonT(60)
      <4> QED
        BY <2>2, <3>1, <4>1, ZenonT(60) DEF InStep
    <3>2. CASE ~ (available'[i] # c /\ \E j \in DOMAIN available : available'[i] = available[j])
      BY <2>2, <3>2, ZenonT(60)
    <3> QED
      BY <3>1, <3>2, ZenonT(60)
  <2> QED
    BY <2>1, <2>2, ZenonT(60) DEF InStep
<1>7. Settled'
  BY ZenonT(60) DEF Settled
<1>8. OwnAnswer'
  BY <1>1, ZenonT(60) DEF OwnAnswer, Over
<1> QED
  BY <1>1, <1>2, <1>5, <1>6, <1>7, <1>8, ZenonT(60)

\* The head of the pool and the rest of it.
LEMMA PoolHead ==
    ASSUME IInv, available # <<>>
    PROVE  LET c == Head(available)
               r == Tail(available) IN
           /\ c \in Con /\ r \in Seq(Con) /\ Len(r) \in Nat /\ DOMAIN r = 1..Len(r)
           /\ \E i \in DOMAIN available : available[i] = c
           /\ \A u \in Thread : client[u].on # c
           /\ \A i, j \in DOMAIN r : r[i] = r[j] => i = j
           /\ \A i \in DOMAIN r : r[i] # c /\ \E j \in DOMAIN available : r[i] = available[j]
<1> DEFINE c == Head(available)
           r == Tail(available)
<1> USE DEF IInv
<1>1. available \in Seq(Con) /\ Len(available) \in Nat /\ DOMAIN available = 1..Len(available)
  BY LenProperties DEF Typed
<1>2. Len(available) # 0 /\ c = available[1]
  BY <1>1, EmptySeq
<1>3. r \in Seq(Con) /\ Len(r) = Len(available) - 1 /\ \A i \in 1..Len(r) : r[i] = available[i + 1]
  BY <1>1, HeadTailProperties
<1>4. Len(r) \in Nat /\ DOMAIN r = 1..Len(r) /\ 1 \in DOMAIN available
  BY <1>1, <1>2, <1>3, LenProperties
<1> HIDE DEF c, r
<1>5. c \in Con /\ \A u \in Thread : client[u].on # c
  BY <1>1, <1>2, <1>4, ElementOfSeq DEF Exclusive
<1>6. \A i \in DOMAIN r : i \in Nat /\ i > 0 /\ i + 1 \in DOMAIN available /\ r[i] = available[i + 1]
  BY <1>1, <1>3, <1>4
<1>7. \A i, j \in DOMAIN r : r[i] = r[j] => i = j
  <2> SUFFICES ASSUME NEW i \in DOMAIN r, NEW j \in DOMAIN r, r[i] = r[j] PROVE i = j
    OBVIOUS
  <2>1. i + 1 = j + 1
    BY <1>6 DEF Exclusive
  <2> QED
    BY <2>1, <1>6
<1>8. \A i \in DOMAIN r : r[i] # c /\ \E j \in DOMAIN available : r[i] = available[j]
  <2> SUFFICES ASSUME NEW i \in DOMAIN r
               PROVE  r[i] # c /\ \E j \in DOMAIN available : r[i] = available[j]
    OBVIOUS
  <2>1. i + 1 # 1
    BY <1>6
  <2> QED
    BY <2>1, <1>2, <1>4, <1>6 DEF Exclusive
<1> QED
  BY <1>2, <1>3, <1>4, <1>5, <1>7, <1>8, ZenonT(60) DEF c, r

\* A connection that is not in the pool joins it.
Joined(r, s, c) ==
    /\ r \in Seq(Con)
    /\ \A i, j \in DOMAIN r : r[i] = r[j] => i = j
    /\ \A i \in DOMAIN r : r[i] = c \/ (r[i] # c /\ \E j \in DOMAIN s : r[i] = s[j])

LEMMA PoolJoined ==
    ASSUME NEW s \in Seq(Con), \A i, j \in DOMAIN s : s[i] = s[j] => i = j,
           NEW c \in Con, \A i \in DOMAIN s : s[i] # c, NEW r, r = Append(s, c)
    PROVE  Joined(r, s, c)
<1>1. Len(s) \in Nat /\ DOMAIN s = 1..Len(s)
  BY LenProperties
<1>2. /\ r \in Seq(Con) /\ Len(r) = Len(s) + 1
      /\ \A i \in 1..Len(s) : r[i] = s[i]
      /\ r[Len(s) + 1] = c
  BY AppendProperties
<1>3. DOMAIN r = 1..(Len(s) + 1)
  BY <1>2, LenProperties, SMTT(30)
<1>4. \A i \in DOMAIN r : (i \in DOMAIN s /\ r[i] = s[i]) \/ (i = Len(s) + 1 /\ r[i] = c)
  BY <1>1, <1>2, <1>3
<1> QED
  BY <1>2, <1>4, SMTT(30) DEF Joined

LEMMA WritesInv ==
    ASSUME IInv, NEW t \in Thread, NEW call \in Call[t], Begins(t, call),
           NEW c \in Con, NEW state \in Connection, Writes(t, call, c, state),
           state.open, Settles(state), Distinct(state),
           MarksOn(state, Both) \subseteq MarksOn(con[c], Both),
           MarksOn(state, {"request"}) \subseteq MarksOn(con[c], {"request"}),
           state.past # "short" => MarksOn(state, Both) = {},
           \A u \in Thread : client[u].on # c,
           available' \in Seq(Con),
           \A i, j \in DOMAIN available' : available'[i] = available'[j] => i = j,
           \A i \in DOMAIN available' :
              available'[i] # c /\ \E j \in DOMAIN available : available'[i] = available[j]
    PROVE  IInv'
<1> DEFINE id == Len(made) + 1
           f == RequestFrame(id, call)
           l == [state EXCEPT !.toServer = state.toServer \o state.buffer \o f, !.buffer = <<>>]
           x == [Idle EXCEPT !.on = c, !.call = id]
<1>1. /\ con' = [con EXCEPT ![c] = l] /\ client' = [client EXCEPT ![t] = x]
      /\ made' = Append(made, call) /\ answered' = Append(answered, <<>>)
  BY DEF Writes, Begins
<1>2. Typed /\ Tokens /\ call \in UNION {Call[u] : u \in Thread}
  BY ZenonT(60) DEF IInv
<1>3. /\ made' \in Seq(UNION {Call[u] : u \in Thread})
      /\ IsSequence(answered') /\ Len(answered') = Len(made')
      /\ id \in Nat /\ id \notin MarksOn(con[c], Both)
  BY <1>1, <1>2, TokensBegun, ZenonT(60)
<1> HIDE DEF id
<1>4. f \in Seq(Cell) /\ Once(f) /\ Marks(f, Both) \subseteq {id}
  BY <1>2, <1>3, RequestCells, ZenonT(60)
<1> HIDE DEF f
<1>5. /\ l.toServer = state.toServer \o state.buffer \o f /\ l.buffer = <<>>
      /\ l.rbuf = state.rbuf /\ l.toClient = state.toClient
      /\ l.past = state.past /\ l.open
  BY ZenonT(60) DEF Connection
<1>6. /\ l.toServer \in Seq(Cell)
      /\ Distinct(l) /\ MarksOn(l, Both) \subseteq MarksOn(state, Both) \cup {id}
      /\ MarksOn(l, {"request"}) \subseteq MarksOn(state, {"request"}) \cup {id}
  <2>1. id \notin MarksOn(state, Both)
    BY <1>3, ZenonT(60)
  <2> HIDE DEF l
  <2> QED
    BY <1>4, <1>5, <2>1, WrittenMarks, ZenonT(60)
<1>7. l \in Connection
  <2> DEFINE w == state.toServer \o state.buffer \o f
  <2>1. w \in Seq(Cell) /\ <<>> \in Seq(Cell)
    BY <1>5, <1>6, EmptySeq
  <2>2. l = [state EXCEPT !.toServer = w, !.buffer = <<>>]
    OBVIOUS
  <2> HIDE DEF w, l
  <2> QED
    BY <2>1, <2>2, ZenonT(60) DEF Connection
<1>8. Settles(l)
  BY <1>5 DEF Settles
<1> HIDE DEF l
<1>9. con' \in [Con -> Connection] /\ con'[c] = l /\ \A d \in Con : d # c => con'[d] = con[d]
  BY <1>1, <1>2, <1>7 DEF Typed
<1>10. Tokens'
  <2>1. /\ MarksOn(l, Both) \subseteq MarksOn(con[c], Both) \cup {Len(made) + 1}
        /\ MarksOn(l, {"request"}) \subseteq MarksOn(con[c], {"request"}) \cup {Len(made) + 1}
    BY <1>6, ZenonT(60) DEF id
  <2> QED
    BY <2>1, <1>1, <1>2, <1>6, <1>7, TokensWritten, ZenonT(60)
<1>11. /\ x.on = c /\ x.call = id /\ x.got = <<>> /\ IsClient(x) /\ Marks(x.got, Both) = {}
  <2>1. x.on = c /\ x.call = id /\ x.got = <<>> /\ x.need = 0 /\ x.from = 0
    BY DEF Idle
  <2>2. DOMAIN x = {"need", "past", "on", "call", "got", "result", "from"}
    BY DEF Idle
  <2>3. Marks(<<>>, Both) = {} /\ <<>> \in Seq(Cell)
    BY NoMarks, EmptySeq, ZenonT(60)
  <2> HIDE DEF x
  <2> QED
    BY <2>1, <2>2, <2>3, <1>3, SMTT(30) DEF IsClient
<1>12. None \notin Con
  BY ExchangeAssumption, ZenonT(60)
<1> HIDE DEF x
<1>13. /\ DOMAIN client' = Thread /\ \A u \in Thread : IsClient(client'[u])
       /\ Exclusive' /\ InStep' /\ Settled' /\ OwnAnswer'
  <2>1. /\ Marks(x.got, Both) \cap MarksOn(con'[c], Both) = {}
        /\ con'[c].past # "short" =>
              Marks(x.got, Both) \cup MarksOn(con'[c], Both) \subseteq {x.call}
    BY <1>5, <1>6, <1>9, <1>11, ZenonT(60)
  <2>2. Settles(con'[c]) /\ x.on # None /\ x.on \in {None, c}
    BY <1>8, <1>9, <1>11, <1>12, ZenonT(60)
  <2> QED
    <3>1. \A u \in Thread : u # t /\ client[u].on # None => client[u].on # c
      BY ZenonT(60)
    <3>2. \A i \in DOMAIN available' :
             \/ available'[i] # c /\ \E j \in DOMAIN available : available'[i] = available[j]
             \/ /\ available'[i] = c /\ x.on = None
                /\ con'[c].past # "short" => MarksOn(con'[c], Both) = {}
      BY ZenonT(60)
    <3>3. x.on = None /\ x.call # 0 /\ x.from # 0 /\ x.past # "short" => x.from = x.call
      BY <2>2, ZenonT(60)
    <3>4. client' = [client EXCEPT ![t] = x] /\ IsClient(x)
      BY <1>1, <1>11, ZenonT(60)
    <3>5. \A d \in Con : d # c => con'[d] = con[d]
      BY <1>9, ZenonT(60)
    <3>6. Moves(t, x, c)
      BY <3>1, <3>2, <3>3, <3>4, <3>5, <2>1, <2>2, ZenonT(60) DEF Moves
    <3> QED
      BY <3>6, ClientStep, ZenonT(60)
<1> QED
  BY <1>3, <1>9, <1>10, <1>13, ZenonT(60) DEF IInv, Typed

\* The state of a thread whose call ended.
Ended(call, result, from, past) ==
    [Idle EXCEPT !.call = call, !.result = result, !.from = from, !.past = past]

EndedIs(x, call, from, past) ==
    IsClient(x) /\ x.on = None /\ x.call = call /\ x.from = from /\ x.past = past

LEMMA FinishedIsClient ==
    ASSUME NEW call \in Nat, NEW result, NEW from \in Nat, NEW past
    PROVE  EndedIs(Ended(call, result, from, past), call, from, past)
<1> DEFINE x == Ended(call, result, from, past)
<1> USE DEF Ended
<1>1. /\ x.on = None /\ x.call = call /\ x.got = <<>> /\ x.need = 0
      /\ x.from = from /\ x.past = past
  BY DEF Idle
<1>2. DOMAIN x = {"need", "past", "on", "call", "got", "result", "from"}
  BY DEF Idle
<1>3. <<>> \in Seq(Cell)
  BY EmptySeq
<1> HIDE DEF x
<1>4. x.on \in Con \cup {None} /\ x.got \in Seq(Cell) /\ x.need \in Nat
  BY <1>1, <1>3
<1>5. x.call \in Nat /\ x.from \in Nat
  BY <1>1
<1>6. IsClient(x)
  BY <1>2, <1>4, <1>5, Zenon DEF IsClient
<1> QED
  BY <1>1, <1>6 DEF x, EndedIs

\* A call ends as it begins.
LEMMA FailedInv ==
    ASSUME IInv, NEW t \in Thread, NEW call \in Call[t], Begins(t, call), UNCHANGED con,
           NEW result, NEW past, Finished(t, Len(made) + 1, result, 0, past),
           available' \in Seq(Con),
           \A i, j \in DOMAIN available' : available'[i] = available'[j] => i = j,
           \A i \in DOMAIN available' : \E j \in DOMAIN available : available'[i] = available[j]
    PROVE  IInv'
<1> DEFINE id == Len(made) + 1
           x == Ended(id, result, 0, past)
<1>1. /\ client' = [client EXCEPT ![t] = x]
      /\ made' = Append(made, call) /\ answered' = Append(answered, <<>>)
  BY DEF Finished, Begins, Ended
<1>2. Typed /\ Tokens /\ call \in UNION {Call[u] : u \in Thread}
  BY DEF IInv
<1>3. /\ made' \in Seq(UNION {Call[u] : u \in Thread})
      /\ IsSequence(answered') /\ Len(answered') = Len(made')
      /\ id \in Nat /\ Tokens'
  BY <1>1, <1>2, TokensBegun, ZenonT(60)
<1> HIDE DEF id
<1>4. IsClient(x) /\ x.on = None /\ x.from = 0
  <2>1. 0 \in Nat
    OBVIOUS
  <2>2. EndedIs(x, id, 0, past)
    BY <2>1, <1>3, FinishedIsClient, ZenonT(60)
  <2> QED
    BY <2>2, ZenonT(60) DEF EndedIs
<1> HIDE DEF x
<1>5. Moves(t, x, None)
  <2>1. None \notin Con /\ \A i \in DOMAIN available' : available'[i] \in Con
    BY ExchangeAssumption, ElementOfSeq, LenProperties, SMTT(30)
  <2>2. \A i \in DOMAIN available' :
           available'[i] # None /\ \E j \in DOMAIN available : available'[i] = available[j]
    BY <2>1
  <2>3. \A d \in Con : con'[d] = con[d]
    OBVIOUS
  <2> QED
    BY <2>1, <2>2, <2>3, <1>1, <1>4, ZenonT(60) DEF Moves
<1>6. /\ DOMAIN client' = Thread /\ \A u \in Thread : IsClient(client'[u])
      /\ Exclusive' /\ InStep' /\ Settled' /\ OwnAnswer'
  BY <1>5, ClientStep, SMTT(30)
<1>7. con' \in [Con -> Connection]
  BY <1>2, SMTT(30) DEF Typed
<1> QED
  BY <1>3, <1>6, <1>7, SMTT(30) DEF IInv, Typed

LEMMA FreshConnection ==
    Fresh \in Connection /\ Distinct(Fresh) /\ Settles(Fresh) /\ Fresh.open
    /\ \A kinds : MarksOn(Fresh, kinds) = {}
<1>1. <<>> \in Seq(Cell) /\ Once(<<>>) /\ \A kinds : Marks(<<>>, kinds) = {}
  BY NoMarks, EmptySeq
<1>2. Fresh \in Connection
  BY <1>1, SMTT(30) DEF Fresh, Connection
<1>3. /\ Fresh.rbuf = <<>> /\ Fresh.toServer = <<>> /\ Fresh.toClient = <<>> /\ Fresh.buffer = <<>>
      /\ Fresh.open
  BY DEF Fresh
<1>4. \A kinds : MarksOn(Fresh, kinds) = {}
  BY <1>1, <1>3 DEF MarksOn
<1>5. Distinct(Fresh)
  BY <1>1, <1>3, SMTT(30) DEF Distinct
<1> QED
  BY <1>2, <1>3, <1>4, <1>5 DEF Settles

LEMMA StartInv ==
    ASSUME IInv, NEW t \in Thread, NEW call \in Call[t],
           \/ StartPooled(t, call) \/ StartBroken(t, call) \/ StartNew(t, call)
           \/ StartInvalid(t, call) \/ StartRefused(t, call)
    PROVE  IInv'
<1>1. Typed /\ Exclusive /\ Tokens /\ InStep /\ Settled
  BY DEF IInv
<1>2. /\ available \in Seq(Con)
      /\ \A i, j \in DOMAIN available : available[i] = available[j] => i = j
      /\ \A i \in DOMAIN available : \E j \in DOMAIN available : available[i] = available[j]
  BY <1>1, SMTT(30) DEF Typed, Exclusive
<1>3. CASE StartPooled(t, call)
  <2> DEFINE c == Head(available)
             r == Tail(available)
  <2>1. /\ available # <<>> /\ con[c].open /\ available' = r
        /\ Begins(t, call) /\ Writes(t, call, c, con[c])
    BY <1>3, ZenonT(60) DEF StartPooled
  <2>2. /\ c \in Con /\ r \in Seq(Con)
        /\ \E i \in DOMAIN available : available[i] = c
        /\ \A u \in Thread : client[u].on # c
        /\ \A i, j \in DOMAIN r : r[i] = r[j] => i = j
        /\ \A i \in DOMAIN r : r[i] # c /\ \E j \in DOMAIN available : r[i] = available[j]
    BY <2>1, PoolHead, ZenonT(60)
  <2> HIDE DEF c, r
  <2>3. /\ con[c] \in Connection /\ Settles(con[c]) /\ Distinct(con[c])
        /\ con[c].past # "short" => MarksOn(con[c], Both) = {}
    BY <2>2, <1>1, ZenonT(60) DEF Typed, Settled, Tokens, InStep
  <2>4. /\ available' \in Seq(Con)
        /\ \A i, j \in DOMAIN available' : available'[i] = available'[j] => i = j
        /\ \A i \in DOMAIN available' :
              available'[i] # c /\ \E j \in DOMAIN available : available'[i] = available[j]
    BY <2>1, <2>2, ZenonT(60)
  <2>5. /\ MarksOn(con[c], Both) \subseteq MarksOn(con[c], Both)
        /\ MarksOn(con[c], {"request"}) \subseteq MarksOn(con[c], {"request"})
    BY ZenonT(60)
  <2> DEFINE state == con[c]
  <2>6. /\ Writes(t, call, c, state) /\ state.open /\ state \in Connection
        /\ Settles(state) /\ Distinct(state)
        /\ state.past # "short" => MarksOn(state, Both) = {}
        /\ MarksOn(state, Both) \subseteq MarksOn(con[c], Both)
        /\ MarksOn(state, {"request"}) \subseteq MarksOn(con[c], {"request"})
    BY <2>1, <2>3, <2>5, ZenonT(60)
  <2> HIDE DEF state
  <2> QED
    BY <2>1, <2>2, <2>4, <2>6, WritesInv, ZenonT(60)
<1>4. CASE StartBroken(t, call)
  <2> DEFINE c == Head(available)
             s == Tail(available)
  <2>1. /\ available # <<>> /\ available' = Append(s, c) /\ UNCHANGED con
        /\ Begins(t, call) /\ Finished(t, Len(made) + 1, Raised, 0, "clean")
    BY <1>4, ZenonT(60) DEF StartBroken
  <2>2. /\ c \in Con /\ s \in Seq(Con)
        /\ \E i \in DOMAIN available : available[i] = c
        /\ \A i, j \in DOMAIN s : s[i] = s[j] => i = j
        /\ \A i \in DOMAIN s : s[i] # c /\ \E j \in DOMAIN available : s[i] = available[j]
    BY <2>1, PoolHead, SMTT(30)
  <2> HIDE DEF c, s
  <2>3. Joined(available', s, c)
    BY <2>1, <2>2, PoolJoined, ZenonT(60)
  <2>4. /\ available' \in Seq(Con)
        /\ \A i, j \in DOMAIN available' : available'[i] = available'[j] => i = j
        /\ \A i \in DOMAIN available' :
              available'[i] = c \/ (available'[i] # c /\ \E j \in DOMAIN s : available'[i] = s[j])
    BY <2>3, ZenonT(60) DEF Joined
  <2>5. \A i \in DOMAIN available' : \E j \in DOMAIN available : available'[i] = available[j]
    BY <2>2, <2>4, SMTT(30)
  <2> QED
    BY <2>1, <2>4, <2>5, FailedInv, ZenonT(60)
<1>5. CASE StartNew(t, call)
  <2> DEFINE c == CHOOSE d \in Unused : TRUE
  <2>1. /\ available' = available /\ Unused # {}
        /\ Begins(t, call) /\ Writes(t, call, c, Fresh)
    BY <1>5, ZenonT(60) DEF StartNew
  <2>2. c \in Unused
    BY <2>1, ZenonT(60)
  <2> HIDE DEF c
  <2>3. c \in Con /\ c \notin Range(available) /\ \A u \in Thread : client[u].on # c
    BY <2>2, SMTT(30) DEF Unused
  <2>4. \A i \in DOMAIN available' :
           available'[i] # c /\ \E j \in DOMAIN available : available'[i] = available[j]
    BY <2>1, <2>3, ZenonT(60) DEF Range
  <2> QED
    BY <2>1, <2>3, <2>4, <1>2, FreshConnection, WritesInv, ZenonT(60)
<1>6. CASE StartInvalid(t, call)
  <2>1. /\ available' = available /\ UNCHANGED con
        /\ Begins(t, call) /\ Finished(t, Len(made) + 1, Returned(call, None), 0, "torn")
    BY <1>6 DEF StartInvalid
  <2> QED
    BY <2>1, <1>2, FailedInv, ZenonT(60)
<1>7. CASE StartRefused(t, call)
  <2>1. /\ available' = available /\ UNCHANGED con
        /\ Begins(t, call) /\ Finished(t, Len(made) + 1, Raised, 0, "clean")
    BY <1>7, SMTT(30) DEF StartRefused
  <2> QED
    BY <2>1, <1>2, FailedInv, ZenonT(60)
<1> QED
  BY <1>3, <1>4, <1>5, <1>6, <1>7, SMTT(30)

\* The connection a thread uses is not in the pool, and no other uses it.
LEMMA OwnConnection ==
    ASSUME IInv, NEW t \in Thread, client[t].on # None
    PROVE  LET c == client[t].on IN
           /\ c \in Con /\ con[c] \in Connection /\ Distinct(con[c]) /\ Settles(con[c])
           /\ \A u \in Thread : u # t /\ client[u].on # None => client[u].on # c
           /\ \A i \in DOMAIN available : available[i] # c
           /\ IsClient(client[t])
           /\ Marks(client[t].got, Both) \cap MarksOn(con[c], Both) = {}
           /\ con[c].past # "short" =>
                 Marks(client[t].got, Both) \cup MarksOn(con[c], Both) \subseteq {client[t].call}
<1> DEFINE c == client[t].on
<1>1. c \in Con /\ IsClient(client[t])
  BY SMTT(30) DEF IInv, Typed, IsClient
<1>2. con[c] \in Connection /\ Distinct(con[c]) /\ Settles(con[c])
  BY <1>1, ZenonT(60) DEF IInv, Typed, Tokens, Settled
<1>3. /\ \A u \in Thread : u # t /\ client[u].on # None => client[u].on # c
      /\ \A i \in DOMAIN available : available[i] # c
  BY DEF IInv, Exclusive
<1>4. /\ Marks(client[t].got, Both) \cap MarksOn(con[c], Both) = {}
      /\ con[c].past # "short" =>
            Marks(client[t].got, Both) \cup MarksOn(con[c], Both) \subseteq {client[t].call}
  BY SMTT(30) DEF IInv, InStep
<1> QED
  BY <1>1, <1>2, <1>3, <1>4, ZenonT(60)

\* The connection of a thread, with the marks it had or fewer.
LEMMA ThreadStep ==
    ASSUME IInv, NEW t \in Thread, NEW c \in Con, NEW l \in Connection,
           con' = [con EXCEPT ![c] = l], Distinct(l),
           MarksOn(l, Both) \subseteq MarksOn(con[c], Both),
           MarksOn(l, {"request"}) \subseteq MarksOn(con[c], {"request"}),
           NEW x, Moves(t, x, c), UNCHANGED <<made, answered>>
    PROVE  IInv'
<1>1. Typed /\ Tokens
  BY DEF IInv
<1>2. Tokens'
  BY <1>1, TokensKept, ZenonT(60)
<1>3. /\ DOMAIN client' = Thread /\ \A u \in Thread : IsClient(client'[u])
      /\ Exclusive' /\ InStep' /\ Settled' /\ OwnAnswer'
  BY ClientStep
<1>4. con' \in [Con -> Connection] /\ available' \in Seq(Con)
  BY <1>1, ZenonT(60) DEF Typed, Moves
<1>5. /\ made' \in Seq(UNION {Call[u] : u \in Thread})
      /\ IsSequence(answered') /\ Len(answered') = Len(made')
  BY <1>1 DEF Typed
<1> QED
  BY <1>2, <1>3, <1>4, <1>5, ZenonT(60) DEF IInv, Typed

LEMMA EndsInv ==
    ASSUME IInv, NEW t \in Thread, client[t].on # None,
           NEW n \in 1..Len(con[client[t].on].toClient), NEW from \in Nat, NEW valid \in BOOLEAN,
           NEW taken, taken = SubSeq(con[client[t].on].toClient, 1, n),
           NEW left, left = <<>> \/ (left = taken /\ from = 0),
           from # 0 => from \in Marks(client[t].got, Both) \cup Marks(taken, Both),
           valid /\ left = <<>> => from \in Marks(client[t].got, Both) \cup Marks(taken, Both),
           Ends(t, n, from, valid, left), UNCHANGED <<made, answered>>
    PROVE  IInv'
<1> DEFINE c == client[t].on
           k == con[c]
           p == client[t]
           torn == Torn(k.toClient, ClientBuf, n)
           past == IF left # <<>> THEN "short" ELSE Past(k.past, torn)
           l == [k EXCEPT !.toClient = Rest(k.toClient, n), !.buffer = left,
                          !.valid = valid, !.past = past]
           result == Returned(made[p.call], IF from = 0 THEN None ELSE Head(answered[from]))
           x == Ended(p.call, result, from, past)
<1>1. /\ con' = [con EXCEPT ![c] = l]
      /\ available' = IF valid THEN Append(available, c) ELSE available
      /\ client' = [client EXCEPT ![t] = x]
  BY SMTT(30) DEF Ends, Finished, Ended
<1>2. /\ c \in Con /\ k \in Connection /\ Distinct(k) /\ Settles(k)
      /\ \A u \in Thread : u # t /\ client[u].on # None => client[u].on # c
      /\ \A i \in DOMAIN available : available[i] # c
      /\ IsClient(p)
      /\ Marks(p.got, Both) \cap MarksOn(k, Both) = {}
      /\ k.past # "short" => Marks(p.got, Both) \cup MarksOn(k, Both) \subseteq {p.call}
  BY OwnConnection, ZenonT(60)
<1>3. n \in 0..Len(k.toClient) /\ taken = SubSeq(k.toClient, 1, n)
  <2>1. k.toClient \in Seq(Cell)
    BY <1>2, ZenonT(60) DEF Connection
  <2>2. Len(k.toClient) \in Nat
    BY <2>1, LenProperties, SMTT(30)
  <2> QED
    BY <2>2, SMTT(30)
<1> HIDE DEF c, k, p, torn
<1>4. /\ Rest(k.toClient, n) \in Seq(Cell) /\ taken \in Seq(Cell) /\ <<>> \in Seq(Cell)
  <2>1. k.toClient \in Seq(Cell)
    BY <1>2, ZenonT(60) DEF Connection
  <2>2. Rest(k.toClient, n) \in Seq(Cell) /\ taken \in Seq(Cell)
    BY <1>3, <2>1, Split, ZenonT(60)
  <2> QED
    BY <2>2, EmptySeq, ZenonT(60)
<1>5. /\ past \in {"clean", "torn", "short"}
      /\ past # "short" => left = <<>> /\ k.past # "short"
  BY <1>2, ZenonT(60) DEF Past, Connection
<1> HIDE DEF past
<1>6. l \in Connection
  BY <1>2, <1>4, <1>5, ZenonT(60) DEF Connection
<1>7. /\ l.toServer = k.toServer /\ l.rbuf = k.rbuf /\ l.toClient = Rest(k.toClient, n)
      /\ l.buffer = left /\ l.past = past /\ l.open = k.open
  BY <1>2 DEF Connection
<1> HIDE DEF l
<1>8. Took(k, l, n, taken)
  BY <1>3, <1>7, ZenonT(60) DEF Took
<1>9. /\ Distinct(l) /\ MarksOn(l, Both) \subseteq MarksOn(k, Both)
      /\ MarksOn(l, {"request"}) \subseteq MarksOn(k, {"request"})
      /\ Marks(taken, Both) \subseteq MarksOn(k, Both)
      /\ l.buffer \in {k.buffer, <<>>} => Marks(taken, Both) \cap MarksOn(l, Both) = {}
  <2>1. MarksTaken(k, l, taken)
    BY <1>2, <1>8, ReadMarks, ZenonT(60)
  <2> QED
    BY <2>1, ZenonT(60) DEF MarksTaken
<1>10. con'[c] = l /\ \A d \in Con : d # c => con'[d] = con[d]
  BY <1>1, <1>2, ZenonT(60) DEF IInv, Typed
<1>11. IsClient(x) /\ x.on = None /\ x.call = p.call /\ x.from = from /\ x.past = past
  <2>1. p.call \in Nat
    BY <1>2, ZenonT(60) DEF IsClient
  <2> DEFINE call == p.call
  <2> HIDE DEF result, call
  <2>2. x = Ended(call, result, from, past)
    BY ZenonT(60) DEF call
  <2>3. call \in Nat
    BY <2>1, SMTT(30) DEF call
  <2> HIDE DEF x
  <2>4. EndedIs(x, call, from, past)
    BY <2>2, <2>3, FinishedIsClient, ZenonT(60)
  <2> QED
    BY <2>4, ZenonT(60) DEF call, EndedIs
<1> HIDE DEF x
<1>12. Settles(con'[c])
  BY <1>2, <1>5, <1>7, <1>10, ZenonT(60) DEF Settles
<1>13. from # 0 /\ past # "short" => from = p.call
  <2>1. from # 0 => from \in Marks(p.got, Both) \cup Marks(taken, Both)
    BY SMTT(30) DEF p
  <2> QED
    BY <2>1, <1>2, <1>5, <1>9, ZenonT(60)
<1>14. valid /\ past # "short" => MarksOn(l, Both) = {}
  <2> SUFFICES ASSUME valid, past # "short" PROVE MarksOn(l, Both) = {}
    BY ZenonT(60)
  <2>1. left = <<>> /\ k.past # "short" /\ l.buffer = <<>>
    BY <1>5, <1>7, ZenonT(60)
  <2>2. from \in Marks(p.got, Both) \cup Marks(taken, Both)
    BY <2>1, ZenonT(60) DEF p
  <2>3. MarksOn(l, Both) \subseteq {p.call} /\ from = p.call
    BY <2>1, <2>2, <1>2, <1>9, ZenonT(60)
  <2>4. from \notin MarksOn(l, Both)
    BY <2>1, <2>2, <1>2, <1>9, ZenonT(60)
  <2> QED
    BY <2>3, <2>4, ZenonT(60)
<1>15. /\ available' \in Seq(Con)
       /\ \A i, j \in DOMAIN available' : available'[i] = available'[j] => i = j
       /\ \A i \in DOMAIN available' :
             \/ available'[i] # c /\ \E j \in DOMAIN available : available'[i] = available[j]
             \/ available'[i] = c /\ valid
  <2>1. /\ available \in Seq(Con)
        /\ \A i, j \in DOMAIN available : available[i] = available[j] => i = j
    BY ZenonT(60) DEF IInv, Typed, Exclusive
  <2>2. CASE valid
    <3>1. available' = Append(available, c)
      BY <1>1, <2>2, ZenonT(60)
    <3>2. Joined(available', available, c)
      BY <3>1, <2>1, <1>2, PoolJoined, ZenonT(60)
    <3> QED
      BY <3>2, <2>2, ZenonT(60) DEF Joined
  <2>3. CASE ~ valid
    BY <2>1, <2>3, <1>1, <1>2, ZenonT(60)
  <2> QED
    BY <2>2, <2>3, ZenonT(60)
<1>16. Moves(t, x, c)
  <2>1. x.on = None /\ x.call # 0 /\ x.from # 0 /\ x.past # "short" => x.from = x.call
    BY <1>11, <1>13, ZenonT(60)
  <2>2. \A i \in DOMAIN available' :
           \/ available'[i] # c /\ \E j \in DOMAIN available : available'[i] = available[j]
           \/ /\ available'[i] = c /\ x.on = None
              /\ con'[c].past # "short" => MarksOn(con'[c], Both) = {}
    BY <1>7, <1>10, <1>11, <1>14, <1>15, ZenonT(60)
  <2>3. IsClient(x) /\ client' = [client EXCEPT ![t] = x] /\ x.on \in {None, c} /\ x.on = None
    BY <1>1, <1>11, ZenonT(60)
  <2> QED
    BY <2>1, <2>2, <2>3, <1>2, <1>10, <1>12, <1>15, ZenonT(60) DEF Moves
<1> QED
  <2>1. k = con[c]
    BY ZenonT(60) DEF k
  <2> QED
    BY <2>1, <1>1, <1>2, <1>6, <1>9, <1>16, ThreadStep, ZenonT(60)

\* The marks of what a thread has of its answer.
LEMMA GotMarks ==
    ASSUME IInv, NEW t \in Thread, client[t].on # None,
           NEW n \in 1..Len(con[client[t].on].toClient),
           NEW taken, taken = SubSeq(con[client[t].on].toClient, 1, n),
           NEW cells \in {taken, client[t].got \o taken}
    PROVE  /\ taken \in Seq(Cell) /\ cells \in Seq(Cell)
           /\ Marks(cells, Both) \subseteq Marks(client[t].got, Both) \cup Marks(taken, Both)
<1> DEFINE k == con[client[t].on]
           g == client[t].got
<1>1. k \in Connection /\ IsClient(client[t])
  BY OwnConnection, ZenonT(60)
<1>2. k.toClient \in Seq(Cell) /\ g \in Seq(Cell)
  BY <1>1, ZenonT(60) DEF Connection, IsClient
<1>3. n \in 0..Len(k.toClient)
  BY <1>2, WithinLength, ZenonT(60)
<1>4. taken \in Seq(Cell)
  BY <1>2, <1>3, Split, ZenonT(60)
<1> DEFINE w == g \o taken
<1>5. cells = taken \/ cells = w
  BY ZenonT(60)
<1> HIDE DEF k, g
<1>6. w \in Seq(Cell) /\ \A kinds : Marks(w, kinds) = Marks(g, kinds) \cup Marks(taken, kinds)
  BY <1>2, <1>4, ConcatMarks, ConcatProperties, ZenonT(60)
<1> HIDE DEF w
<1> QED
  BY <1>4, <1>5, <1>6, ZenonT(60) DEF g

LEMMA CollectsInv ==
    ASSUME IInv, NEW t \in Thread, client[t].on # None,
           NEW n \in 1..Len(con[client[t].on].toClient), NEW need \in Nat,
           NEW taken, taken = SubSeq(con[client[t].on].toClient, 1, n),
           NEW cells \in Seq(Cell),
           Marks(cells, Both) \subseteq Marks(client[t].got, Both) \cup Marks(taken, Both),
           Collects(t, n, cells, need), UNCHANGED <<made, answered>>
    PROVE  IInv'
<1>1. Len(cells) \in Nat
  BY LenProperties
<1> DEFINE c == client[t].on
           k == con[c]
           p == client[t]
           torn == Torn(k.toClient, ClientBuf, n)
           body == SubSeq(cells, 2, need)
<1>2. CASE Len(cells) < need
  <2> DEFINE l == [k EXCEPT !.toClient = Rest(k.toClient, n), !.past = Past(k.past, torn)]
             x == [p EXCEPT !.got = cells, !.need = need]
  <2>1. /\ con' = [con EXCEPT ![c] = l] /\ UNCHANGED available
        /\ client' = [client EXCEPT ![t] = x]
    BY <1>2 DEF Collects
  <2>2. /\ c \in Con /\ k \in Connection /\ Distinct(k) /\ Settles(k)
        /\ \A u \in Thread : u # t /\ client[u].on # None => client[u].on # c
        /\ \A i \in DOMAIN available : available[i] # c
        /\ IsClient(p) /\ p.on = c
        /\ Marks(p.got, Both) \cap MarksOn(k, Both) = {}
        /\ k.past # "short" => Marks(p.got, Both) \cup MarksOn(k, Both) \subseteq {p.call}
    BY OwnConnection, ZenonT(60)
  <2>3. k.toClient \in Seq(Cell)
    BY <2>2, ZenonT(60) DEF Connection
  <2>4. n \in 0..Len(k.toClient) /\ taken = SubSeq(k.toClient, 1, n)
    BY <2>3, LenProperties, SMTT(30)
  <2>5. Marks(cells, Both) \subseteq Marks(p.got, Both) \cup Marks(taken, Both)
    BY <1>1
  <2> HIDE DEF c, k, p, torn
  <2>6. Rest(k.toClient, n) \in Seq(Cell)
    BY <2>3, <2>4, Split, ZenonT(60)
  <2>7. /\ Past(k.past, torn) \in {"clean", "torn", "short"}
        /\ Past(k.past, torn) # "short" => k.past # "short"
    BY <2>2, ZenonT(60) DEF Past, Connection
  <2>8. l \in Connection
    BY <2>2, <2>6, <2>7, ZenonT(60) DEF Connection
  <2>9. /\ l.toServer = k.toServer /\ l.rbuf = k.rbuf /\ l.toClient = Rest(k.toClient, n)
        /\ l.buffer = k.buffer /\ l.past = Past(k.past, torn) /\ l.open = k.open
    BY <2>2 DEF Connection
  <2> HIDE DEF l
  <2>10. Took(k, l, n, taken)
    BY <2>4, <2>9, ZenonT(60) DEF Took
  <2>11. /\ Distinct(l) /\ MarksOn(l, Both) \subseteq MarksOn(k, Both)
         /\ MarksOn(l, {"request"}) \subseteq MarksOn(k, {"request"})
         /\ Marks(taken, Both) \subseteq MarksOn(k, Both)
         /\ Marks(taken, Both) \cap MarksOn(l, Both) = {}
    <3>1. l.buffer \in {k.buffer, <<>>}
      BY <2>9, ZenonT(60)
    <3>2. MarksTaken(k, l, taken)
      BY <2>2, <2>10, ReadMarks, ZenonT(60)
    <3> QED
      BY <3>1, <3>2, ZenonT(60) DEF MarksTaken
  <2>12. con'[c] = l /\ \A d \in Con : d # c => con'[d] = con[d]
    BY <2>1, <2>2 DEF IInv, Typed
  <2>13. x.on = c /\ x.call = p.call /\ x.got = cells /\ IsClient(x)
    <3>1. /\ x.on = c /\ x.call = p.call /\ x.got = cells /\ x.need = need /\ x.from = p.from
          /\ DOMAIN x = DOMAIN p
      BY <2>2 DEF IsClient
    <3> HIDE DEF x
    <3> QED
      BY <3>1, <2>2, <1>1, ZenonT(60) DEF IsClient
  <2> HIDE DEF x
  <2>14. Settles(con'[c])
    BY <2>2, <2>7, <2>9, <2>12, ZenonT(60) DEF Settles
  <2>15. /\ Marks(x.got, Both) \cap MarksOn(con'[c], Both) = {}
         /\ con'[c].past # "short" =>
               Marks(x.got, Both) \cup MarksOn(con'[c], Both) \subseteq {x.call}
    BY <2>2, <2>5, <2>7, <2>9, <2>11, <2>12, <2>13, ZenonT(60)
  <2>16. /\ available' \in Seq(Con)
         /\ \A i, j \in DOMAIN available' : available'[i] = available'[j] => i = j
         /\ \A i \in DOMAIN available' :
               available'[i] # c /\ \E j \in DOMAIN available : available'[i] = available[j]
    BY <2>1, <2>2, ZenonT(60) DEF IInv, Typed, Exclusive
  <2>17. x.on # None /\ x.on \in {None, c}
    BY <2>2, <2>13, ExchangeAssumption, ZenonT(60)
  <2>18. Moves(t, x, c)
    BY <2>1, <2>2, <2>12, <2>13, <2>14, <2>15, <2>16, <2>17, ZenonT(60) DEF Moves
  <2>19. k = con[c]
    BY DEF k
  <2> QED
    BY <2>1, <2>2, <2>8, <2>11, <2>18, <2>19, ThreadStep, ZenonT(60)
<1>3. CASE ~ (Len(cells) < need) /\ Verified("answer", body)
  <2>1. Ends(t, n, Head(body).of, TRUE, <<>>)
    BY <1>3, ZenonT(60) DEF Collects
  <2>2. Head(body).of \in Marks(cells, Both) /\ Head(body).of \in Nat
    <3>1. need <= Len(cells)
      BY <1>1, <1>3
    <3>2. "answer" \in Both
      BY DEF Both
    <3> QED
      BY <3>1, <3>2, <1>1, <1>3, MarkIsNext, ZenonT(60)
  <2> HIDE DEF body
  <2> DEFINE from == Head(body).of
  <2>3. from \in Marks(client[t].got, Both) \cup Marks(taken, Both) /\ from \in Nat
    BY <2>2, <1>1, SMTT(30)
  <2> HIDE DEF from
  <2>4. Ends(t, n, from, TRUE, <<>>)
    BY <2>1, ZenonT(60) DEF from
  <2> QED
    BY <2>3, <2>4, EndsInv, ZenonT(60)
<1>4. CASE ~ (Len(cells) < need) /\ ~ Verified("answer", body)
  <2>1. Ends(t, n, 0, FALSE, <<>>)
    BY <1>4, ZenonT(60) DEF Collects
  <2> QED
    BY <2>1, EndsInv, ZenonT(60)
<1> QED
  BY <1>2, <1>3, <1>4

LEMMA ReadFailsInv ==
    ASSUME IInv, NEW t \in Thread, ReadFails(t)
    PROVE  IInv'
<1> DEFINE c == client[t].on
           k == con[c]
           p == client[t]
           x == Ended(p.call, Raised, 0, k.past)
<1>1. /\ c # None /\ ~ k.open /\ k.toClient = <<>> /\ available' = Append(available, c)
      /\ client' = [client EXCEPT ![t] = x] /\ UNCHANGED <<con, made, answered>>
  BY DEF ReadFails, Finished, Ended
<1>2. /\ c \in Con /\ k \in Connection /\ Distinct(k) /\ Settles(k)
      /\ \A u \in Thread : u # t /\ client[u].on # None => client[u].on # c
      /\ \A i \in DOMAIN available : available[i] # c
      /\ IsClient(p)
  BY <1>1, OwnConnection, ZenonT(60)
<1> HIDE DEF c, k, p
<1>3. IsClient(x) /\ x.on = None /\ x.from = 0
  <2>1. p.call \in Nat
    BY <1>2 DEF IsClient
  <2>2. 0 \in Nat
    OBVIOUS
  <2>3. EndedIs(x, p.call, 0, k.past)
    BY <2>1, <2>2, FinishedIsClient, ZenonT(60)
  <2> QED
    BY <2>3, ZenonT(60) DEF EndedIs
<1> HIDE DEF x
<1>4. k.past # "short" => MarksOn(k, Both) = {}
  <2>1. Marks(<<>>, Both) = {}
    BY NoMarks
  <2> QED
    BY <2>1, <1>1, <1>2, SMTT(30) DEF Settles, MarksOn
<1>5. con'[c] = k /\ \A d \in Con : con'[d] = con[d]
  BY <1>1 DEF k
<1>6. /\ available' \in Seq(Con)
      /\ \A i, j \in DOMAIN available' : available'[i] = available'[j] => i = j
      /\ \A i \in DOMAIN available' :
            \/ available'[i] # c /\ \E j \in DOMAIN available : available'[i] = available[j]
            \/ available'[i] = c
  <2>1. /\ available \in Seq(Con)
        /\ \A i, j \in DOMAIN available : available[i] = available[j] => i = j
    BY SMTT(30) DEF IInv, Typed, Exclusive
  <2>2. Joined(available', available, c)
    BY <2>1, <1>1, <1>2, PoolJoined, ZenonT(60)
  <2> QED
    BY <2>2, ZenonT(60) DEF Joined
<1>7. Moves(t, x, c)
  <2>1. \A i \in DOMAIN available' :
           \/ available'[i] # c /\ \E j \in DOMAIN available : available'[i] = available[j]
           \/ /\ available'[i] = c /\ x.on = None
              /\ con'[c].past # "short" => MarksOn(con'[c], Both) = {}
    BY <1>3, <1>4, <1>5, <1>6, ZenonT(60)
  <2>2. Settles(con'[c]) /\ x.on \in {None, c}
    BY <1>2, <1>3, <1>5, ZenonT(60)
  <2> QED
    BY <2>1, <2>2, <1>1, <1>2, <1>3, <1>5, <1>6, ZenonT(60) DEF Moves
<1>8. con' = [con EXCEPT ![c] = k] /\ k = con[c]
  BY <1>1, <1>2, ZenonT(60) DEF k, IInv, Typed
<1> QED
  BY <1>1, <1>2, <1>7, <1>8, ThreadStep, ZenonT(60)

LEMMA ReceiveInv ==
    ASSUME IInv, NEW t \in Thread, Receive(t)
    PROVE  IInv'
<1> DEFINE s == con[client[t].on].toClient
<1>1. CASE ReadFails(t)
  BY <1>1, ReadFailsInv
<1>2. CASE ~ ReadFails(t)
  <2>1. client[t].on # None /\ s # <<>> /\ UNCHANGED <<made, answered>>
    BY <1>2, ZenonT(60) DEF Receive, ReadShort, Read, ReadMore, Awaits
  <2>2. s \in Seq(Cell) /\ client[t].got \in Seq(Cell) /\ client[t].need \in Nat
    BY <2>1, OwnConnection, ZenonT(60) DEF Connection, IsClient
  <2>3. Len(s) \in Nat /\ Len(s) # 0
    BY <2>1, <2>2, LenProperties, EmptySeq, ZenonT(60)
  <2>4. ASSUME NEW n \in Reads(s, ClientBuf)
        PROVE  n \in 1..Len(s)
    BY <2>3, ReadsWithin, ZenonT(60)
  <2>5. CASE ReadShort(t)
    <3>1. Ends(t, 1, 0, TRUE, SubSeq(s, 1, 1))
      BY <2>5, ZenonT(60) DEF ReadShort
    <3>2. 1 \in 1..Len(s)
      BY <2>3
    <3>3. SubSeq(s, 1, 1) # <<>>
      <4> DEFINE w == SubSeq(s, 1, 1)
      <4>1. 1 \in 0..Len(s)
        BY <2>3
      <4>2. Len(w) = 1
        BY <4>1, <2>2, Split, SMTT(30)
      <4> HIDE DEF w
      <4>3. w # <<>>
        BY <4>2
      <4> QED
        BY <4>3 DEF w
    <3> DEFINE taken == SubSeq(s, 1, 1)
    <3>4. taken = SubSeq(con[client[t].on].toClient, 1, 1) /\ taken # <<>>
      BY <3>3
    <3>5. Ends(t, 1, 0, TRUE, taken)
      BY <3>1, ZenonT(60)
    <3>6. 1 \in 1..Len(con[client[t].on].toClient)
      BY <3>2
    <3> HIDE DEF taken, s
    <3> QED
      BY <3>4, <3>5, <3>6, <2>1, EndsInv, ZenonT(60)
  <2>6. CASE Read(t)
    <3>1. PICK n \in Reads(s, ClientBuf), need \in Lengths(Head(s)) :
             Collects(t, n, SubSeq(s, 1, n), need)
      BY <2>6, ZenonT(60) DEF Read
    <3>2. n \in 1..Len(s)
      BY <2>4, ZenonT(60)
    <3>3. need \in Nat
      <4>1. Head(s) \in Cell
        BY <2>1, <2>2, HeadTailProperties, ZenonT(60)
      <4> QED
        BY <4>1, LengthIsNat
    <3> DEFINE taken == SubSeq(s, 1, n)
    <3>4. taken = SubSeq(con[client[t].on].toClient, 1, n) /\ Collects(t, n, taken, need)
      BY <3>1, SMTT(30)
    <3>5. n \in 1..Len(con[client[t].on].toClient)
      BY <3>2, SMTT(30)
    <3> HIDE DEF taken, s
    <3>6. /\ taken \in Seq(Cell)
          /\ Marks(taken, Both) \subseteq Marks(client[t].got, Both) \cup Marks(taken, Both)
      BY <3>4, <3>5, <2>1, GotMarks, ZenonT(60)
    <3> QED
      BY <3>3, <3>4, <3>5, <3>6, <2>1, CollectsInv, ZenonT(60)
  <2>7. CASE ReadMore(t)
    <3>1. PICK n \in Reads(s, ClientBuf) :
             Collects(t, n, client[t].got \o SubSeq(s, 1, n), client[t].need)
      BY <2>7, ZenonT(60) DEF ReadMore
    <3>2. n \in 1..Len(s)
      BY <2>4, SMTT(30)
    <3> DEFINE taken == SubSeq(s, 1, n)
               cells == client[t].got \o taken
               need == client[t].need
    <3>4. taken = SubSeq(con[client[t].on].toClient, 1, n) /\ Collects(t, n, cells, need)
      BY <3>1, SMTT(30)
    <3>5. n \in 1..Len(con[client[t].on].toClient)
      BY <3>2
    <3> HIDE DEF taken, s
    <3>6. /\ cells \in Seq(Cell)
          /\ Marks(cells, Both) \subseteq Marks(client[t].got, Both) \cup Marks(taken, Both)
      BY <3>4, <3>5, <2>1, GotMarks, ZenonT(60)
    <3>7. need \in Nat
      BY <2>2, SMTT(30)
    <3> HIDE DEF cells, need
    <3> QED
      BY <3>4, <3>5, <3>6, <3>7, <2>1, CollectsInv, ZenonT(60)
  <2> QED
    BY <2>5, <2>6, <2>7, <1>2 DEF Receive
<1> QED
  BY <1>1, <1>2
-----------------------------------------------------------------------------
(* The pool's monitor and the process of the service. *)

LEMMA RemoveIdleInv ==
    ASSUME IInv, RemoveIdle
    PROVE  IInv'
<1> DEFINE c == Head(available)
           r == Tail(available)
           l == [con[c] EXCEPT !.valid = FALSE]
<1>1. /\ available # <<>> /\ con' = [con EXCEPT ![c] = l] /\ available' = r
      /\ UNCHANGED <<client, made, answered>>
  BY DEF RemoveIdle
<1>2. /\ c \in Con /\ r \in Seq(Con)
      /\ \A u \in Thread : client[u].on # c
      /\ \A i, j \in DOMAIN r : r[i] = r[j] => i = j
      /\ \A i \in DOMAIN r : r[i] # c /\ \E j \in DOMAIN available : r[i] = available[j]
  BY <1>1, PoolHead
<1> HIDE DEF c, r
<1>3. Typed /\ Exclusive /\ Tokens /\ InStep /\ Settled /\ OwnAnswer
  BY DEF IInv
<1>4. con[c] \in Connection /\ Distinct(con[c]) /\ Settles(con[c])
  BY <1>2, <1>3, ZenonT(60) DEF Typed, Tokens, Settled
<1>5. /\ l \in Connection /\ l.open = con[c].open /\ l.past = con[c].past
      /\ l.toServer = con[c].toServer /\ l.toClient = con[c].toClient
      /\ l.rbuf = con[c].rbuf /\ l.buffer = con[c].buffer
  BY <1>4, ZenonT(60) DEF Connection
<1> HIDE DEF l
<1>6. Distinct(l) /\ Settles(l) /\ \A kinds : MarksOn(l, kinds) = MarksOn(con[c], kinds)
  BY <1>4, <1>5, ZenonT(60) DEF Distinct, Settles, MarksOn
<1>7. con'[c] = l /\ con' \in [Con -> Connection] /\ \A d \in Con : d # c => con'[d] = con[d]
  BY <1>1, <1>2, <1>3, <1>5, ZenonT(60) DEF Typed
<1>8. Tokens'
  <2>1. /\ MarksOn(l, Both) \subseteq MarksOn(con[c], Both)
        /\ MarksOn(l, {"request"}) \subseteq MarksOn(con[c], {"request"})
        /\ Distinct(l) /\ l \in Connection
    BY <1>5, <1>6
  <2>2. con' = [con EXCEPT ![c] = l] /\ UNCHANGED <<made, answered>> /\ c \in Con
    BY <1>1, <1>2, SMTT(30)
  <2> QED
    BY <2>1, <2>2, <1>3, TokensKept, ZenonT(60)
<1>9. Typed' /\ OwnAnswer'
  BY <1>1, <1>2, <1>3, <1>7, SMTT(30) DEF Typed, OwnAnswer, Over
<1>10. Exclusive'
  BY <1>1, <1>2, <1>3, SMTT(30) DEF Exclusive
<1>11. Settled'
  BY <1>3, <1>6, <1>7 DEF Settled
<1>12. InStep'
  <2>1. ASSUME NEW u \in Thread, client[u].on # None
        PROVE  con'[client[u].on] = con[client[u].on]
    BY <2>1, <1>2, <1>3, <1>7, ZenonT(60) DEF Typed, IsClient
  <2>2. ASSUME NEW i \in DOMAIN r
        PROVE  con'[r[i]] = con[r[i]]
    <3>1. r[i] \in Con
      BY <1>2, ElementOfSeq, LenProperties
    <3> QED
      BY <3>1, <1>2, <1>7, ZenonT(60)
  <2>3. ASSUME NEW u \in Thread, client'[u].on # None
        PROVE  /\ Marks(client'[u].got, Both) \cap MarksOn(con'[client'[u].on], Both) = {}
               /\ con'[client'[u].on].past # "short" =>
                     Marks(client'[u].got, Both) \cup MarksOn(con'[client'[u].on], Both)
                        \subseteq {client'[u].call}
    <3>1. client'[u] = client[u] /\ con'[client[u].on] = con[client[u].on]
      BY <2>1, <2>3, <1>1
    <3> QED
      BY <2>3, <3>1, <1>3, ZenonT(60) DEF InStep
  <2>4. ASSUME NEW i \in DOMAIN r, con'[r[i]].past # "short"
        PROVE  MarksOn(con'[r[i]], Both) = {}
    <3>1. con'[r[i]] = con[r[i]]
      BY <2>2, ZenonT(60)
    <3>2. \E j \in DOMAIN available : r[i] = available[j]
      BY <1>2, ZenonT(60)
    <3> QED
      BY <3>1, <3>2, <2>4, <1>3, ZenonT(60) DEF InStep
  <2> QED
    BY <2>3, <2>4, <1>1, ZenonT(60) DEF InStep
<1> QED
  BY <1>8, <1>9, <1>10, <1>11, <1>12 DEF IInv

LEMMA DownInv ==
    ASSUME IInv, Down
    PROVE  IInv'
<1>1. PICK lost \in SUBSET {c \in Con : con[c].toClient # <<>>} :
         con' = [c \in Con |-> [con[c] EXCEPT !.open = FALSE, !.toServer = <<>>,
                                   !.toClient = IF c \in lost THEN <<>> ELSE con[c].toClient,
                                   !.rbuf = <<>>, !.need = 0]]
  BY ZenonT(60) DEF Down
<1>2. UNCHANGED <<available, client, made, answered>>
  BY ZenonT(60) DEF Down
<1>3. Typed /\ Exclusive /\ Tokens /\ InStep /\ Settled /\ OwnAnswer
  BY DEF IInv
<1>4. <<>> \in Seq(Cell) /\ Once(<<>>) /\ \A kinds : Marks(<<>>, kinds) = {}
  BY NoMarks, EmptySeq, SMTT(30)
<1>5. ASSUME NEW c \in Con
      PROVE  /\ con'[c] \in Connection /\ ~ con'[c].open
             /\ con'[c].toServer = <<>> /\ con'[c].rbuf = <<>>
             /\ con'[c].buffer = con[c].buffer /\ con'[c].past = con[c].past
             /\ con'[c].toClient \in {<<>>, con[c].toClient}
  <2>1. con[c] \in Connection
    BY <1>3, ZenonT(60) DEF Typed
  <2> DEFINE a == IF c \in lost THEN <<>> ELSE con[c].toClient
  <2>2. a \in {<<>>, con[c].toClient} /\ a \in Seq(Cell)
    BY <2>1, <1>4, SMTT(30) DEF Connection
  <2>3. con'[c] = [con[c] EXCEPT !.open = FALSE, !.toServer = <<>>, !.toClient = a,
                                 !.rbuf = <<>>, !.need = 0]
    BY <1>1, ZenonT(60)
  <2> HIDE DEF a
  <2> DEFINE k == con[c]
             l == [k EXCEPT !.open = FALSE, !.toServer = <<>>, !.toClient = a,
                            !.rbuf = <<>>, !.need = 0]
  <2>4. k \in Connection
    BY <2>1
  <2>5. con'[c] = l
    BY <2>3
  <2> HIDE DEF k
  <2>6. l \in Connection
    BY <2>2, <2>4, <1>4, ZenonT(60) DEF Connection
  <2>7. /\ ~ l.open /\ l.toServer = <<>> /\ l.rbuf = <<>> /\ l.toClient = a
        /\ l.buffer = k.buffer /\ l.past = k.past
    BY <2>4 DEF Connection
  <2> HIDE DEF l
  <2> QED
    BY <2>2, <2>5, <2>6, <2>7, ZenonT(60) DEF k
<1>6. ASSUME NEW c \in Con
      PROVE  /\ Distinct(con'[c]) /\ Settles(con'[c])
             /\ \A kinds : MarksOn(con'[c], kinds) \subseteq MarksOn(con[c], kinds)
  <2>1. Distinct(con[c]) /\ Settles(con[c])
    BY <1>3, ZenonT(60) DEF Tokens, Settled
  <2>2. \A kinds : Marks(con'[c].toClient, kinds) \subseteq Marks(con[c].toClient, kinds)
    BY <1>4, <1>5, SMTT(30)
  <2>3. Distinct(con'[c])
    BY <2>1, <2>2, <1>4, <1>5, ZenonT(60) DEF Distinct
  <2>4. Settles(con'[c])
    BY <2>1, <1>5 DEF Settles
  <2>5. \A kinds : MarksOn(con'[c], kinds) \subseteq MarksOn(con[c], kinds)
    BY <2>2, <1>4, <1>5, ZenonT(60) DEF MarksOn
  <2> QED
    BY <2>3, <2>4, <2>5
<1>7. con' \in [Con -> Connection]
  <2>1. DOMAIN con' = Con /\ con' = [c \in Con |-> con'[c]]
    BY <1>1, ZenonT(60)
  <2> QED
    BY <2>1, <1>5
<1>8. Typed' /\ Exclusive' /\ OwnAnswer'
  BY <1>2, <1>3, <1>7, ZenonT(60) DEF Typed, Exclusive, OwnAnswer, Over
<1>9. Tokens'
  BY <1>2, <1>3, <1>6, ZenonT(60) DEF Tokens
<1>10. Settled'
  BY <1>6 DEF Settled
<1>11. InStep'
  <2>1. ASSUME NEW u \in Thread, client[u].on # None
        PROVE  client[u].on \in Con
    BY <2>1, <1>3, ZenonT(60) DEF Typed, IsClient
  <2>2. \A i \in DOMAIN available : available[i] \in Con
    BY <1>3, ElementOfSeq, LenProperties DEF Typed
  <2> QED
    BY <2>1, <2>2, <1>2, <1>3, <1>5, <1>6, ZenonT(60) DEF InStep
<1> QED
  BY <1>8, <1>9, <1>10, <1>11 DEF IInv

LEMMA SameInv ==
    ASSUME IInv, UNCHANGED <<con, available, client, made, answered>>
    PROVE  IInv'
<1>1. Typed'
  BY DEF IInv, Typed
<1>2. Exclusive' /\ OwnAnswer'
  BY DEF IInv, Exclusive, OwnAnswer, Over
<1>3. Tokens' /\ Settled'
  BY ZenonT(60) DEF IInv, Tokens, Settled
<1>4. InStep'
  BY ZenonT(60) DEF IInv, InStep
<1> QED
  BY <1>1, <1>2, <1>3, <1>4 DEF IInv

LEMMA InitInv ==
    ASSUME Init
    PROVE  IInv
<1> DEFINE first == CHOOSE c \in Con : TRUE
<1>1. /\ con = [[c \in Con |-> Closed] EXCEPT ![first] = Fresh] /\ available = <<first>>
      /\ client = [t \in Thread |-> Idle] /\ made = <<>> /\ answered = <<>>
  BY DEF Init
<1>2. first \in Con /\ None \notin Con
  BY ExchangeAssumption
<1> HIDE DEF first
<1>3. <<>> \in Seq(Cell) /\ Once(<<>>) /\ \A kinds : Marks(<<>>, kinds) = {}
  BY NoMarks, EmptySeq
<1>4. /\ Closed \in Connection /\ Closed.toServer = <<>> /\ Closed.toClient = <<>>
      /\ Closed.rbuf = <<>> /\ Closed.buffer = <<>>
  BY <1>3, ZenonT(60) DEF Closed, Fresh, Connection
<1>5. Distinct(Closed) /\ Settles(Closed) /\ \A kinds : MarksOn(Closed, kinds) = {}
  BY <1>3, <1>4 DEF Distinct, Settles, MarksOn
<1>6. con \in [Con -> Connection] /\ \A c \in Con : con[c] = Fresh \/ con[c] = Closed
  BY <1>1, <1>2, <1>4, FreshConnection
<1>7. \A c \in Con : Distinct(con[c]) /\ Settles(con[c]) /\ \A kinds : MarksOn(con[c], kinds) = {}
  BY <1>5, <1>6, FreshConnection
<1>8. IsClient(Idle) /\ Idle.on = None /\ Idle.call = 0
  BY <1>3 DEF Idle, IsClient
<1>9. DOMAIN client = Thread /\ \A t \in Thread : client[t] = Idle
  BY <1>1
<1>10. /\ available \in Seq(Con) /\ DOMAIN available = {1} /\ available[1] = first
  BY <1>1, <1>2
<1>11. made \in Seq(UNION {Call[t] : t \in Thread}) /\ Len(answered) = Len(made)
  BY <1>1, EmptySeq
<1>12. IsSequence(answered) /\ DOMAIN made = {}
  BY <1>1 DEF IsSequence
<1>13. Typed
  BY <1>6, <1>8, <1>9, <1>10, <1>11, <1>12, ZenonT(60) DEF Typed
<1>14. Exclusive
  BY <1>2, <1>8, <1>9, <1>10 DEF Exclusive
<1>15. Tokens
  BY <1>7, <1>12, ZenonT(60) DEF Tokens
<1>16. InStep
  BY <1>2, <1>7, <1>8, <1>9, <1>10, ZenonT(60) DEF InStep
<1>17. Settled /\ OwnAnswer
  BY <1>7, <1>8, <1>9 DEF Settled, OwnAnswer, Over
<1> QED
  BY <1>13, <1>14, <1>15, <1>16, <1>17 DEF IInv

LEMMA StepInv ==
    ASSUME IInv, [Next]_vars
    PROVE  IInv'
<1>1. ASSUME NEW t \in Thread, NEW call \in Call[t],
             \/ StartPooled(t, call) \/ StartBroken(t, call) \/ StartNew(t, call)
             \/ StartInvalid(t, call) \/ StartRefused(t, call)
      PROVE  IInv'
  BY <1>1, StartInv
<1>2. ASSUME NEW t \in Thread, Receive(t) PROVE IInv'
  BY <1>2, ReceiveInv
<1>3. ASSUME NEW c \in Con, Serve(c) PROVE IInv'
  BY <1>3, ServeInv
<1>4. ASSUME NEW req \in HttpRequest, Http(req) PROVE IInv'
  BY <1>4, SameInv DEF Http
<1>5. CASE RemoveIdle
  BY <1>5, RemoveIdleInv
<1>6. CASE Down
  BY <1>6, DownInv
<1>7. CASE Up
  BY <1>7, SameInv DEF Up
<1>8. CASE UNCHANGED vars
  BY <1>8, SameInv DEF vars
<1> QED
  BY <1>1, <1>2, <1>3, <1>4, <1>5, <1>6, <1>7, <1>8, ZenonT(60) DEF Next

LEMMA Invariance == Spec => []IInv
<1>1. Init => IInv
  BY InitInv
<1>2. IInv /\ [Next]_vars => IInv'
  BY StepInv
<1> QED
  BY <1>1, <1>2, PTL DEF Spec

\* Whatever is torn, reused or broken, and however many threads and connections
\* there are, a call is never given the answer to another one, unless its
\* connection got a short response.
THEOREM AnswersMatchCalls == Spec => []OwnAnswer
<1>1. IInv => OwnAnswer
  BY DEF IInv
<1> QED
  BY <1>1, Invariance, PTL

\* The service carries out a request at most once: it finds none in the bytes
\* that a torn, reused or broken connection leaves over.
THEOREM RequestsRunOnce == Spec => []ProcessedOnce
<1>1. IInv => ProcessedOnce
  <2> SUFFICES ASSUME IInv, NEW i \in DOMAIN answered PROVE Len(answered[i]) <= 1
    BY DEF ProcessedOnce
  <2>1. DOMAIN answered = DOMAIN made
    BY MadeIsTyped DEF IInv, Typed, IsSequence
  <2>2. answered[i] = <<>> \/ Len(answered[i]) = 1
    BY <2>1 DEF IInv, Tokens
  <2>3. CASE answered[i] = <<>>
    <3>1. Len(answered[i]) = 0
      BY <2>3
    <3> QED
      BY <3>1
  <2>4. CASE Len(answered[i]) = 1
    BY <2>4
  <2> QED
    BY <2>2, <2>3, <2>4
<1> QED
  BY <1>1, Invariance, PTL
=============================================================================
