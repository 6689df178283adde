---------------------------- MODULE ExchangeSteps ---------------------------
(***************************************************************************)
(* The invariant of a request and its answer, for any threads, connections *)
(* and calls, any sizes of the buffers and any number of faults and tears; *)
(* what the cells of a connection stand for; and the steps of the service. *)
(***************************************************************************)
EXTENDS Exchange, SequenceTheorems, TLAPS

Kind == {"request", "answer", "invalid"}
Cell == [kind : Kind, of : Nat, at : Nat, size : Nat]

Connection == [open : BOOLEAN, valid : BOOLEAN, buffer : Seq(Cell), toServer : Seq(Cell),
               toClient : Seq(Cell), rbuf : Seq(Cell), need : Nat,
               past : {"clean", "torn", "short"}]

IsSequence(s) == Len(s) \in Nat /\ s = [i \in 1..Len(s) |-> s[i]]

IsClient(x) ==
    /\ DOMAIN x = {"need", "past", "on", "call", "got", "result", "from"}
    /\ x.on \in Con \cup {None} /\ x.got \in Seq(Cell)
    /\ x.need \in Nat /\ x.call \in Nat /\ x.from \in Nat

Typed ==
    /\ con \in [Con -> Connection]
    /\ available \in Seq(Con)
    /\ DOMAIN client = Thread /\ \A t \in Thread : IsClient(client[t])
    /\ made \in Seq(UNION {Call[t] : t \in Thread})
    /\ IsSequence(answered) /\ Len(answered) = Len(made)

\* A connection is in the pool once, or used by one thread.
Exclusive ==
    /\ \A i, j \in DOMAIN available : available[i] = available[j] => i = j
    /\ \A t \in Thread : \A i \in DOMAIN available : client[t].on # available[i]
    /\ \A t, u \in Thread : client[t].on # None /\ client[t].on = client[u].on => t = u

\* The cell a verifier begins with stands for the request or the answer: the
\* calls whose mark is among the cells, which has each of them once.
Both == {"request", "answer"}
Marked(x, kinds) == x.at = 2 /\ x.kind \in kinds
Marks(s, kinds) == {s[i].of : i \in {j \in DOMAIN s : Marked(s[j], kinds)}}
Once(s) == \A i, j \in DOMAIN s :
              Marked(s[i], Both) /\ Marked(s[j], Both) /\ s[i].of = s[j].of => i = j

MarksOn(k, kinds) == Marks(k.rbuf, kinds) \cup Marks(k.toServer, kinds)
                \cup Marks(k.toClient, kinds) \cup Marks(k.buffer, kinds)

\* A connection has the mark of a call once.
Distinct(k) ==
    /\ Once(k.rbuf) /\ Once(k.toServer) /\ Once(k.toClient) /\ Once(k.buffer)
    /\ Marks(k.rbuf, Both) \cap Marks(k.toServer, Both) = {}
    /\ (Marks(k.rbuf, Both) \cup Marks(k.toServer, Both)) \cap Marks(k.toClient, Both) = {}
    /\ Marks(k.buffer, Both) \cap (Marks(k.rbuf, Both) \cup Marks(k.toServer, Both)
                                   \cup Marks(k.toClient, Both)) = {}

\* No call has its mark twice, and one that was answered none of a request.
Tokens ==
    /\ \A c \in Con : Distinct(con[c])
    /\ \A c, d \in Con : c # d => MarksOn(con[c], Both) \cap MarksOn(con[d], Both) = {}
    /\ \A c \in Con : MarksOn(con[c], Both) \subseteq DOMAIN made
    /\ \A c \in Con : \A i \in MarksOn(con[c], {"request"}) : answered[i] = <<>>
    /\ \A i \in DOMAIN made : answered[i] = <<>> \/ Len(answered[i]) = 1

\* Unless a short response put it out of step, a connection carries nothing of
\* a call but the one that is waiting on it.
InStep ==
    /\ \A t \in Thread : client[t].on # None =>
          LET k == con[client[t].on] IN
          /\ Marks(client[t].got, Both) \cap MarksOn(k, Both) = {}
          /\ k.past # "short" =>
                Marks(client[t].got, Both) \cup MarksOn(k, Both) \subseteq {client[t].call}
    /\ \A i \in DOMAIN available :
          con[available[i]].past # "short" => MarksOn(con[available[i]], Both) = {}

\* The service reads nothing more from a connection it closed, and only a short
\* response leaves bytes in the buffer.
Settles(k) == /\ ~ k.open => k.toServer = <<>> /\ k.rbuf = <<>>
              /\ k.past # "short" => k.buffer = <<>>
Settled == \A c \in Con : Settles(con[c])

IInv == Typed /\ Exclusive /\ Tokens /\ InStep /\ Settled /\ OwnAnswer
-----------------------------------------------------------------------------
(* Cells and marks. *)

LEMMA NoMarks ==
    ASSUME NEW kinds
    PROVE  Marks(<<>>, kinds) = {} /\ Once(<<>>)
BY DEF Marks, Once

LEMMA RequestMarks ==
    ASSUME NEW s
    PROVE  Marks(s, {"request"}) \subseteq Marks(s, Both)
BY DEF Marks, Marked, Both

LEMMA ConcatCells ==
    ASSUME NEW a \in Seq(Cell), NEW b \in Seq(Cell), NEW s, s = a \o b
    PROVE  /\ s \in Seq(Cell) /\ Len(a) \in Nat /\ Len(b) \in Nat /\ Len(s) = Len(a) + Len(b)
           /\ DOMAIN a = 1..Len(a) /\ DOMAIN b = 1..Len(b) /\ DOMAIN s = 1..(Len(a) + Len(b))
           /\ \A i \in DOMAIN a : i \in DOMAIN s /\ s[i] = a[i]
           /\ \A i \in DOMAIN b : i + Len(a) \in DOMAIN s /\ s[i + Len(a)] = b[i]
           /\ \A i \in DOMAIN s : i \in DOMAIN a \/ (i > Len(a) /\ i - Len(a) \in DOMAIN b)
<1>1. /\ s \in Seq(Cell) /\ Len(s) = Len(a) + Len(b)
      /\ \A i \in 1..(Len(a) + Len(b)) : s[i] = IF i <= Len(a) THEN a[i] ELSE b[i - Len(a)]
  BY ConcatProperties
<1>2. /\ Len(a) \in Nat /\ Len(b) \in Nat /\ DOMAIN a = 1..Len(a) /\ DOMAIN b = 1..Len(b)
      /\ DOMAIN s = 1..Len(s)
  BY <1>1, LenProperties
<1>3. /\ \A i \in 1..Len(a) : i \in 1..(Len(a) + Len(b)) /\ s[i] = a[i]
      /\ \A i \in 1..(Len(a) + Len(b)) : i \in 1..Len(a) \/ (i > Len(a) /\ i - Len(a) \in 1..Len(b))
  BY <1>1, <1>2
<1>4. ASSUME NEW i \in 1..Len(b)
      PROVE  i + Len(a) \in 1..(Len(a) + Len(b)) /\ s[i + Len(a)] = b[i]
  <2>1. /\ i + Len(a) \in 1..(Len(a) + Len(b)) /\ ~ (i + Len(a) <= Len(a))
        /\ (i + Len(a)) - Len(a) = i
    BY <1>2
  <2> QED
    BY <2>1, <1>1
<1> QED
  BY <1>1, <1>2, <1>3, <1>4

LEMMA ConcatMarks ==
    ASSUME NEW a \in Seq(Cell), NEW b \in Seq(Cell), NEW kinds
    PROVE  Marks(a \o b, kinds) = Marks(a, kinds) \cup Marks(b, kinds)
<1> DEFINE s == a \o b
<1>1. /\ \A i \in DOMAIN a : i \in DOMAIN s /\ s[i] = a[i]
      /\ \A i \in DOMAIN b : i + Len(a) \in DOMAIN s /\ s[i + Len(a)] = b[i]
      /\ \A i \in DOMAIN s : i \in DOMAIN a \/ (i - Len(a) \in DOMAIN b /\ i = (i - Len(a)) + Len(a))
  BY ConcatCells
<1> HIDE DEF s
<1>2. Marks(a, kinds) \subseteq Marks(s, kinds)
  BY <1>1 DEF Marks
<1>3. Marks(b, kinds) \subseteq Marks(s, kinds)
  BY <1>1 DEF Marks
<1>4. \A i \in DOMAIN s : (\E j \in DOMAIN a : s[i] = a[j]) \/ (\E j \in DOMAIN b : s[i] = b[j])
  BY <1>1
<1>5. Marks(s, kinds) \subseteq Marks(a, kinds) \cup Marks(b, kinds)
  BY <1>4 DEF Marks
<1> QED
  BY <1>2, <1>3, <1>5 DEF s

LEMMA ConcatOnce ==
    ASSUME NEW a \in Seq(Cell), NEW b \in Seq(Cell)
    PROVE  Once(a \o b) <=> Once(a) /\ Once(b) /\ Marks(a, Both) \cap Marks(b, Both) = {}
<1> DEFINE s == a \o b
<1>1. /\ Len(a) \in Nat /\ DOMAIN a = 1..Len(a) /\ DOMAIN b \subseteq Nat /\ DOMAIN s \subseteq Nat
      /\ \A i \in DOMAIN a : i \in DOMAIN s /\ s[i] = a[i]
      /\ \A i \in DOMAIN b : i + Len(a) \in DOMAIN s /\ s[i + Len(a)] = b[i] /\ i > 0
      /\ \A i \in DOMAIN s : i \in DOMAIN a \/ (i - Len(a) \in DOMAIN b /\ i = (i - Len(a)) + Len(a))
  BY ConcatCells
<1> HIDE DEF s
<1>2. ASSUME Once(s)
      PROVE  Once(a) /\ Once(b) /\ Marks(a, Both) \cap Marks(b, Both) = {}
  <2>1. Once(a)
    BY <1>1, <1>2 DEF Once
  <2>2. Once(b)
    <3>1. SUFFICES ASSUME NEW i \in DOMAIN b, NEW j \in DOMAIN b,
                          Marked(b[i], Both), Marked(b[j], Both), b[i].of = b[j].of
                   PROVE  i = j
      BY DEF Once
    <3>2. i + Len(a) = j + Len(a)
      BY <3>1, <1>1, <1>2, ZenonT(60) DEF Once
    <3> QED
      BY <3>2, <1>1
  <2>3. ASSUME NEW x \in Marks(a, Both), x \in Marks(b, Both)
        PROVE  FALSE
    <3>1. PICK i \in DOMAIN a : Marked(a[i], Both) /\ a[i].of = x
      BY DEF Marks
    <3>2. PICK j \in DOMAIN b : Marked(b[j], Both) /\ b[j].of = x
      BY <2>3 DEF Marks
    <3>3. i = j + Len(a)
      BY <3>1, <3>2, <1>1, <1>2 DEF Once
    <3> QED
      BY <3>3, <1>1
  <2> QED
    BY <2>1, <2>2, <2>3
<1>3. ASSUME Once(a), Once(b), Marks(a, Both) \cap Marks(b, Both) = {}
      PROVE  Once(s)
  <2>1. SUFFICES ASSUME NEW i \in DOMAIN s, NEW j \in DOMAIN s,
                        Marked(s[i], Both), Marked(s[j], Both), s[i].of = s[j].of
                 PROVE  i = j
    BY DEF Once
  <2>2. CASE i \in DOMAIN a /\ j \in DOMAIN a
    BY <2>1, <2>2, <1>1, <1>3 DEF Once
  <2>3. CASE i \notin DOMAIN a /\ j \notin DOMAIN a
    <3>1. i - Len(a) = j - Len(a)
      BY <2>1, <2>3, <1>1, <1>3 DEF Once
    <3> QED
      BY <3>1, <1>1
  <2>4. CASE i \in DOMAIN a /\ j \notin DOMAIN a
    <3>1. s[i].of \in Marks(a, Both) /\ s[j].of \in Marks(b, Both)
      BY <2>1, <2>4, <1>1 DEF Marks
    <3> QED
      BY <3>1, <2>1, <1>3
  <2>5. CASE i \notin DOMAIN a /\ j \in DOMAIN a
    <3>1. s[j].of \in Marks(a, Both) /\ s[i].of \in Marks(b, Both)
      BY <2>1, <2>5, <1>1 DEF Marks
    <3> QED
      BY <3>1, <2>1, <1>3
  <2> QED
    BY <2>2, <2>3, <2>4, <2>5
<1> QED
  BY <1>2, <1>3 DEF s

\* A stream is what was taken from it and the rest.
LEMMA Split ==
    ASSUME NEW s \in Seq(Cell), NEW n \in 0..Len(s)
    PROVE  /\ SubSeq(s, 1, n) \in Seq(Cell) /\ Rest(s, n) \in Seq(Cell)
           /\ s = SubSeq(s, 1, n) \o Rest(s, n)
           /\ Len(SubSeq(s, 1, n)) = n /\ Len(Rest(s, n)) = Len(s) - n
           /\ \A i \in 1..n : SubSeq(s, 1, n)[i] = s[i]
           /\ \A i \in 1..(Len(s) - n) : Rest(s, n)[i] = s[n + i]
<1>1. Len(s) \in Nat /\ n \in Nat /\ n <= Len(s)
  BY LenProperties
<1>2. /\ SubSeq(s, 1, n) \in Seq(Cell) /\ Len(SubSeq(s, 1, n)) = n
      /\ \A i \in 1..n : SubSeq(s, 1, n)[i] = s[i]
  BY <1>1, SubSeqProperties
<1>3. /\ Rest(s, n) \in Seq(Cell) /\ Len(Rest(s, n)) = Len(s) - n
      /\ \A i \in 1..(Len(s) - n) : Rest(s, n)[i] = s[n + i]
  BY <1>1, SubSeqProperties DEF Rest
<1> DEFINE a == SubSeq(s, 1, n)  b == Rest(s, n)
<1>4. a \in Seq(Cell) /\ b \in Seq(Cell) /\ Len(a) = n /\ Len(b) = Len(s) - n
  BY <1>2, <1>3
<1>5. /\ \A i \in 1..n : a[i] = s[i]
      /\ \A i \in 1..(Len(s) - n) : b[i] = s[n + i]
  BY <1>2, <1>3
<1> HIDE DEF a, b
<1> DEFINE w == a \o b
<1>6. /\ w \in Seq(Cell) /\ Len(w) = Len(s)
      /\ \A i \in 1..Len(s) : w[i] = IF i <= n THEN a[i] ELSE b[i - n]
  BY <1>1, <1>4, ConcatProperties
<1> HIDE DEF w
<1>7. ASSUME NEW i \in 1..Len(s)
      PROVE  w[i] = s[i]
  <2>1. CASE i <= n
    BY <2>1, <1>1, <1>5, <1>6
  <2>2. CASE ~ (i <= n)
    <3>1. i - n \in 1..(Len(s) - n) /\ n + (i - n) = i
      BY <2>2, <1>1
    <3> QED
      BY <2>2, <3>1, <1>5, <1>6
  <2> QED
    BY <2>1, <2>2
<1>8. s = w
  BY <1>6, <1>7, SeqEqual, ZenonT(60)
<1> QED
  BY <1>2, <1>3, <1>8, ZenonT(60) DEF a, b, w

LEMMA WithinLength ==
    ASSUME NEW s \in Seq(Cell), NEW n \in 1..Len(s)
    PROVE  n \in 0..Len(s) /\ n > 0
  BY LenProperties

LEMMA ReadsWithin ==
    ASSUME NEW s, Len(s) \in Nat, NEW max \in {ServerBuf, ClientBuf}, NEW n \in Reads(s, max)
    PROVE  n \in 1..Len(s)
  BY ExchangeAssumption DEF Reads

LEMMA SplitMarks ==
    ASSUME NEW s \in Seq(Cell), NEW n \in 0..Len(s)
    PROVE  /\ \A kinds :
                 Marks(s, kinds) = Marks(SubSeq(s, 1, n), kinds) \cup Marks(Rest(s, n), kinds)
           /\ Once(s) => /\ Once(SubSeq(s, 1, n)) /\ Once(Rest(s, n))
                         /\ Marks(SubSeq(s, 1, n), Both) \cap Marks(Rest(s, n), Both) = {}
<1> DEFINE a == SubSeq(s, 1, n)  b == Rest(s, n)
<1>1. a \in Seq(Cell) /\ b \in Seq(Cell) /\ s = a \o b
  BY Split
<1> HIDE DEF a, b
<1>2. \A kinds : Marks(s, kinds) = Marks(a, kinds) \cup Marks(b, kinds)
  BY <1>1, ConcatMarks
<1>3. Once(s) => Once(a) /\ Once(b) /\ Marks(a, Both) \cap Marks(b, Both) = {}
  BY <1>1, ConcatOnce
<1> QED
  BY <1>2, <1>3 DEF a, b

LEMMA TailMarks ==
    ASSUME NEW s \in Seq(Cell), s # <<>>, NEW kinds
    PROVE  /\ Tail(s) \in Seq(Cell) /\ Marks(Tail(s), kinds) \subseteq Marks(s, kinds)
           /\ Once(s) => Once(Tail(s))
<1>1. Len(s) \in Nat /\ Len(s) # 0 /\ Tail(s) = SubSeq(s, 2, Len(s))
  BY TailIsSubSeq, EmptySeq
<1>2. 1 \in 0..Len(s) /\ Tail(s) = Rest(s, 1)
  BY <1>1 DEF Rest
<1>3. Rest(s, 1) \in Seq(Cell)
  BY <1>2, Split
<1>4. /\ Marks(Rest(s, 1), kinds) \subseteq Marks(s, kinds)
      /\ Once(s) => Once(Rest(s, 1))
  BY <1>2, SplitMarks
<1> QED
  BY <1>2, <1>3, <1>4, ZenonT(60)

\* The mark of a whole message is the second cell.
LEMMA MarkIsSecond ==
    ASSUME NEW s \in Seq(Cell), s # <<>>, NEW kind \in Both, Verified(kind, Tail(s))
    PROVE  /\ Head(Tail(s)).of \in Marks(s, {kind}) /\ Head(Tail(s)).of \in Marks(s, Both)
           /\ Head(Tail(s)).of \in Nat
<1>1. Tail(s) \in Seq(Cell) /\ Tail(s) # <<>> /\ Len(s) \in Nat /\ DOMAIN s = 1..Len(s)
  BY HeadTailProperties, LenProperties DEF Verified
<1>2. Len(Tail(s)) = Len(s) - 1 /\ Len(Tail(s)) # 0 /\ \A i \in 1..Len(Tail(s)) : Tail(s)[i] = s[i + 1]
  BY <1>1, HeadTailProperties, EmptySeq
<1>3. Head(Tail(s)) = s[2] /\ 2 \in DOMAIN s
  <2>1. Head(Tail(s)) = Tail(s)[1]
    BY <1>1
  <2>2. 1 \in 1..Len(Tail(s)) /\ 2 \in 1..Len(s)
    BY <1>1, <1>2
  <2> QED
    BY <2>1, <2>2, <1>1, <1>2
<1>4. s[2].kind = kind /\ s[2].at = 2
  BY <1>3 DEF Verified
<1>5. s[2] \in Cell
  BY <1>1, <1>3, ElementOfSeq
<1> QED
  BY <1>3, <1>4, <1>5, ZenonT(60) DEF Marks, Marked, Both, Cell

LEMMA MarkIsNext ==
    ASSUME NEW s \in Seq(Cell), NEW m \in Nat, m <= Len(s), NEW kind \in Both,
           Verified(kind, SubSeq(s, 2, m))
    PROVE  /\ Head(SubSeq(s, 2, m)).of \in Marks(s, Both) /\ Head(SubSeq(s, 2, m)).of \in Nat
           /\ s[2] = Head(SubSeq(s, 2, m)) /\ 2 <= m
<1> DEFINE b == SubSeq(s, 2, m)
<1>1. Len(s) \in Nat /\ DOMAIN s = 1..Len(s) /\ b # <<>>
  BY LenProperties DEF Verified
<1>2. 2 <= m
  <2>1. CASE m < 2
    BY <2>1, <1>1, SubSeqProperties
  <2> QED
    BY <2>1
<1>3. b \in Seq(Cell) /\ Len(b) = m - 1 /\ b[1] = s[2]
  BY <1>1, <1>2, SubSeqProperties
<1>4. Head(b) = s[2] /\ 2 \in DOMAIN s
  BY <1>1, <1>2, <1>3
<1>5. s[2].kind = kind /\ s[2].at = 2
  BY <1>4 DEF Verified
<1>6. s[2] \in Cell
  BY <1>1, <1>4, ElementOfSeq
<1> HIDE DEF b
<1>7. Head(b).of \in Marks(s, Both) /\ Head(b).of \in Nat
  BY <1>4, <1>5, <1>6, ZenonT(60) DEF Marks, Marked, Cell
<1> QED
  BY <1>2, <1>4, <1>7 DEF b
-----------------------------------------------------------------------------
(* Frames. *)

LEMMA FrameCells ==
    ASSUME NEW kind \in Kind, NEW id \in Nat, NEW size \in Nat, NEW f, f = Frame(kind, id, size)
    PROVE  /\ f \in Seq(Cell) /\ Len(f) = size /\ DOMAIN f = 1..size
           /\ \A i \in 1..size : f[i] = [kind |-> kind, of |-> id, at |-> i, size |-> size]
<1>1. /\ DOMAIN f = 1..size
      /\ \A i \in 1..size : f[i] = [kind |-> kind, of |-> id, at |-> i, size |-> size]
  BY DEF Frame
<1>2. \A i \in 1..size : f[i] \in Cell
  BY <1>1 DEF Cell
<1>3. f \in [1..size -> Cell]
  BY <1>2 DEF Frame, Cell
<1>4. f \in Seq(Cell)
  BY <1>3, SeqDef
<1>5. Len(f) \in Nat /\ DOMAIN f = 1..Len(f)
  BY <1>4, LenProperties
<1>6. Len(f) = size
  BY <1>1, <1>5
<1> QED
  BY <1>1, <1>4, <1>6

LEMMA FrameMarks ==
    ASSUME NEW kind \in Kind, NEW id \in Nat, NEW size \in Nat, NEW f, f = Frame(kind, id, size),
           NEW kinds
    PROVE  /\ Marks(f, kinds) \subseteq {id} /\ Once(f)
           /\ kind \notin kinds => Marks(f, kinds) = {}
<1>1. /\ DOMAIN f = 1..size
      /\ \A i \in 1..size : f[i].kind = kind /\ f[i].of = id /\ f[i].at = i
  BY DEF Frame
<1>2. Once(f)
  BY <1>1 DEF Once, Marked
<1> QED
  BY <1>1, <1>2 DEF Marks, Marked

LEMMA InvalidCells ==
    ASSUME NEW s \in Seq(Cell), NEW f, f = InvalidFrame(s), NEW kinds
    PROVE  f \in Seq(Cell) /\ Marks(f, kinds) = Marks(s, kinds) /\ (Once(s) => Once(f))
<1> DEFINE x == [kind |-> "invalid", of |-> 0, at |-> 1, size |-> 1 + Len(s)]
           h == <<x>>
<1>1. x \in Cell /\ x.at = 1
  <2>1. 1 + Len(s) \in Nat
    BY LenProperties
  <2> QED
    BY <2>1 DEF Cell, Kind
<1> HIDE DEF x
<1>2. h \in Seq(Cell) /\ DOMAIN h = {1} /\ h[1] = x
  BY <1>1
<1>3. f = h \o s
  BY DEF InvalidFrame, x
<1> HIDE DEF h
<1>4. Marks(h, kinds) = {} /\ Marks(h, Both) = {}
  BY <1>1, <1>2 DEF Marks, Marked
<1>5. Once(h)
  BY <1>2 DEF Once
<1>6. f \in Seq(Cell)
  BY <1>2, <1>3, ConcatProperties
<1>7. Marks(f, kinds) = Marks(s, kinds)
  <2>1. Marks(h \o s, kinds) = Marks(h, kinds) \cup Marks(s, kinds)
    BY <1>2, ConcatMarks
  <2> QED
    BY <2>1, <1>3, <1>4
<1>8. Once(s) => Once(f)
  BY <1>2, <1>3, <1>4, <1>5, ConcatOnce
<1> QED
  BY <1>6, <1>7, <1>8

\* The data of a request is a sequence, and so is that of its answer.
LEMMA CallIsTyped ==
    ASSUME NEW call \in UNION {Call[t] : t \in Thread}
    PROVE  /\ Built(call).action \in {"List", "Get", "Put", "Delete", "Move", "TTL"}
           /\ Len(Built(call).data) \in Nat
           /\ DOMAIN Built(call).data = 1..Len(Built(call).data)
<1>1. /\ call.fn \in {"list", "get", "set", "remove", "move", "ttl", "import"}
      /\ Built(call).data \in Seq(Range(call.items))
  BY ExchangeAssumption
<1>2. Built(call).action \in {"List", "Get", "Put", "Delete", "Move", "TTL"}
  BY <1>1 DEF Built, con_list, con_get, con_set, con_remove, con_move, con_ttl, con_import, Request
<1> QED
  BY <1>1, <1>2, LenProperties

LEMMA RequestCells ==
    ASSUME NEW call \in UNION {Call[t] : t \in Thread}, NEW id \in Nat,
           NEW f, f = RequestFrame(id, call), NEW kinds
    PROVE  f \in Seq(Cell) /\ Once(f) /\ Marks(f, kinds) \subseteq {id}
<1>1. 2 + Len(Built(call).data) \in Nat
  BY CallIsTyped
<1>2. f = Frame("request", id, 2 + Len(Built(call).data))
  BY DEF RequestFrame
<1>3. "request" \in Kind
  BY DEF Kind
<1>4. f \in Seq(Cell)
  BY <1>1, <1>2, <1>3, FrameCells
<1>5. Once(f) /\ Marks(f, kinds) \subseteq {id}
  BY <1>1, <1>2, <1>3, FrameMarks
<1> QED
  BY <1>4, <1>5

LEMMA SequenceLength ==
    ASSUME NEW n \in Nat, NEW f, DOMAIN f = 1..n, f = [i \in 1..n |-> f[i]]
    PROVE  Len(f) = n
<1> DEFINE S == {f[i] : i \in 1..n}
<1>1. f \in [1..n -> S]
  OBVIOUS
<1> HIDE DEF S
<1>2. f \in Seq(S)
  BY <1>1, SeqDef
<1>3. Len(f) \in Nat /\ DOMAIN f = 1..Len(f)
  BY <1>2, LenProperties
<1> QED
  BY <1>3

LEMMA AnswerSize ==
    ASSUME NEW d, NEW request, NEW hot, NEW n \in Nat,
           request.action \in {"List", "Get", "Put", "Delete", "Move", "TTL"},
           DOMAIN request.data = 1..n
    PROVE  LET a == process(d, request, hot).answer
           IN  a.type = "Success" \/ (a.type = "KeyValueResults" /\ Len(a.of) = n)
<1>1. ASSUME NEW kind, NEW rows, DOMAIN rows = 1..n
      PROVE  LET a == Results(kind, rows)
             IN  a.type = "KeyValueResults" /\ Len(a.of) = n
  <2> DEFINE o == Results(kind, rows).of
  <2>1. DOMAIN o = 1..n /\ o = [i \in 1..n |-> o[i]]
    BY <1>1 DEF Results
  <2>2. Results(kind, rows).type = "KeyValueResults"
    BY DEF Results
  <2> HIDE DEF o
  <2>3. Len(o) = n
    BY <2>1, SequenceLength
  <2> QED
    BY <2>2, <2>3 DEF o
<1>2. DOMAIN Keys(request.data) = 1..n
  BY DEF Keys
<1>3. /\ DOMAIN db_get(d, Keys(request.data), hot) = 1..n
      /\ DOMAIN db_list(d, Keys(request.data)) = 1..n
      /\ DOMAIN db_ttl(d, Keys(request.data)) = 1..n
  BY <1>2, SMTT(30) DEF db_get, db_list, db_ttl
<1>4. CASE request.action = "Get"
  <2>1. process(d, request, hot).answer = Results("Value", db_get(d, Keys(request.data), hot))
    BY <1>4 DEF process, get, Answered
  <2> QED
    BY <2>1, <1>1, <1>3
<1>5. CASE request.action = "List"
  <2>1. process(d, request, hot).answer = Results("Children", db_list(d, Keys(request.data)))
    BY <1>5 DEF process, list, Answered
  <2> QED
    BY <2>1, <1>1, <1>3
<1>6. CASE request.action = "TTL"
  <2>1. process(d, request, hot).answer = Results("Value", db_ttl(d, Keys(request.data)))
    BY <1>6 DEF process, ttl, Answered
  <2> QED
    BY <2>1, <1>1, <1>3
<1>7. CASE request.action \in {"Put", "Delete", "Move"}
  <2>1. process(d, request, hot).answer.type = "Success"
    BY <1>7 DEF process, put, remove, move, Changed, Answered
  <2> QED
    BY <2>1
<1> QED
  BY <1>4, <1>5, <1>6, <1>7

LEMMA AnswerIsSized ==
    ASSUME NEW d, NEW call \in UNION {Call[t] : t \in Thread}, NEW hot
    PROVE  LET a == process(d, Built(call), hot).answer
           IN  a.type = "Success" \/ Len(a.of) \in Nat
BY CallIsTyped, AnswerSize

LEMMA AnswerCells ==
    ASSUME NEW a, a.type = "Success" \/ Len(a.of) \in Nat, NEW id \in Nat,
           NEW f, f = AnswerFrame(id, a), NEW kinds
    PROVE  /\ f \in Seq(Cell) /\ Once(f) /\ Marks(f, kinds) \subseteq {id}
           /\ Marks(f, {"request"}) = {}
           /\ \E size \in Nat : f = Frame("answer", id, size) /\ size >= 2
<1> DEFINE size == IF a.type = "Success" THEN 3 ELSE 2 + Len(a.of)
<1>2. f = Frame("answer", id, size)
  BY DEF AnswerFrame
<1>3. size \in Nat /\ size >= 2
  OBVIOUS
<1> HIDE DEF size
<1>4. "answer" \in Kind /\ "answer" \notin {"request"}
  BY DEF Kind
<1>5. f \in Seq(Cell)
  BY <1>2, <1>3, <1>4, FrameCells
<1>6. Once(f) /\ Marks(f, kinds) \subseteq {id}
  BY <1>2, <1>3, <1>4, FrameMarks
<1>7. Marks(f, {"request"}) = {}
  BY <1>2, <1>3, <1>4, FrameMarks
<1> QED
  BY <1>2, <1>3, <1>5, <1>6, <1>7
-----------------------------------------------------------------------------
(* What becomes of the marks on one connection. *)

LEMMA RequestsAreMarks ==
    ASSUME NEW k
    PROVE  MarksOn(k, {"request"}) \subseteq MarksOn(k, Both)
BY RequestMarks DEF MarksOn

\* The service takes n cells; what it keeps or sends is made of those and of
\* the ones it had.
LEMMA ServedMarks ==
    ASSUME NEW k \in Connection, Distinct(k), NEW n \in 0..Len(k.toServer), NEW taken,
           taken = SubSeq(k.toServer, 1, n),
           NEW r \in Seq(Cell), NEW cells \in Seq(Cell), Once(r), Once(cells),
           Marks(r, Both) \cap Marks(cells, Both) = {},
           Marks(r, Both) \cup Marks(cells, Both) \subseteq Marks(k.rbuf, Both) \cup Marks(taken, Both),
           Marks(r, {"request"}) \cup Marks(cells, {"request"})
              \subseteq Marks(k.rbuf, {"request"}) \cup Marks(taken, {"request"}),
           NEW l, l.toServer = Rest(k.toServer, n), l.toClient = k.toClient \o cells,
           l.rbuf = r, l.buffer = k.buffer
    PROVE  /\ Distinct(l) /\ MarksOn(l, Both) \subseteq MarksOn(k, Both)
           /\ MarksOn(l, {"request"}) \subseteq MarksOn(k, {"request"})
           /\ Marks(taken, Both) \cup Marks(k.rbuf, Both) \subseteq MarksOn(k, Both)
           /\ Marks(taken, {"request"}) \cup Marks(k.rbuf, {"request"}) \subseteq MarksOn(k, {"request"})
           /\ \A id \in Marks(k.rbuf, Both) \cup Marks(taken, Both) :
                 r = <<>> /\ Marks(cells, {"request"}) = {} => id \notin MarksOn(l, {"request"})
<1>1. /\ k.rbuf \in Seq(Cell) /\ k.toServer \in Seq(Cell)
      /\ k.toClient \in Seq(Cell) /\ k.buffer \in Seq(Cell)
  BY DEF Connection
<1> DEFINE rest == Rest(k.toServer, n)
<1>2. /\ \A kinds : Marks(k.toServer, kinds) = Marks(taken, kinds) \cup Marks(rest, kinds)
      /\ Once(k.toServer) => Once(rest) /\ Marks(taken, Both) \cap Marks(rest, Both) = {}
  BY <1>1, SplitMarks
<1>3. /\ \A kinds : Marks(l.toClient, kinds) = Marks(k.toClient, kinds) \cup Marks(cells, kinds)
      /\ Once(k.toClient) /\ Marks(k.toClient, Both) \cap Marks(cells, Both) = {} => Once(l.toClient)
  BY <1>1, ConcatMarks, ConcatOnce, SMTT(30)
<1>4. /\ Marks(rest, {"request"}) \subseteq Marks(rest, Both)
      /\ Marks(k.toClient, {"request"}) \subseteq Marks(k.toClient, Both)
      /\ Marks(k.buffer, {"request"}) \subseteq Marks(k.buffer, Both)
      /\ l.toServer = rest
  BY RequestMarks
<1> HIDE DEF rest
<1>5. Once(rest) /\ Marks(taken, Both) \cap Marks(rest, Both) = {}
  BY <1>2 DEF Distinct
<1>6. Once(l.toClient)
  BY <1>2, <1>3 DEF Distinct
<1>7. Distinct(l)
  <2>1. Once(l.rbuf) /\ Once(l.toServer) /\ Once(l.toClient) /\ Once(l.buffer)
    BY <1>4, <1>5, <1>6, SMTT(30) DEF Distinct
  <2>2. Marks(l.rbuf, Both) \cap Marks(l.toServer, Both) = {}
    BY <1>2, <1>4, <1>5 DEF Distinct
  <2>3. (Marks(l.rbuf, Both) \cup Marks(l.toServer, Both)) \cap Marks(l.toClient, Both) = {}
    BY <1>2, <1>3, <1>4, <1>5 DEF Distinct
  <2>4. Marks(l.buffer, Both) \cap (Marks(l.rbuf, Both) \cup Marks(l.toServer, Both)
                                   \cup Marks(l.toClient, Both)) = {}
    BY <1>2, <1>3, <1>4, SMTT(30) DEF Distinct
  <2> QED
    BY <2>1, <2>2, <2>3, <2>4 DEF Distinct
<1>8. MarksOn(l, Both) \subseteq MarksOn(k, Both)
  BY <1>2, <1>3, <1>4, SMTT(30) DEF MarksOn
<1>9. MarksOn(l, {"request"}) \subseteq MarksOn(k, {"request"})
  BY <1>2, <1>3, <1>4 DEF MarksOn
<1>10. /\ Marks(taken, Both) \cup Marks(k.rbuf, Both) \subseteq MarksOn(k, Both)
       /\ Marks(taken, {"request"}) \cup Marks(k.rbuf, {"request"}) \subseteq MarksOn(k, {"request"})
  BY <1>2 DEF MarksOn
<1>11. ASSUME NEW id \in Marks(k.rbuf, Both) \cup Marks(taken, Both),
              r = <<>>, Marks(cells, {"request"}) = {}
       PROVE  id \notin MarksOn(l, {"request"})
  <2>1. MarksOn(l, {"request"}) \subseteq Marks(rest, Both) \cup Marks(k.toClient, Both) \cup Marks(k.buffer, Both)
    BY <1>3, <1>4, <1>11, NoMarks DEF MarksOn
  <2> QED
    BY <2>1, <1>2, <1>5 DEF Distinct
<1> QED
  BY <1>7, <1>8, <1>9, <1>10, <1>11

\* The client takes n cells, and leaves a short response in the buffer.
Took(k, l, n, taken) ==
    /\ n \in 0..Len(k.toClient) /\ taken = SubSeq(k.toClient, 1, n)
    /\ l.toServer = k.toServer /\ l.rbuf = k.rbuf /\ l.toClient = Rest(k.toClient, n)
    /\ l.buffer \in {k.buffer, <<>>, taken}

MarksTaken(k, l, taken) ==
    /\ Distinct(l) /\ MarksOn(l, Both) \subseteq MarksOn(k, Both)
    /\ MarksOn(l, {"request"}) \subseteq MarksOn(k, {"request"})
    /\ Marks(taken, Both) \subseteq MarksOn(k, Both)
    /\ l.buffer \in {k.buffer, <<>>} => Marks(taken, Both) \cap MarksOn(l, Both) = {}

LEMMA ReadMarks ==
    ASSUME NEW k \in Connection, Distinct(k), NEW l, NEW n, NEW taken, Took(k, l, n, taken)
    PROVE  MarksTaken(k, l, taken)
<1> USE DEF Took
<1>1. /\ k.rbuf \in Seq(Cell) /\ k.toServer \in Seq(Cell)
      /\ k.toClient \in Seq(Cell) /\ k.buffer \in Seq(Cell)
  BY DEF Connection
<1> DEFINE rest == Rest(k.toClient, n)
<1>2. /\ \A kinds : Marks(k.toClient, kinds) = Marks(taken, kinds) \cup Marks(rest, kinds)
      /\ Once(k.toClient) => /\ Once(rest) /\ Once(taken)
                             /\ Marks(taken, Both) \cap Marks(rest, Both) = {}
  BY <1>1, SplitMarks
<1>3. l.toClient = rest /\ Once(<<>>) /\ \A kinds : Marks(<<>>, kinds) = {}
  BY NoMarks
<1> HIDE DEF rest
<1>4. Once(rest) /\ Once(taken) /\ Marks(taken, Both) \cap Marks(rest, Both) = {}
  BY <1>2 DEF Distinct
<1>5. Once(l.buffer) /\ \A kinds : Marks(l.buffer, kinds) \subseteq Marks(k.buffer, kinds) \cup Marks(taken, kinds)
  BY <1>3, <1>4, ZenonT(60) DEF Distinct
<1>6. Marks(l.buffer, Both) \cap Marks(rest, Both) = {}
  BY <1>2, <1>4, <1>5 DEF Distinct
<1>7. Distinct(l)
  BY <1>2, <1>3, <1>4, <1>5, <1>6, SMTT(30) DEF Distinct
<1>8. MarksOn(l, Both) \subseteq MarksOn(k, Both)
  BY <1>2, <1>3, <1>5, SMTT(30) DEF MarksOn
<1>9. MarksOn(l, {"request"}) \subseteq MarksOn(k, {"request"})
  BY <1>2, <1>3, <1>5 DEF MarksOn
<1>10. Marks(taken, Both) \subseteq MarksOn(k, Both)
  BY <1>2 DEF MarksOn
<1>11. ASSUME l.buffer \in {k.buffer, <<>>}
       PROVE  Marks(taken, Both) \cap MarksOn(l, Both) = {}
  BY <1>2, <1>3, <1>4, <1>11 DEF Distinct, MarksOn
<1> QED
  BY <1>7, <1>8, <1>9, <1>10, <1>11 DEF MarksTaken

\* A request is written behind the buffer.
LEMMA WrittenMarks ==
    ASSUME NEW k \in Connection, Distinct(k), NEW id, id \notin MarksOn(k, Both),
           NEW f \in Seq(Cell), Once(f), Marks(f, Both) \subseteq {id},
           NEW l, l.toServer = k.toServer \o k.buffer \o f, l.buffer = <<>>,
           l.rbuf = k.rbuf, l.toClient = k.toClient
    PROVE  /\ l.toServer \in Seq(Cell)
           /\ Distinct(l) /\ MarksOn(l, Both) \subseteq MarksOn(k, Both) \cup {id}
           /\ MarksOn(l, {"request"}) \subseteq MarksOn(k, {"request"}) \cup {id}
<1>1. /\ k.rbuf \in Seq(Cell) /\ k.toServer \in Seq(Cell)
      /\ k.toClient \in Seq(Cell) /\ k.buffer \in Seq(Cell)
  BY DEF Connection
<1> DEFINE w == k.toServer \o k.buffer
<1>2. w \in Seq(Cell)
  BY <1>1, ConcatProperties
<1>3. /\ \A kinds : Marks(w, kinds) = Marks(k.toServer, kinds) \cup Marks(k.buffer, kinds)
      /\ Once(w) <=> Once(k.toServer) /\ Once(k.buffer)
                     /\ Marks(k.toServer, Both) \cap Marks(k.buffer, Both) = {}
  BY <1>1, ConcatMarks, ConcatOnce
<1>4. l.toServer = w \o f
  OBVIOUS
<1> HIDE DEF w
<1>5. l.toServer \in Seq(Cell)
  BY <1>2, <1>4, ConcatProperties
<1>6. /\ \A kinds : Marks(l.toServer, kinds) = Marks(w, kinds) \cup Marks(f, kinds)
      /\ Once(l.toServer) <=> Once(w) /\ Once(f) /\ Marks(w, Both) \cap Marks(f, Both) = {}
  BY <1>2, <1>4, ConcatMarks, ConcatOnce
<1>7. \A kinds : Marks(l.buffer, kinds) = {}
  BY NoMarks
<1>8. Once(l.buffer) /\ Marks(f, {"request"}) \subseteq {id}
  BY NoMarks, RequestMarks
<1>9. Once(l.toServer)
  BY <1>3, <1>6 DEF Distinct, MarksOn
<1>10. Distinct(l)
  BY <1>3, <1>6, <1>7, <1>8, <1>9 DEF Distinct, MarksOn
<1>11. MarksOn(l, Both) \subseteq MarksOn(k, Both) \cup {id}
  BY <1>3, <1>6, <1>7 DEF MarksOn
<1>12. MarksOn(l, {"request"}) \subseteq MarksOn(k, {"request"}) \cup {id}
  BY <1>3, <1>6, <1>7, <1>8 DEF MarksOn
<1> QED
  BY <1>5, <1>10, <1>11, <1>12
-----------------------------------------------------------------------------
(* The answers given. *)

LEMMA AppendToSequence ==
    ASSUME NEW s, IsSequence(s), NEW e
    PROVE  /\ IsSequence(Append(s, e)) /\ Len(Append(s, e)) = Len(s) + 1
           /\ \A i \in 1..Len(s) : Append(s, e)[i] = s[i]
           /\ Append(s, e)[Len(s) + 1] = e
<1> DEFINE S == {s[i] : i \in 1..Len(s)} \cup {e}
<1>1. Len(s) \in Nat /\ s \in [1..Len(s) -> S] /\ e \in S
  BY DEF IsSequence
<1> HIDE DEF S
<1>2. s \in Seq(S)
  BY <1>1, SeqDef
<1>3. /\ Append(s, e) \in Seq(S) /\ Len(Append(s, e)) = Len(s) + 1
      /\ \A i \in 1..Len(s) : Append(s, e)[i] = s[i]
      /\ Append(s, e)[Len(s) + 1] = e
  BY <1>1, <1>2, AppendProperties
<1>4. Append(s, e) \in [1..(Len(s) + 1) -> S]
  BY <1>1, <1>3, LenProperties, ZenonT(60)
<1> QED
  BY <1>1, <1>2, <1>3, <1>4, LenProperties, ZenonT(60) DEF IsSequence

LEMMA MadeIsTyped ==
    ASSUME Typed
    PROVE  /\ Len(made) \in Nat /\ DOMAIN made = 1..Len(made)
           /\ \A i \in DOMAIN made : made[i] \in UNION {Call[t] : t \in Thread}
BY LenProperties, ElementOfSeq DEF Typed
-----------------------------------------------------------------------------
(* One connection changes. *)

\* It has no mark it did not have.
LEMMA TokensKept ==
    ASSUME Typed, Tokens, NEW c \in Con, NEW k \in Connection, con' = [con EXCEPT ![c] = k],
           Distinct(k), MarksOn(k, Both) \subseteq MarksOn(con[c], Both),
           MarksOn(k, {"request"}) \subseteq MarksOn(con[c], {"request"}),
           UNCHANGED <<made, answered>>
    PROVE  Tokens'
<1>1. \A d \in Con : con'[d] = IF d = c THEN k ELSE con[d]
  BY DEF Typed
<1>2. \A d \in Con : /\ MarksOn(con'[d], Both) \subseteq MarksOn(con[d], Both)
                     /\ MarksOn(con'[d], {"request"}) \subseteq MarksOn(con[d], {"request"})
                     /\ Distinct(con'[d])
  BY <1>1 DEF Tokens
<1>3. \A d, e \in Con : d # e => MarksOn(con'[d], Both) \cap MarksOn(con'[e], Both) = {}
  BY <1>2 DEF Tokens
<1>4. \A d \in Con : MarksOn(con'[d], Both) \subseteq DOMAIN made'
  BY <1>2 DEF Tokens
<1>5. \A d \in Con : \A i \in MarksOn(con'[d], {"request"}) : answered'[i] = <<>>
  BY <1>2 DEF Tokens
<1> QED
  BY <1>2, <1>3, <1>4, <1>5 DEF Tokens

\* It loses the mark of a request, which is answered.
LEMMA TokensAnswered ==
    ASSUME Typed, Tokens, NEW c \in Con, NEW k \in Connection, con' = [con EXCEPT ![c] = k],
           Distinct(k), MarksOn(k, Both) \subseteq MarksOn(con[c], Both),
           MarksOn(k, {"request"}) \subseteq MarksOn(con[c], {"request"}),
           NEW id \in MarksOn(con[c], {"request"}), id \notin MarksOn(k, {"request"}),
           NEW a, answered' = [answered EXCEPT ![id] = Append(@, a)], UNCHANGED made
    PROVE  Tokens' /\ IsSequence(answered') /\ Len(answered') = Len(made)
<1>1. \A d \in Con : con'[d] = IF d = c THEN k ELSE con[d]
  BY DEF Typed
<1>2. \A d \in Con : /\ MarksOn(con'[d], Both) \subseteq MarksOn(con[d], Both)
                     /\ MarksOn(con'[d], {"request"}) \subseteq MarksOn(con[d], {"request"})
                     /\ Distinct(con'[d])
  BY <1>1 DEF Tokens
<1>3. id \in MarksOn(con[c], Both) /\ id \in DOMAIN made /\ answered[id] = <<>>
  BY RequestsAreMarks DEF Tokens
<1>4. DOMAIN made = 1..Len(made)
  BY MadeIsTyped
<1> DEFINE e == Append(answered[id], a)
<1>5. answered' = [answered EXCEPT ![id] = e] /\ Len(e) = 1
  BY <1>3
<1> HIDE DEF e
<1>6. /\ IsSequence(answered') /\ Len(answered') = Len(made)
      /\ \A j \in DOMAIN made : answered'[j] = IF j = id THEN e ELSE answered[j]
  <2>1. IsSequence(answered) /\ Len(answered) = Len(made)
    BY DEF Typed
  <2>2. /\ IsSequence(answered') /\ Len(answered') = Len(answered)
        /\ \A j \in 1..Len(answered) : answered'[j] = IF j = id THEN e ELSE answered[j]
    <3>1. Len(answered) \in Nat /\ DOMAIN answered = 1..Len(answered)
      BY <2>1 DEF IsSequence
    <3>2. /\ DOMAIN answered' = 1..Len(answered)
          /\ answered' = [j \in 1..Len(answered) |-> answered'[j]]
      BY <3>1, <1>5, ZenonT(60)
    <3>3. \A j \in 1..Len(answered) : answered'[j] = IF j = id THEN e ELSE answered[j]
      BY <3>1, <1>5, ZenonT(60)
    <3>4. Len(answered') = Len(answered)
      BY <3>1, <3>2, SequenceLength
    <3> QED
      BY <3>1, <3>2, <3>3, <3>4 DEF IsSequence
  <2> QED
    BY <2>1, <2>2, <1>4
<1>7. \A d, g \in Con : d # g => MarksOn(con'[d], Both) \cap MarksOn(con'[g], Both) = {}
  BY <1>2 DEF Tokens
<1>8. \A d \in Con : MarksOn(con'[d], Both) \subseteq DOMAIN made'
  BY <1>2 DEF Tokens
<1>9. ASSUME NEW d \in Con, NEW i \in MarksOn(con'[d], {"request"})
      PROVE  answered'[i] = <<>>
  <2>1. i # id
    <3>1. CASE d = c
      BY <3>1, <1>1, <1>9
    <3>2. CASE d # c
      BY <3>2, <1>2, <1>3, <1>9, RequestsAreMarks DEF Tokens
    <3> QED
      BY <3>1, <3>2
  <2>2. i \in DOMAIN made /\ answered[i] = <<>>
    BY <1>2, <1>9, RequestsAreMarks DEF Tokens
  <2> QED
    BY <2>1, <2>2, <1>6
<1>10. \A i \in DOMAIN made' : answered'[i] = <<>> \/ Len(answered'[i]) = 1
  BY <1>5, <1>6 DEF Tokens
<1> QED
  BY <1>2, <1>6, <1>7, <1>8, <1>9, <1>10, ZenonT(60) DEF Tokens

\* A call is begun, and no connection or one of them has its mark.
LEMMA TokensBegun ==
    ASSUME Typed, Tokens, NEW call \in UNION {Call[t] : t \in Thread},
           made' = Append(made, call), answered' = Append(answered, <<>>)
    PROVE  /\ made' \in Seq(UNION {Call[t] : t \in Thread})
           /\ IsSequence(answered') /\ Len(answered') = Len(made')
           /\ Len(made') = Len(made) + 1 /\ DOMAIN made' = 1..(Len(made) + 1)
           /\ DOMAIN made \subseteq DOMAIN made' /\ made'[Len(made) + 1] = call
           /\ Len(made) + 1 \in DOMAIN made' /\ Len(made) + 1 \in Nat
           /\ \A i \in DOMAIN made' : i \in DOMAIN made \/ i = Len(made) + 1
           /\ \A i \in DOMAIN made : answered'[i] = answered[i] /\ made'[i] = made[i]
           /\ answered'[Len(made) + 1] = <<>>
           /\ \A c \in Con : Len(made) + 1 \notin MarksOn(con[c], Both)
           /\ UNCHANGED con => Tokens'
<1>1. Len(made) \in Nat /\ DOMAIN made = 1..Len(made)
  BY MadeIsTyped
<1>2. /\ made' \in Seq(UNION {Call[t] : t \in Thread}) /\ Len(made') = Len(made) + 1
      /\ \A i \in 1..Len(made) : made'[i] = made[i]
      /\ made'[Len(made) + 1] = call
  BY AppendProperties DEF Typed
<1>3. /\ IsSequence(answered') /\ Len(answered') = Len(made) + 1
      /\ \A i \in 1..Len(made) : answered'[i] = answered[i]
      /\ answered'[Len(made) + 1] = <<>>
  BY AppendToSequence DEF Typed
<1>4. DOMAIN made' = 1..(Len(made) + 1)
  BY <1>2, LenProperties
<1>5. \A c \in Con : Len(made) + 1 \notin MarksOn(con[c], Both)
  BY <1>1 DEF Tokens
<1>6. /\ DOMAIN made \subseteq DOMAIN made' /\ Len(made) + 1 \in DOMAIN made' /\ Len(made) + 1 \in Nat
      /\ \A i \in DOMAIN made' : i \in DOMAIN made \/ i = Len(made) + 1
  BY <1>1, <1>4
<1>7. ASSUME UNCHANGED con
      PROVE  Tokens'
  <2>1. \A c \in Con : \A i \in MarksOn(con[c], {"request"}) : answered'[i] = <<>>
    BY <1>1, <1>3, RequestsAreMarks DEF Tokens
  <2>2. \A i \in DOMAIN made' : answered'[i] = <<>> \/ Len(answered'[i]) = 1
    BY <1>1, <1>3, <1>6 DEF Tokens
  <2> QED
    BY <2>1, <2>2, <1>6, <1>7, ZenonT(60) DEF Tokens
<1> QED
  BY <1>1, <1>2, <1>3, <1>4, <1>5, <1>6, <1>7

LEMMA TokensWritten ==
    ASSUME Typed, Tokens, NEW call \in UNION {Call[t] : t \in Thread},
           made' = Append(made, call), answered' = Append(answered, <<>>),
           NEW c \in Con, NEW k \in Connection, con' = [con EXCEPT ![c] = k], Distinct(k),
           MarksOn(k, Both) \subseteq MarksOn(con[c], Both) \cup {Len(made) + 1},
           MarksOn(k, {"request"}) \subseteq MarksOn(con[c], {"request"}) \cup {Len(made) + 1}
    PROVE  Tokens'
<1> DEFINE id == Len(made) + 1
<1>1. \A d \in Con : con'[d] = IF d = c THEN k ELSE con[d]
  BY SMTT(30) DEF Typed
<1>2. /\ id \in DOMAIN made' /\ DOMAIN made \subseteq DOMAIN made'
      /\ \A i \in DOMAIN made' : i \in DOMAIN made \/ i = id
      /\ \A i \in DOMAIN made : answered'[i] = answered[i]
      /\ answered'[id] = <<>>
      /\ \A d \in Con : id \notin MarksOn(con[d], Both)
  BY TokensBegun, ZenonT(60)
<1> HIDE DEF id
<1>3. /\ \A d \in Con : Distinct(con'[d])
      /\ MarksOn(con'[c], Both) \subseteq MarksOn(con[c], Both) \cup {id}
      /\ MarksOn(con'[c], {"request"}) \subseteq MarksOn(con[c], {"request"}) \cup {id}
  BY <1>1 DEF Tokens, id
<1>4. ASSUME NEW d \in Con, NEW e \in Con, d # e
      PROVE  MarksOn(con'[d], Both) \cap MarksOn(con'[e], Both) = {}
  <2>1. MarksOn(con[d], Both) \cap MarksOn(con[e], Both) = {}
    BY <1>4, ZenonT(60) DEF Tokens
  <2>2. CASE d = c
    BY <2>1, <2>2, <1>1, <1>2, <1>3, <1>4
  <2>3. CASE e = c
    BY <2>1, <2>3, <1>1, <1>2, <1>3, <1>4
  <2>4. CASE d # c /\ e # c
    BY <2>1, <2>4, <1>1
  <2> QED
    BY <2>2, <2>3, <2>4
<1>5. \A d \in Con : MarksOn(con'[d], Both) \subseteq DOMAIN made'
  BY <1>1, <1>2, <1>3 DEF Tokens
<1>6. ASSUME NEW d \in Con, NEW i \in MarksOn(con'[d], {"request"})
      PROVE  answered'[i] = <<>>
  <2>1. i \in MarksOn(con[d], {"request"}) \/ i = id
    BY <1>1, <1>3, <1>6
  <2>2. CASE i \in MarksOn(con[d], {"request"})
    BY <2>2, <1>2, RequestsAreMarks, ZenonT(60) DEF Tokens
  <2> QED
    BY <2>1, <2>2, <1>2, ZenonT(60)
<1>7. \A i \in DOMAIN made' : answered'[i] = <<>> \/ Len(answered'[i]) = 1
  <2>1. Len(<<>>) = 0
    OBVIOUS
  <2> QED
    BY <1>2, ZenonT(60) DEF Tokens
<1> QED
  BY <1>3, <1>4, <1>5, <1>6, <1>7, ZenonT(60) DEF Tokens

\* What the service does concerns no thread.
LEMMA InStepServed ==
    ASSUME Typed, InStep, NEW c \in Con, NEW k \in Connection, con' = [con EXCEPT ![c] = k],
           MarksOn(k, Both) \subseteq MarksOn(con[c], Both),
           k.past # "short" => con[c].past # "short",
           UNCHANGED <<available, client>>
    PROVE  InStep'
<1>1. \A d \in Con : /\ MarksOn(con'[d], Both) \subseteq MarksOn(con[d], Both)
                     /\ con'[d].past # "short" => con[d].past # "short"
  BY DEF Typed
<1>2. ASSUME NEW t \in Thread, client[t].on # None
      PROVE  LET l == con'[client[t].on] IN
             /\ Marks(client[t].got, Both) \cap MarksOn(l, Both) = {}
             /\ l.past # "short" =>
                   Marks(client[t].got, Both) \cup MarksOn(l, Both) \subseteq {client[t].call}
  <2>1. client[t].on \in Con
    BY <1>2, ZenonT(60) DEF Typed, IsClient
  <2> QED
    BY <2>1, <1>1, <1>2 DEF InStep
<1>3. \A i \in DOMAIN available :
         con'[available[i]].past # "short" => MarksOn(con'[available[i]], Both) = {}
  <2>1. \A i \in DOMAIN available : available[i] \in Con
    BY ElementOfSeq, LenProperties DEF Typed
  <2> QED
    BY <2>1, <1>1 DEF InStep
<1> QED
  BY <1>2, <1>3, ZenonT(60) DEF InStep
-----------------------------------------------------------------------------
(* The service. *)

LEMMA ServedStep ==
    ASSUME IInv, NEW c \in Con, NEW n \in 1..Len(con[c].toServer),
           NEW taken, taken = SubSeq(con[c].toServer, 1, n),
           NEW r \in Seq(Cell), NEW need \in Nat, NEW cells \in Seq(Cell), Once(r), Once(cells),
           Marks(r, Both) \cap Marks(cells, Both) = {},
           Marks(r, Both) \cup Marks(cells, Both)
              \subseteq Marks(con[c].rbuf, Both) \cup Marks(taken, Both),
           Marks(r, {"request"}) \cup Marks(cells, {"request"})
              \subseteq Marks(con[c].rbuf, {"request"}) \cup Marks(taken, {"request"}),
           con[c].open, Served(c, n, r, need, cells), UNCHANGED <<available, client, made>>
    PROVE  /\ con' \in [Con -> Connection] /\ Exclusive' /\ InStep' /\ Settled' /\ OwnAnswer'
           /\ UNCHANGED answered => Tokens'
           /\ \A id, a :
                 /\ id \in Marks(con[c].rbuf, {"request"}) \cup Marks(taken, {"request"})
                 /\ r = <<>> /\ Marks(cells, {"request"}) = {}
                 /\ answered' = [answered EXCEPT ![id] = Append(@, a)]
                 => Tokens' /\ IsSequence(answered') /\ Len(answered') = Len(made)
<1> USE DEF IInv
<1> DEFINE k == con[c]
           torn == Torn(k.toServer, ServerBuf, n)
           l == [k EXCEPT !.toServer = Rest(k.toServer, n), !.toClient = k.toClient \o cells,
                          !.rbuf = r, !.need = need, !.past = Past(k.past, torn)]
<1>1. con' = [con EXCEPT ![c] = l]
  BY DEF Served
<1>2. k \in Connection /\ Distinct(k)
  BY ZenonT(60) DEF Typed, Tokens
<1>3. /\ k.toServer \in Seq(Cell) /\ k.toClient \in Seq(Cell) /\ n \in 0..Len(k.toServer)
  <2>1. k.toServer \in Seq(Cell) /\ k.toClient \in Seq(Cell)
    BY <1>2, ZenonT(60) DEF Connection
  <2> QED
    BY <2>1, WithinLength, ZenonT(60)
<1>4. Rest(k.toServer, n) \in Seq(Cell) /\ k.toClient \o cells \in Seq(Cell)
  BY <1>3, Split, ConcatProperties, SMTT(30)
<1>5. Past(k.past, torn) \in {"clean", "torn", "short"} /\ (Past(k.past, torn) # "short" => k.past # "short")
  BY <1>2, ZenonT(60) DEF Past, Connection
<1> HIDE DEF torn, k
<1>6. /\ l \in Connection
      /\ l.toServer = Rest(k.toServer, n) /\ l.toClient = k.toClient \o cells
      /\ l.rbuf = r /\ l.buffer = k.buffer /\ l.past = Past(k.past, torn)
  BY <1>2, <1>4, <1>5, ZenonT(60) DEF Connection
<1>15. l.open = k.open
  BY <1>2 DEF Connection
<1> HIDE DEF l
<1>7. k = con[c]
  BY DEF k
<1>8. /\ Distinct(l) /\ MarksOn(l, Both) \subseteq MarksOn(k, Both)
      /\ MarksOn(l, {"request"}) \subseteq MarksOn(k, {"request"})
      /\ Marks(taken, {"request"}) \cup Marks(k.rbuf, {"request"}) \subseteq MarksOn(k, {"request"})
      /\ \A id \in Marks(k.rbuf, Both) \cup Marks(taken, Both) :
            r = <<>> /\ Marks(cells, {"request"}) = {} => id \notin MarksOn(l, {"request"})
  <2>1. /\ taken = SubSeq(k.toServer, 1, n)
        /\ Marks(r, Both) \cup Marks(cells, Both) \subseteq Marks(k.rbuf, Both) \cup Marks(taken, Both)
        /\ Marks(r, {"request"}) \cup Marks(cells, {"request"})
              \subseteq Marks(k.rbuf, {"request"}) \cup Marks(taken, {"request"})
    BY <1>7
  <2> HIDE DEF IInv
  <2> QED
    BY <2>1, <1>2, <1>3, <1>6, ServedMarks, ZenonT(60)
<1>9. con' \in [Con -> Connection]
  BY <1>1, <1>6, ZenonT(60) DEF Typed
<1>10. Exclusive' /\ OwnAnswer'
  BY ZenonT(60) DEF Exclusive, OwnAnswer, Over
<1>11. InStep'
  BY <1>1, <1>5, <1>6, <1>7, <1>8, InStepServed, ZenonT(60)
<1>12. UNCHANGED answered => Tokens'
  BY <1>1, <1>6, <1>7, <1>8, TokensKept, ZenonT(60)
<1>13. ASSUME NEW id, NEW a, id \in Marks(con[c].rbuf, {"request"}) \cup Marks(taken, {"request"}),
              r = <<>>, Marks(cells, {"request"}) = {},
              answered' = [answered EXCEPT ![id] = Append(@, a)]
       PROVE  Tokens' /\ IsSequence(answered') /\ Len(answered') = Len(made)
  <2>1. id \in MarksOn(con[c], {"request"})
    BY <1>7, <1>8, <1>13, ZenonT(60)
  <2>2. id \in Marks(k.rbuf, Both) \cup Marks(taken, Both)
    BY <1>7, <1>13, RequestMarks, SMTT(30)
  <2>3. id \notin MarksOn(l, {"request"})
    BY <2>2, <1>8, <1>13, SMTT(30)
  <2> QED
    BY <2>1, <2>3, <1>1, <1>6, <1>7, <1>8, <1>13, TokensAnswered, ZenonT(60)
<1>14. Settled'
  <2>1. ASSUME NEW d \in Con
        PROVE  Settles(con'[d])
    <3>1. CASE d = c
      <4>1. con'[d] = l /\ k.open /\ (k.past # "short" => k.buffer = <<>>)
        BY <1>1, <1>7, <3>1, SMTT(30) DEF Typed, Settled, Settles
      <4> QED
        BY <4>1, <1>5, <1>6, <1>15, SMTT(30) DEF Settles
    <3>2. CASE d # c
      BY <1>1, <3>2 DEF Typed, Settled
    <3> QED
      BY <3>1, <3>2
  <2> QED
    BY <2>1, SMTT(30) DEF Settled
<1> QED
  BY <1>9, <1>10, <1>11, <1>12, <1>13, <1>14, ZenonT(60)

LEMMA LengthIsNat ==
    ASSUME NEW x \in Cell, NEW l \in Lengths(x)
    PROVE  l \in Nat
<1>1. x.size \in Nat /\ MaxDoc \in Nat
  BY ExchangeAssumption DEF Cell
<1>2. CASE x.at = 1
  BY <1>1, <1>2 DEF Lengths
<1>3. CASE x.at # 1
  BY <1>1, <1>3 DEF Lengths
<1> QED
  BY <1>2, <1>3

PartOf(r, s) == Once(r) /\ \A kinds : Marks(r, kinds) \subseteq Marks(s, kinds)

LEMMA PrefixMarks ==
    ASSUME NEW s \in Seq(Cell), Once(s), NEW n \in 0..Len(s), NEW r, r = SubSeq(s, 1, n)
    PROVE  PartOf(r, s)
<1>1. /\ Once(r)
      /\ \A kinds : Marks(s, kinds) = Marks(r, kinds) \cup Marks(Rest(s, n), kinds)
  BY SplitMarks
<1> QED
  BY <1>1 DEF PartOf

\* The marks of what was read so far.
LEMMA TakenMarks ==
    ASSUME IInv, NEW c \in Con, NEW n \in 1..Len(con[c].toServer),
           NEW taken, taken = SubSeq(con[c].toServer, 1, n),
           NEW s \in {taken, con[c].rbuf \o taken}
    PROVE  /\ s \in Seq(Cell) /\ s # <<>> /\ Once(s)
           /\ \A kinds : Marks(s, kinds) \subseteq Marks(con[c].rbuf, kinds) \cup Marks(taken, kinds)
           /\ Marks(s, Both) \subseteq DOMAIN made
<1> DEFINE k == con[c]
<1>1. k \in Connection /\ Distinct(k) /\ MarksOn(k, Both) \subseteq DOMAIN made
  BY DEF IInv, Typed, Tokens
<1>2. k.rbuf \in Seq(Cell) /\ k.toServer \in Seq(Cell) /\ n \in 0..Len(k.toServer) /\ n > 0
  BY <1>1, LenProperties, SMTT(30) DEF Connection
<1>3. taken \in Seq(Cell) /\ Len(taken) = n
  BY <1>2, Split, ZenonT(60)
<1>4. Once(taken) /\ \A kinds : Marks(taken, kinds) \subseteq Marks(k.toServer, kinds)
  <2>1. Once(k.toServer)
    BY <1>1, ZenonT(60) DEF Distinct
  <2>2. PartOf(taken, k.toServer)
    BY <2>1, <1>2, PrefixMarks, ZenonT(60)
  <2> QED
    BY <2>2, ZenonT(60) DEF PartOf
<1> HIDE DEF k
<1> DEFINE w == k.rbuf \o taken
<1>5. w \in Seq(Cell) /\ Len(w) = Len(k.rbuf) + n
  BY <1>2, <1>3, ConcatProperties
<1>6. Once(w) /\ \A kinds : Marks(w, kinds) = Marks(k.rbuf, kinds) \cup Marks(taken, kinds)
  <2>1. Once(k.rbuf) /\ Marks(k.rbuf, Both) \cap Marks(taken, Both) = {}
    <3>1. Marks(taken, Both) \subseteq Marks(k.toServer, Both)
      BY <1>4
    <3> QED
      BY <3>1, <1>1, SMTT(30) DEF Distinct
  <2>2. Once(w)
    BY <2>1, <1>2, <1>3, <1>4, ConcatOnce, ZenonT(60)
  <2>3. \A kinds : Marks(w, kinds) = Marks(k.rbuf, kinds) \cup Marks(taken, kinds)
    BY <1>2, <1>3, ConcatMarks, ZenonT(60)
  <2> QED
    BY <2>2, <2>3
<1>7. s = taken \/ s = w
  BY DEF k
<1> HIDE DEF w
<1>8. s \in Seq(Cell) /\ Once(s)
  BY <1>3, <1>4, <1>5, <1>6, <1>7, ZenonT(60)
<1>9. s # <<>>
  <2>1. Len(taken) > 0 /\ Len(w) > 0
    BY <1>2, <1>3, <1>5, LenProperties
  <2> QED
    BY <2>1, <1>7
<1>10. \A kinds : Marks(s, kinds) \subseteq Marks(k.rbuf, kinds) \cup Marks(taken, kinds)
  BY <1>6, <1>7, ZenonT(60)
<1>11. Marks(s, Both) \subseteq DOMAIN made
  BY <1>1, <1>4, <1>10, SMTT(30) DEF MarksOn
<1> QED
  BY <1>8, <1>9, <1>10, <1>11, SMTT(30) DEF k

LEMMA HandleInv ==
    ASSUME IInv, NEW c \in Con, NEW n \in 1..Len(con[c].toServer),
           NEW taken, taken = SubSeq(con[c].toServer, 1, n),
           NEW s \in {taken, con[c].rbuf \o taken}, con[c].open, Handle(c, n, Tail(s)),
           UNCHANGED <<available, client, made>>
    PROVE  IInv'
<1>1. /\ s \in Seq(Cell) /\ s # <<>> /\ Once(s)
      /\ \A kinds : Marks(s, kinds) \subseteq Marks(con[c].rbuf, kinds) \cup Marks(taken, kinds)
      /\ Marks(s, Both) \subseteq DOMAIN made
  BY TakenMarks, ZenonT(60)
<1>2. <<>> \in Seq(Cell) /\ Once(<<>>) /\ \A kinds : Marks(<<>>, kinds) = {}
  BY NoMarks, EmptySeq
<1>3. CASE Verified("request", Tail(s))
  <2> DEFINE id == Head(Tail(s)).of
  <2>1. id \in Marks(s, {"request"}) /\ id \in Marks(s, Both) /\ id \in Nat /\ id \in DOMAIN made
    <3>1. "request" \in Both
      BY DEF Both
    <3> QED
      BY <3>1, <1>1, <1>3, MarkIsSecond, ZenonT(60)
  <2>2. PICK hot : LET r == process(db, Built(made[id]), hot) IN
                   /\ answered' = [answered EXCEPT ![id] = Append(@, r.answer)]
                   /\ Served(c, n, <<>>, 0, AnswerFrame(id, r.answer))
    BY <1>3, ZenonT(60) DEF Handle
  <2> HIDE DEF id
  <2> DEFINE a == process(db, Built(made[id]), hot).answer
             f == AnswerFrame(id, a)
  <2>3. /\ answered' = [answered EXCEPT ![id] = Append(@, a)]
        /\ Served(c, n, <<>>, 0, f)
    BY <2>2
  <2>4. made[id] \in UNION {Call[t] : t \in Thread}
    BY <2>1, MadeIsTyped, ZenonT(60) DEF IInv
  <2>5. f \in Seq(Cell) /\ Once(f) /\ Marks(f, Both) \subseteq {id} /\ Marks(f, {"request"}) = {}
    <3>1. a.type = "Success" \/ Len(a.of) \in Nat
      BY <2>4, AnswerIsSized, SMTT(30)
    <3> HIDE DEF a
    <3> QED
      BY <2>1, <3>1, AnswerCells
  <2> HIDE DEF f, a
  <2>6. /\ id \in Marks(con[c].rbuf, {"request"}) \cup Marks(taken, {"request"})
        /\ id \in Marks(con[c].rbuf, Both) \cup Marks(taken, Both)
    BY <2>1, <1>1, SMTT(30)
  <2>7. /\ con' \in [Con -> Connection] /\ Exclusive' /\ InStep' /\ Settled' /\ OwnAnswer'
        /\ Tokens' /\ IsSequence(answered') /\ Len(answered') = Len(made)
    <3>1. /\ Marks(<<>>, Both) \cap Marks(f, Both) = {}
          /\ Marks(<<>>, Both) \cup Marks(f, Both) \subseteq Marks(con[c].rbuf, Both) \cup Marks(taken, Both)
          /\ Marks(<<>>, {"request"}) \cup Marks(f, {"request"})
                \subseteq Marks(con[c].rbuf, {"request"}) \cup Marks(taken, {"request"})
      BY <2>5, <2>6, <1>2, ZenonT(60)
    <3> QED
      BY <3>1, <2>3, <2>5, <2>6, <1>2, ServedStep, ZenonT(60)
  <2> QED
    BY <2>7 DEF IInv, Typed
<1>4. CASE ~ Verified("request", Tail(s))
  <2> DEFINE f == InvalidFrame(Tail(s))
  <2>1. Served(c, n, <<>>, 0, f) /\ UNCHANGED answered
    BY <1>4, ZenonT(60) DEF Handle
  <2>2. Tail(s) \in Seq(Cell) /\ Once(Tail(s)) /\ \A kinds : Marks(Tail(s), kinds) \subseteq Marks(s, kinds)
    BY <1>1, TailMarks, ZenonT(60)
  <2>3. f \in Seq(Cell) /\ Once(f) /\ \A kinds : Marks(f, kinds) \subseteq Marks(s, kinds)
    <3> DEFINE b == Tail(s)
    <3>1. b \in Seq(Cell) /\ Once(b) /\ \A kinds : Marks(b, kinds) \subseteq Marks(s, kinds)
      BY <2>2
    <3>2. f = InvalidFrame(b)
      OBVIOUS
    <3> HIDE DEF f, b
    <3>3. f \in Seq(Cell) /\ Once(f) /\ \A kinds : Marks(f, kinds) = Marks(b, kinds)
      BY <3>1, <3>2, InvalidCells
    <3> QED
      BY <3>1, <3>3
  <2> HIDE DEF f
  <2>4. con' \in [Con -> Connection] /\ Exclusive' /\ InStep' /\ Settled' /\ OwnAnswer' /\ Tokens'
    <3>1. /\ Marks(<<>>, Both) \cap Marks(f, Both) = {}
          /\ Marks(<<>>, Both) \cup Marks(f, Both) \subseteq Marks(con[c].rbuf, Both) \cup Marks(taken, Both)
          /\ Marks(<<>>, {"request"}) \cup Marks(f, {"request"})
                \subseteq Marks(con[c].rbuf, {"request"}) \cup Marks(taken, {"request"})
      BY <2>3, <1>1, <1>2, ZenonT(60)
    <3> QED
      BY <3>1, <2>1, <2>3, <1>2, ServedStep, ZenonT(60)
  <2> QED
    BY <2>1, <2>4 DEF IInv, Typed
<1> QED
  BY <1>3, <1>4

\* What was read is kept until the rest of the request arrives.
LEMMA KeptInv ==
    ASSUME IInv, NEW c \in Con, NEW n \in 1..Len(con[c].toServer),
           NEW taken, taken = SubSeq(con[c].toServer, 1, n),
           NEW s \in {taken, con[c].rbuf \o taken}, NEW need \in Nat,
           con[c].open, Served(c, n, s, need, <<>>), UNCHANGED <<available, client, made, answered>>
    PROVE  IInv'
<1>1. /\ s \in Seq(Cell) /\ Once(s)
      /\ \A kinds : Marks(s, kinds) \subseteq Marks(con[c].rbuf, kinds) \cup Marks(taken, kinds)
  BY TakenMarks, ZenonT(60)
<1>2. <<>> \in Seq(Cell) /\ Once(<<>>) /\ \A kinds : Marks(<<>>, kinds) = {}
  BY NoMarks, EmptySeq
<1>3. con' \in [Con -> Connection] /\ Exclusive' /\ InStep' /\ Settled' /\ OwnAnswer' /\ Tokens'
  <2>1. /\ Marks(s, Both) \cap Marks(<<>>, Both) = {}
        /\ Marks(s, Both) \cup Marks(<<>>, Both) \subseteq Marks(con[c].rbuf, Both) \cup Marks(taken, Both)
        /\ Marks(s, {"request"}) \cup Marks(<<>>, {"request"})
              \subseteq Marks(con[c].rbuf, {"request"}) \cup Marks(taken, {"request"})
    BY <1>1, <1>2, ZenonT(60)
  <2> QED
    BY <2>1, <1>1, <1>2, ServedStep, ZenonT(60)
<1> QED
  BY <1>3 DEF IInv, Typed

LEMMA ServeInv ==
    ASSUME IInv, NEW c \in Con, Serve(c)
    PROVE  IInv'
<1>1. con[c] \in Connection /\ con[c].toServer \in Seq(Cell) /\ con[c].need \in Nat
  BY ZenonT(60) DEF IInv, Typed, Connection
<1>2. Len(con[c].toServer) \in Nat /\ con[c].open /\ UNCHANGED <<available, client, made>>
  BY <1>1, LenProperties, ZenonT(60) DEF Serve, Echo, Respond, RespondMore, Arrived
<1>3. ASSUME NEW n \in Reads(con[c].toServer, ServerBuf)
      PROVE  n \in 1..Len(con[c].toServer)
  BY <1>2, ReadsWithin, ZenonT(60)
<1>4. CASE Echo(c)
  <2> DEFINE taken == SubSeq(con[c].toServer, 1, 1)
  <2>1. Served(c, 1, <<>>, 0, taken) /\ UNCHANGED answered /\ con[c].toServer # <<>>
    BY <1>4 DEF Echo, Arrived
  <2>2. 1 \in 1..Len(con[c].toServer)
    BY <2>1, <1>1, <1>2, EmptySeq
  <2>3. /\ taken \in Seq(Cell) /\ Once(taken)
        /\ \A kinds : Marks(taken, kinds) \subseteq Marks(con[c].rbuf, kinds) \cup Marks(taken, kinds)
    BY <2>2, TakenMarks, ZenonT(60)
  <2>4. <<>> \in Seq(Cell) /\ Once(<<>>) /\ \A kinds : Marks(<<>>, kinds) = {}
    BY NoMarks, EmptySeq
  <2>5. taken = SubSeq(con[c].toServer, 1, 1)
    OBVIOUS
  <2> HIDE DEF taken
  <2>6. con' \in [Con -> Connection] /\ Exclusive' /\ InStep' /\ Settled' /\ OwnAnswer' /\ Tokens'
    <3>1. /\ Marks(<<>>, Both) \cap Marks(taken, Both) = {}
          /\ Marks(<<>>, Both) \cup Marks(taken, Both)
                \subseteq Marks(con[c].rbuf, Both) \cup Marks(taken, Both)
          /\ Marks(<<>>, {"request"}) \cup Marks(taken, {"request"})
                \subseteq Marks(con[c].rbuf, {"request"}) \cup Marks(taken, {"request"})
      BY <2>3, <2>4, SMTT(30)
    <3> QED
      BY <3>1, <2>1, <2>2, <2>3, <2>4, <2>5, <1>2, ServedStep, ZenonT(60)
  <2> QED
    BY <2>1, <2>6, <1>2 DEF IInv, Typed
<1>5. CASE Respond(c)
  <2>1. PICK n \in Reads(con[c].toServer, ServerBuf) \ {1} :
           LET cells == SubSeq(con[c].toServer, 1, n) IN
           \E docSize \in Lengths(Head(cells)) :
              \/ Handle(c, n, Tail(cells))
              \/ Served(c, n, cells, docSize, <<>>) /\ UNCHANGED answered
    BY <1>5, ZenonT(60) DEF Respond
  <2> DEFINE s == SubSeq(con[c].toServer, 1, n)
  <2>2. n \in 1..Len(con[c].toServer)
    BY <1>3
  <2>3. CASE Handle(c, n, Tail(s))
    BY <2>2, <2>3, <1>2, HandleInv, ZenonT(60)
  <2>4. CASE \E docSize \in Lengths(Head(s)) :
                Served(c, n, s, docSize, <<>>) /\ UNCHANGED answered
    <3>1. PICK docSize \in Lengths(Head(s)) :
             Served(c, n, s, docSize, <<>>) /\ UNCHANGED answered
      BY <2>4, ZenonT(60)
    <3>2. s \in Seq(Cell) /\ s # <<>>
      BY <2>2, TakenMarks, ZenonT(60)
    <3>3. docSize \in Nat
      <4>1. Head(s) \in Cell
        BY <3>2, HeadTailProperties
      <4> QED
        BY <4>1, LengthIsNat, ZenonT(60)
    <3> QED
      BY <3>1, <3>3, <2>2, <1>2, KeptInv, ZenonT(60)
  <2> QED
    BY <2>1, <2>3, <2>4, ZenonT(60)
<1>6. CASE RespondMore(c)
  <2>1. PICK n \in Reads(con[c].toServer, ServerBuf) :
           LET cells == con[c].rbuf \o SubSeq(con[c].toServer, 1, n) IN
           \/ Handle(c, n, Tail(cells))
           \/ Served(c, n, cells, con[c].need, <<>>) /\ UNCHANGED answered
    BY <1>6, SMTT(30) DEF RespondMore
  <2> DEFINE s == con[c].rbuf \o SubSeq(con[c].toServer, 1, n)
  <2>2. n \in 1..Len(con[c].toServer)
    BY <1>3
  <2>3. CASE Handle(c, n, Tail(s))
    BY <2>2, <2>3, <1>2, HandleInv, ZenonT(60)
  <2>4. CASE Served(c, n, s, con[c].need, <<>>) /\ UNCHANGED answered
    BY <2>2, <2>4, <1>1, <1>2, KeptInv, ZenonT(60)
  <2> QED
    BY <2>1, <2>3, <2>4
<1> QED
  BY <1>4, <1>5, <1>6 DEF Serve
=============================================================================
