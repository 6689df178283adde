---------------------------- MODULE NanoLogProofs ----------------------------
(***************************************************************************)
(* Proofs about the log, for any number of threads, any messages and any   *)
(* size of the buffers.                                                    *)
(***************************************************************************)
EXTENDS NanoLog, FiniteSetTheorems, SequenceTheorems, TLAPS

\* Threads that have an index of the current buffer and have not counted their
\* line, and threads that set up the next buffer.
Pushing   == {t \in Thread : producer[t].at \in {"index", "buffer", "stored"}}
SettingUp == {t \in Thread : producer[t].at \in {"last", "set"}}

Taken == IF writeIndex < BufferSize THEN writeIndex ELSE BufferSize

IsSequence(s) == Len(s) \in Nat /\ s = [i \in 1..Len(s) |-> s[i]]

Typed ==
    /\ writeIndex \in Nat
    /\ DOMAIN producer = Thread
    /\ \A t \in Thread : DOMAIN producer[t] = {"at", "next", "index", "into"}
    /\ IsSequence(buffer)
    /\ \A b \in DOMAIN buffer : /\ DOMAIN buffer[b] = {"line", "count", "freed"}
                                /\ buffer[b].count \in Nat

\* The indexes of the current buffer are taken one by one: every one belongs to
\* a line that was counted or to a thread that is going to count it.
Filling ==
    /\ SettingUp = {} /\ current \in DOMAIN buffer
    /\ buffer[current].count < BufferSize
    /\ buffer[current].count + Cardinality(Pushing) = Taken
    /\ \A t \in Thread : producer[t].at \in {"buffer", "stored"} => producer[t].into = current

\* All were counted: one thread sets up the next buffer, and nobody pushes.
Changing ==
    /\ Pushing = {} /\ writeIndex >= BufferSize
    /\ \E t \in Thread :
          /\ SettingUp = {t}
          /\ producer[t].at = "set" => current \in DOMAIN buffer /\ buffer[current].count = 0

IInv == stale \/ (Typed /\ (Filling \/ Changing))
-----------------------------------------------------------------------------
(* Sequences of anything. *)

LEMMA FunctionIsSequence ==
    ASSUME NEW n \in Nat, NEW f, DOMAIN f = 1..n, f = [i \in 1..n |-> f[i]]
    PROVE  IsSequence(f) /\ Len(f) = n
<1> DEFINE S == {f[i] : i \in 1..n}
<1>1. f \in [1..n -> S]
  OBVIOUS
<1> HIDE DEF S
<1>2. f \in Seq(S)
  BY <1>1, SeqDef
<1>3. Len(f) \in Nat /\ DOMAIN f = 1..Len(f)
  BY <1>2, LenProperties
<1>4. Len(f) = n
  BY <1>3
<1> QED
  BY <1>3, <1>4 DEF IsSequence

LEMMA AppendToSequence ==
    ASSUME NEW s, IsSequence(s), NEW e
    PROVE  /\ IsSequence(Append(s, e)) /\ Len(Append(s, e)) = Len(s) + 1
           /\ DOMAIN s = 1..Len(s) /\ DOMAIN Append(s, e) = 1..(Len(s) + 1)
           /\ \A i \in 1..Len(s) : Append(s, e)[i] = s[i]
           /\ Append(s, e)[Len(s) + 1] = e
<1> DEFINE S == {s[i] : i \in 1..Len(s)} \cup {e}
<1>1. Len(s) \in Nat /\ s \in [1..Len(s) -> S] /\ e \in S
  BY DEF IsSequence
<1> HIDE DEF S
<1>2. s \in Seq(S)
  BY <1>1, SeqDef
<1>3. /\ Append(s, e) \in Seq(S) /\ Len(Append(s, e)) = Len(s) + 1
      /\ \A i \in 1..Len(s) : Append(s, e)[i] = s[i]
      /\ Append(s, e)[Len(s) + 1] = e
  BY <1>1, <1>2, AppendProperties
<1>4. Append(s, e) \in [1..(Len(s) + 1) -> S]
  BY <1>1, <1>3, LenProperties, ZenonT(60)
<1> QED
  BY <1>1, <1>2, <1>3, <1>4, LenProperties, ZenonT(60) DEF IsSequence
-----------------------------------------------------------------------------
(* The steps of the threads. *)

\* The buffers keep their counts.
SameCounts ==
    /\ DOMAIN buffer' = DOMAIN buffer /\ IsSequence(buffer')
    /\ \A b \in DOMAIN buffer : /\ DOMAIN buffer'[b] = {"line", "count", "freed"}
                                /\ buffer'[b].count = buffer[b].count

\* A buffer is given a line, or is freed.
LEMMA ExceptKeepsCounts ==
    ASSUME Typed, NEW b, NEW f, f # "count", NEW v, buffer' = [buffer EXCEPT ![b] = [@ EXCEPT ![f] = v]]
    PROVE  SameCounts
<1>1. Len(buffer) \in Nat /\ DOMAIN buffer = 1..Len(buffer)
  BY DEF Typed, IsSequence
<1>2. DOMAIN buffer' = 1..Len(buffer) /\ buffer' = [i \in 1..Len(buffer) |-> buffer'[i]]
  BY <1>1, ZenonT(60)
<1>3. IsSequence(buffer')
  BY <1>1, <1>2, FunctionIsSequence
<1>4. \A c \in DOMAIN buffer : /\ DOMAIN buffer'[c] = {"line", "count", "freed"}
                               /\ buffer'[c].count = buffer[c].count
  BY <1>1 DEF Typed
<1> QED
  BY <1>1, <1>2, <1>3, <1>4 DEF SameCounts

\* A step that changes neither who is where, as far as it matters, nor what was
\* counted.
LEMMA NothingMoves ==
    ASSUME IInv, ~ stale', stale' = stale, SameCounts \/ UNCHANGED buffer,
           UNCHANGED <<writeIndex, current, producer>>
    PROVE  IInv'
<1>1. ~ stale /\ Typed /\ (Filling \/ Changing)
  BY DEF IInv
<1>2. SameCounts
  BY <1>1 DEF SameCounts, Typed
<1>3. Typed'
  BY <1>1, <1>2 DEF Typed, SameCounts
<1>4. Pushing' = Pushing /\ SettingUp' = SettingUp /\ Taken' = Taken
  BY DEF Pushing, SettingUp, Taken
<1>5. CASE Filling
  BY <1>2, <1>3, <1>4, <1>5 DEF Filling, SameCounts, IInv
<1>6. CASE Changing
  BY <1>2, <1>3, <1>4, <1>6 DEF Changing, SameCounts, IInv
<1> QED
  BY <1>1, <1>5, <1>6

\* One thread moves.
LEMMA Moved ==
    ASSUME Typed, NEW t \in Thread, NEW p, producer' = [producer EXCEPT ![t] = p],
           DOMAIN p = {"at", "next", "index", "into"}
    PROVE  /\ DOMAIN producer' = Thread
           /\ \A u \in Thread : DOMAIN producer'[u] = {"at", "next", "index", "into"}
           /\ producer'[t] = p /\ \A u \in Thread \ {t} : producer'[u] = producer[u]
           /\ Pushing' = IF p.at \in {"index", "buffer", "stored"} THEN Pushing \cup {t} ELSE Pushing \ {t}
           /\ SettingUp' = IF p.at \in {"last", "set"} THEN SettingUp \cup {t} ELSE SettingUp \ {t}
<1>1. /\ DOMAIN producer' = Thread
      /\ producer'[t] = p /\ \A u \in Thread \ {t} : producer'[u] = producer[u]
  BY DEF Typed
<1>2. \A u \in Thread : DOMAIN producer'[u] = {"at", "next", "index", "into"}
  BY <1>1 DEF Typed
<1>3. Pushing' = IF p.at \in {"index", "buffer", "stored"} THEN Pushing \cup {t} ELSE Pushing \ {t}
  BY <1>1 DEF Pushing
<1>4. SettingUp' = IF p.at \in {"last", "set"} THEN SettingUp \cup {t} ELSE SettingUp \ {t}
  BY <1>1 DEF SettingUp
<1> QED
  BY <1>1, <1>2, <1>3, <1>4

LEMMA PushingFinite == IsFiniteSet(Pushing) /\ Cardinality(Pushing) \in Nat
<1>1. Pushing \subseteq Thread
  BY DEF Pushing
<1> QED
  BY <1>1, NanoLogAssumption, FS_Subset, FS_CardinalityType

\* A thread moves and keeps its index, if it has one; the counts stay.
LEMMA KeepsIndex ==
    ASSUME IInv, ~ stale', stale' = stale, NEW t \in Thread, NEW p,
           producer' = [producer EXCEPT ![t] = p],
           DOMAIN p = {"at", "next", "index", "into"},
           p.at \in {"index", "buffer", "stored"} <=> producer[t].at \in {"index", "buffer", "stored"},
           p.at \notin {"last", "set"}, producer[t].at \notin {"last", "set"},
           p.at \in {"buffer", "stored"} =>
              p.into = current \/ (producer[t].at \in {"buffer", "stored"} /\ p.into = producer[t].into),
           SameCounts \/ UNCHANGED buffer, UNCHANGED <<writeIndex, current>>
    PROVE  IInv'
<1>1. ~ stale /\ Typed /\ (Filling \/ Changing)
  BY DEF IInv
<1>2. SameCounts
  BY <1>1 DEF SameCounts, Typed
<1>3. /\ DOMAIN producer' = Thread
      /\ \A u \in Thread : DOMAIN producer'[u] = {"at", "next", "index", "into"}
      /\ producer'[t] = p /\ \A u \in Thread \ {t} : producer'[u] = producer[u]
      /\ Pushing' = IF p.at \in {"index", "buffer", "stored"} THEN Pushing \cup {t} ELSE Pushing \ {t}
      /\ SettingUp' = IF p.at \in {"last", "set"} THEN SettingUp \cup {t} ELSE SettingUp \ {t}
  BY <1>1, Moved, ZenonT(60)
<1>4. Pushing' = Pushing /\ SettingUp' = SettingUp /\ Taken' = Taken
  <2>1. t \in Pushing <=> p.at \in {"index", "buffer", "stored"}
    BY DEF Pushing
  <2>2. t \notin SettingUp
    BY DEF SettingUp
  <2>3. Taken' = Taken
    BY DEF Taken
  <2>4. Pushing' = Pushing
    BY <1>3, <2>1
  <2>5. SettingUp' = SettingUp
    BY <1>3, <2>2
  <2> QED
    BY <2>3, <2>4, <2>5
<1>5. Typed'
  BY <1>1, <1>2, <1>3 DEF Typed, SameCounts
<1>6. CASE Filling
  <2>1. \A u \in Thread : producer'[u].at \in {"buffer", "stored"} => producer'[u].into = current
    BY <1>3, <1>6 DEF Filling
  <2> QED
    BY <1>2, <1>4, <1>5, <1>6, <2>1 DEF Filling, SameCounts, IInv
<1>7. CASE Changing
  <2>1. PICK u \in Thread : /\ SettingUp = {u}
                            /\ producer[u].at = "set" => current \in DOMAIN buffer /\ buffer[current].count = 0
    BY <1>7 DEF Changing
  <2>2. u # t
    BY <2>1 DEF SettingUp
  <2>3. producer'[u] = producer[u]
    BY <1>3, <2>2
  <2>4. Changing'
    BY <1>2, <1>4, <1>7, <2>1, <2>3 DEF Changing, SameCounts
  <2> QED
    BY <1>5, <2>4 DEF IInv
<1> QED
  BY <1>1, <1>6, <1>7

LEMMA SkipInv == ASSUME IInv, ~ stale', NEW t \in Thread, Skip(t) PROVE IInv'
<1>1. /\ producer' = [producer EXCEPT ![t] = Out(producer[t].next + 1)]
      /\ producer[t].at = "out" /\ UNCHANGED <<writeIndex, current, buffer, stale>>
  BY DEF Skip, Runs
<1>2. /\ DOMAIN Out(producer[t].next + 1) = {"at", "next", "index", "into"}
      /\ Out(producer[t].next + 1).at = "out"
  BY DEF Out
<1> QED
  BY <1>1, <1>2, KeepsIndex, ZenonT(60)

LEMMA SpinInv == ASSUME IInv, ~ stale', NEW t \in Thread, Spin(t) PROVE IInv'
<1> DEFINE p == [producer[t] EXCEPT !.at = "out"]
<1>1. /\ producer' = [producer EXCEPT ![t] = p]
      /\ producer[t].at = "spin" /\ UNCHANGED <<writeIndex, current, buffer, stale>>
  BY DEF Spin, Runs, Moves
<1>2. DOMAIN p = {"at", "next", "index", "into"} /\ p.at = "out"
  BY DEF IInv, Typed, Spin
<1> HIDE DEF p
<1> QED
  BY <1>1, <1>2, KeepsIndex, ZenonT(60)

LEMMA LoadBufferInv == ASSUME IInv, ~ stale', NEW t \in Thread, LoadBuffer(t) PROVE IInv'
<1> DEFINE p == [producer[t] EXCEPT !.at = "buffer", !.into = current]
<1>1. producer[t].at = "index" /\ UNCHANGED <<writeIndex, current, buffer, stale>>
  BY DEF LoadBuffer, Runs
<1>2. DOMAIN producer = Thread /\ DOMAIN producer[t] = {"at", "next", "index", "into"}
  BY <1>1 DEF IInv, Typed
<1>3. producer' = [producer EXCEPT ![t] = p]
  BY <1>2, ZenonT(60) DEF LoadBuffer
<1>4. DOMAIN p = {"at", "next", "index", "into"} /\ p.at = "buffer" /\ p.into = current
  BY <1>2
<1> HIDE DEF p
<1> QED
  BY <1>1, <1>3, <1>4, KeepsIndex, ZenonT(60)

LEMMA StoreLineInv == ASSUME IInv, ~ stale', NEW t \in Thread, StoreLine(t) PROVE IInv'
<1> DEFINE p == [producer[t] EXCEPT !.at = "stored"]
           b == producer[t].into
           new == [buffer[b].line EXCEPT ![producer[t].index] =
                      [by |-> t, line |-> Line(Message[t][producer[t].next])]]
<1>1. /\ producer' = [producer EXCEPT ![t] = p]
      /\ producer[t].at = "buffer" /\ UNCHANGED <<writeIndex, current, stale>>
  BY DEF StoreLine, Runs, Moves
<1>2. buffer' = [buffer EXCEPT ![b] = [@ EXCEPT !["line"] = new]]
  BY ZenonT(60) DEF StoreLine
<1>3. ~ stale /\ Typed
  BY <1>1 DEF IInv
<1>4. DOMAIN p = {"at", "next", "index", "into"} /\ p.at = "stored" /\ p.into = producer[t].into
  BY <1>3 DEF Typed
<1>5. SameCounts
  <2> HIDE DEF new, b
  <2>1. "line" # "count"
    OBVIOUS
  <2> QED
    BY <1>2, <1>3, <2>1, ExceptKeepsCounts, ZenonT(60)
<1> HIDE DEF p
<1> QED
  BY <1>1, <1>4, <1>5, KeepsIndex, ZenonT(60)

LEMMA TakeIndexInv == ASSUME IInv, ~ stale', NEW t \in Thread, TakeIndex(t) PROVE IInv'
<1> DEFINE p == [producer[t] EXCEPT !.index = writeIndex,
                                    !.at = IF writeIndex < BufferSize THEN "index" ELSE "spin"]
<1>1. /\ writeIndex' = writeIndex + 1 /\ producer[t].at = "out"
      /\ UNCHANGED <<current, buffer, stale>>
  BY DEF TakeIndex, Runs
<1>2. ~ stale /\ Typed /\ (Filling \/ Changing)
  BY <1>1 DEF IInv
<1>3. producer' = [producer EXCEPT ![t] = p]
  BY DEF TakeIndex
<1>4. /\ DOMAIN p = {"at", "next", "index", "into"}
      /\ p.at = IF writeIndex < BufferSize THEN "index" ELSE "spin"
  BY <1>2 DEF Typed
<1> HIDE DEF p
<1>5. /\ DOMAIN producer' = Thread
      /\ \A u \in Thread : DOMAIN producer'[u] = {"at", "next", "index", "into"}
      /\ producer'[t] = p /\ \A u \in Thread \ {t} : producer'[u] = producer[u]
      /\ Pushing' = IF p.at \in {"index", "buffer", "stored"} THEN Pushing \cup {t} ELSE Pushing \ {t}
      /\ SettingUp' = IF p.at \in {"last", "set"} THEN SettingUp \cup {t} ELSE SettingUp \ {t}
  BY <1>2, <1>3, <1>4, Moved, ZenonT(60)
<1>6. t \notin Pushing /\ t \notin SettingUp
  BY <1>1 DEF Pushing, SettingUp
<1>7. SettingUp' = SettingUp
  BY <1>4, <1>5, <1>6
<1>8. Typed'
  BY <1>1, <1>2, <1>5 DEF Typed
<1>9. writeIndex \in Nat /\ BufferSize \in Nat
  BY <1>2, NanoLogAssumption DEF Typed
<1>10. CASE Filling
  <2>1. Cardinality(Pushing') = IF writeIndex < BufferSize THEN Cardinality(Pushing) + 1 ELSE Cardinality(Pushing)
    <3>1. writeIndex < BufferSize => Pushing' = Pushing \cup {t}
      BY <1>4, <1>5
    <3>2. ~ (writeIndex < BufferSize) => Pushing' = Pushing
      BY <1>4, <1>5, <1>6
    <3>3. Cardinality(Pushing \cup {t}) = Cardinality(Pushing) + 1
      BY <1>6, PushingFinite, FS_AddElement, ZenonT(60)
    <3> QED
      BY <3>1, <3>2, <3>3
  <2>2. Taken' = IF writeIndex < BufferSize THEN Taken + 1 ELSE Taken
    BY <1>1, <1>9 DEF Taken
  <2>3. buffer[current].count \in Nat /\ Taken \in Nat
    BY <1>2, <1>9, <1>10 DEF Filling, Typed, Taken
  <2>4. buffer[current].count + Cardinality(Pushing') = Taken'
    BY <1>10, <2>1, <2>2, <2>3, PushingFinite DEF Filling
  <2>5. \A u \in Thread : producer'[u].at \in {"buffer", "stored"} => producer'[u].into = current
    BY <1>4, <1>5, <1>10 DEF Filling
  <2> QED
    BY <1>1, <1>7, <1>8, <1>10, <2>4, <2>5 DEF Filling, IInv
<1>11. CASE Changing
  <2>1. Pushing' = Pushing
    BY <1>4, <1>5, <1>6, <1>9, <1>11 DEF Changing
  <2>2. PICK u \in Thread : /\ SettingUp = {u}
                            /\ producer[u].at = "set" => current \in DOMAIN buffer /\ buffer[current].count = 0
    BY <1>11 DEF Changing
  <2>3. producer'[u] = producer[u]
    BY <1>5, <1>6, <2>2
  <2>4. writeIndex' >= BufferSize
    BY <1>1, <1>9, <1>11 DEF Changing
  <2>5. Changing'
    BY <1>1, <1>7, <1>11, <2>1, <2>2, <2>3, <2>4 DEF Changing
  <2> QED
    BY <1>8, <2>5 DEF IInv
<1> QED
  BY <1>2, <1>10, <1>11

LEMMA CountLineInv == ASSUME IInv, ~ stale', NEW t \in Thread, CountLine(t) PROVE IInv'
<1> DEFINE b == producer[t].into
           n == buffer[b].count
           p == IF n + 1 = BufferSize THEN [producer[t] EXCEPT !.at = "last"]
                                      ELSE Out(producer[t].next + 1)
<1>1. PICK last \in IF buffer[b].freed THEN BOOLEAN ELSE {n + 1 = BufferSize} :
         /\ buffer' = [buffer EXCEPT ![b].count = @ + 1]
         /\ stale' = (stale \/ buffer[b].freed)
         /\ producer' = [producer EXCEPT ![t] = IF last THEN [@ EXCEPT !.at = "last"]
                                                       ELSE Out(@.next + 1)]
  BY ZenonT(60) DEF CountLine
<1>2. UNCHANGED <<writeIndex, current>> /\ producer[t].at = "stored"
  BY DEF CountLine, Runs
<1>3. ~ stale /\ ~ buffer[b].freed /\ Typed /\ (Filling \/ Changing)
  BY <1>1, ZenonT(60) DEF IInv
<1>4. last <=> n + 1 = BufferSize
  BY <1>1, <1>3, ZenonT(60)
<1>5. producer' = [producer EXCEPT ![t] = p]
  BY <1>1, <1>4, ZenonT(60)
<1>6. /\ DOMAIN p = {"at", "next", "index", "into"}
      /\ p.at = IF n + 1 = BufferSize THEN "last" ELSE "out"
  BY <1>3 DEF Typed, Out
<1> HIDE DEF p
<1>7. /\ DOMAIN producer' = Thread
      /\ \A u \in Thread : DOMAIN producer'[u] = {"at", "next", "index", "into"}
      /\ producer'[t] = p /\ \A u \in Thread \ {t} : producer'[u] = producer[u]
      /\ Pushing' = IF p.at \in {"index", "buffer", "stored"} THEN Pushing \cup {t} ELSE Pushing \ {t}
      /\ SettingUp' = IF p.at \in {"last", "set"} THEN SettingUp \cup {t} ELSE SettingUp \ {t}
  BY <1>3, <1>5, <1>6, Moved, ZenonT(60)
<1>8. t \in Pushing
  BY <1>2 DEF Pushing
<1>9. Filling /\ b = current /\ current \in DOMAIN buffer /\ n \in Nat /\ n < BufferSize
  <2>1. Filling
    BY <1>3, <1>8 DEF Changing
  <2> QED
    BY <1>2, <1>3, <2>1 DEF Filling, Typed
<1>10. /\ Cardinality(Pushing') = Cardinality(Pushing) - 1
       /\ Cardinality(Pushing) \in Nat \ {0}
       /\ Pushing' = Pushing \ {t} /\ IsFiniteSet(Pushing')
  <2>1. Pushing' = Pushing \ {t}
    BY <1>6, <1>7
  <2>2. /\ IsFiniteSet(Pushing \ {t}) /\ Cardinality(Pushing \ {t}) = Cardinality(Pushing) - 1
    BY <1>8, PushingFinite, FS_RemoveElement, ZenonT(60)
  <2>3. Cardinality(Pushing \ {t}) \in Nat
    BY <2>2, FS_CardinalityType
  <2> QED
    BY <2>1, <2>2, <2>3, PushingFinite
<1>11. Len(buffer) \in Nat /\ DOMAIN buffer = 1..Len(buffer)
  BY <1>3 DEF Typed, IsSequence
<1>12. /\ DOMAIN buffer' = 1..Len(buffer) /\ buffer' = [i \in 1..Len(buffer) |-> buffer'[i]]
       /\ buffer'[current].count = n + 1
       /\ \A c \in DOMAIN buffer : /\ DOMAIN buffer'[c] = {"line", "count", "freed"}
                                   /\ buffer'[c].count \in Nat
  <2>1. buffer' = [buffer EXCEPT ![b].count = @ + 1]
    BY <1>1
  <2>2. DOMAIN buffer' = 1..Len(buffer) /\ buffer' = [i \in 1..Len(buffer) |-> buffer'[i]]
    BY <1>11, <2>1, ZenonT(60)
  <2>3. b \in DOMAIN buffer /\ DOMAIN buffer[b] = {"line", "count", "freed"}
    BY <1>3, <1>9 DEF Typed
  <2>4. buffer'[b] = [buffer[b] EXCEPT !.count = n + 1] /\ \A c \in DOMAIN buffer : c # b => buffer'[c] = buffer[c]
    BY <2>1, <2>3
  <2>5. DOMAIN buffer'[b] = {"line", "count", "freed"} /\ buffer'[b].count = n + 1
    BY <2>3, <2>4
  <2>6. n + 1 \in Nat
    BY <1>9
  <2> QED
    BY <1>3, <1>9, <2>2, <2>4, <2>5, <2>6, ZenonT(60) DEF Typed
<1>13. Typed'
  BY <1>2, <1>3, <1>7, <1>11, <1>12, FunctionIsSequence, ZenonT(60) DEF Typed
<1>14. Taken' = Taken /\ Taken \in Nat /\ Taken <= BufferSize /\ n + Cardinality(Pushing) = Taken
  <2>1. n + Cardinality(Pushing) = Taken
    BY <1>9, ZenonT(60) DEF Filling
  <2>2. writeIndex \in Nat /\ writeIndex' = writeIndex
    BY <1>2, <1>3, ZenonT(60) DEF Typed
  <2>3. BufferSize \in Nat
    BY NanoLogAssumption, ZenonT(60)
  <2>4. Taken' = Taken /\ Taken \in Nat /\ Taken <= BufferSize
    BY <2>2, <2>3 DEF Taken
  <2> QED
    BY <2>1, <2>4, ZenonT(60)
<1>15. CASE n + 1 = BufferSize
  <2>1. Cardinality(Pushing') = 0 /\ Taken = BufferSize
    BY <1>9, <1>10, <1>14, <1>15, NanoLogAssumption
  <2>2. Pushing' = {}
    BY <1>10, <2>1, FS_EmptySet
  <2>3. SettingUp' = {t} /\ producer'[t].at # "set"
    BY <1>6, <1>7, <1>9, <1>15 DEF Filling
  <2>4. writeIndex' >= BufferSize
    BY <1>2, <1>3, <2>1, NanoLogAssumption DEF Taken, Typed
  <2>5. Changing'
    BY <2>2, <2>3, <2>4 DEF Changing
  <2> QED
    BY <1>13, <2>5 DEF IInv
<1>16. CASE n + 1 # BufferSize
  <2>1. SettingUp' = {}
    BY <1>6, <1>7, <1>9, <1>16 DEF Filling
  <2>2. \A u \in Thread : producer'[u].at \in {"buffer", "stored"} => producer'[u].into = current
    BY <1>6, <1>7, <1>9, <1>16 DEF Filling
  <2>3. n + 1 < BufferSize /\ n + 1 + Cardinality(Pushing') = Taken'
    BY <1>9, <1>10, <1>14, <1>16, NanoLogAssumption
  <2>4. Filling'
    BY <1>2, <1>9, <1>11, <1>12, <2>1, <2>2, <2>3 DEF Filling
  <2> QED
    BY <1>13, <2>4 DEF IInv
<1> QED
  BY <1>15, <1>16

LEMMA SetCurrentInv == ASSUME IInv, ~ stale', NEW t \in Thread, SetCurrent(t) PROVE IInv'
<1> DEFINE p == [producer[t] EXCEPT !.at = "set", !.into = Len(buffer) + 1]
<1>1. /\ buffer' = Append(buffer, NewBuffer) /\ current' = Len(buffer) + 1
      /\ producer[t].at = "last" /\ UNCHANGED <<writeIndex, stale>>
      /\ producer' = [producer EXCEPT ![t].at = "set", ![t].into = Len(buffer) + 1]
  BY DEF SetCurrent, Runs
<1>2. ~ stale /\ Typed /\ (Filling \/ Changing)
  BY <1>1 DEF IInv
<1>3. t \in SettingUp
  BY <1>1 DEF SettingUp
<1>4. Changing /\ SettingUp = {t}
  BY <1>2, <1>3 DEF Filling, Changing
<1>5. producer' = [producer EXCEPT ![t] = p]
  BY <1>1, <1>2, ZenonT(60) DEF Typed
<1>6. DOMAIN p = {"at", "next", "index", "into"} /\ p.at = "set"
  BY <1>2 DEF Typed
<1> HIDE DEF p
<1>7. /\ DOMAIN producer' = Thread
      /\ \A u \in Thread : DOMAIN producer'[u] = {"at", "next", "index", "into"}
      /\ Pushing' = IF p.at \in {"index", "buffer", "stored"} THEN Pushing \cup {t} ELSE Pushing \ {t}
      /\ SettingUp' = IF p.at \in {"last", "set"} THEN SettingUp \cup {t} ELSE SettingUp \ {t}
  BY <1>2, <1>5, <1>6, Moved, ZenonT(60)
<1>8. Pushing' = {} /\ SettingUp' = {t}
  BY <1>4, <1>6, <1>7 DEF Changing
<1>9. IsSequence(buffer) /\ Len(buffer) \in Nat
  BY <1>2 DEF Typed, IsSequence
<1>10. /\ IsSequence(buffer') /\ DOMAIN buffer' = 1..(Len(buffer) + 1) /\ DOMAIN buffer = 1..Len(buffer)
       /\ \A i \in 1..Len(buffer) : buffer'[i] = buffer[i]
       /\ buffer'[Len(buffer) + 1] = NewBuffer
  BY <1>1, <1>9, AppendToSequence
<1>11. DOMAIN NewBuffer = {"line", "count", "freed"} /\ NewBuffer.count = 0
  BY DEF NewBuffer
<1>12. \A b \in DOMAIN buffer' : DOMAIN buffer'[b] = {"line", "count", "freed"} /\ buffer'[b].count \in Nat
  <2>1. \A b \in DOMAIN buffer' : b \in 1..Len(buffer) \/ b = Len(buffer) + 1
    BY <1>9, <1>10
  <2>2. \A b \in 1..Len(buffer) : DOMAIN buffer[b] = {"line", "count", "freed"} /\ buffer[b].count \in Nat
    BY <1>2, <1>10 DEF Typed
  <2> QED
    BY <1>10, <1>11, <2>1, <2>2
<1>13. Typed'
  BY <1>1, <1>2, <1>7, <1>10, <1>12 DEF Typed
<1>14. current' \in DOMAIN buffer' /\ buffer'[current'].count = 0
  BY <1>1, <1>9, <1>10, <1>11
<1>15. Changing'
  BY <1>1, <1>4, <1>8, <1>14 DEF Changing
<1> QED
  BY <1>13, <1>15 DEF IInv

LEMMA PublishBufferInv == ASSUME IInv, ~ stale', NEW t \in Thread, PublishBuffer(t) PROVE IInv'
<1> DEFINE p == Out(producer[t].next + 1)
<1>1. /\ writeIndex' = 0 /\ producer' = [producer EXCEPT ![t] = p]
      /\ producer[t].at = "set" /\ UNCHANGED <<current, buffer, stale>>
  BY DEF PublishBuffer, Runs
<1>2. ~ stale /\ Typed /\ (Filling \/ Changing)
  BY <1>1 DEF IInv
<1>3. t \in SettingUp
  BY <1>1 DEF SettingUp
<1>4. /\ Pushing = {} /\ SettingUp = {t}
      /\ current \in DOMAIN buffer /\ buffer[current].count = 0
  BY <1>1, <1>2, <1>3 DEF Filling, Changing
<1>5. DOMAIN p = {"at", "next", "index", "into"} /\ p.at = "out"
  BY DEF Out
<1> HIDE DEF p
<1>6. /\ DOMAIN producer' = Thread
      /\ \A u \in Thread : DOMAIN producer'[u] = {"at", "next", "index", "into"}
      /\ producer'[t] = p /\ \A u \in Thread \ {t} : producer'[u] = producer[u]
      /\ Pushing' = IF p.at \in {"index", "buffer", "stored"} THEN Pushing \cup {t} ELSE Pushing \ {t}
      /\ SettingUp' = IF p.at \in {"last", "set"} THEN SettingUp \cup {t} ELSE SettingUp \ {t}
  BY <1>1, <1>2, <1>5, Moved, ZenonT(60)
<1>7. Pushing' = {} /\ SettingUp' = {}
  BY <1>4, <1>5, <1>6
<1>8. Cardinality(Pushing') = 0 /\ Taken' = 0
  BY <1>1, <1>7, NanoLogAssumption, FS_EmptySet DEF Taken
<1>9. \A u \in Thread : producer'[u].at \notin {"buffer", "stored"}
  BY <1>7 DEF Pushing
<1>10. Typed'
  BY <1>1, <1>2, <1>6 DEF Typed
<1>11. Filling'
  BY <1>1, <1>4, <1>7, <1>8, <1>9, NanoLogAssumption DEF Filling
<1> QED
  BY <1>10, <1>11 DEF IInv
-----------------------------------------------------------------------------
(* The thread of the logger, and invariance. *)

LEMMA PopLineInv == ASSUME IInv, ~ stale', PopLine PROVE IInv'
<1>1. UNCHANGED <<writeIndex, current, producer, stale>>
  BY DEF PopLine
<1>2. ~ stale /\ Typed
  BY <1>1 DEF IInv
<1>3. CASE UNCHANGED buffer
  BY <1>1, <1>3, NothingMoves
<1>4. CASE buffer' = [buffer EXCEPT ![Head(queue)].freed = TRUE]
  <2>1. buffer' = [buffer EXCEPT ![Head(queue)] = [@ EXCEPT !["freed"] = TRUE]]
    BY <1>4, ZenonT(60)
  <2>2. "freed" # "count"
    OBVIOUS
  <2>3. SameCounts
    BY <1>2, <2>1, <2>2, ExceptKeepsCounts, ZenonT(60)
  <2> QED
    BY <1>1, <2>3, NothingMoves
<1> QED
  BY <1>3, <1>4 DEF PopLine

LEMMA InitInv == Init => IInv
<1>1. SUFFICES ASSUME Init PROVE IInv
  OBVIOUS
<1>2. /\ writeIndex = 0 /\ current = 1 /\ buffer = <<NewBuffer>>
      /\ producer = [t \in Thread |-> Out(1)]
  BY <1>1 DEF Init
<1>3. Pushing = {} /\ SettingUp = {} /\ \A t \in Thread : producer[t].at = "out"
  BY <1>2 DEF Pushing, SettingUp, Out
<1>4. Cardinality(Pushing) = 0 /\ Taken = 0
  BY <1>2, <1>3, NanoLogAssumption, FS_EmptySet DEF Taken
<1>5. DOMAIN NewBuffer = {"line", "count", "freed"} /\ NewBuffer.count = 0
  BY DEF NewBuffer
<1>6. Len(buffer) = 1 /\ DOMAIN buffer = 1..1 /\ buffer[1] = NewBuffer
  BY <1>2
<1>7. buffer = [i \in 1..1 |-> buffer[i]]
  BY <1>2
<1>8. Typed
  BY <1>2, <1>5, <1>6, <1>7 DEF Typed, IsSequence, Out
<1>9. Filling
  BY <1>2, <1>3, <1>4, <1>5, <1>6, NanoLogAssumption DEF Filling
<1> QED
  BY <1>8, <1>9 DEF IInv

LEMMA StepInv == IInv /\ [Next]_vars => IInv'
<1>1. SUFFICES ASSUME IInv, [Next]_vars, ~ stale' PROVE IInv'
  BY DEF IInv
<1>2. ASSUME NEW t \in Thread, Push(t) PROVE IInv'
  BY <1>1, <1>2, SkipInv, TakeIndexInv, SpinInv, LoadBufferInv, StoreLineInv, CountLineInv,
     SetCurrentInv, PublishBufferInv DEF Push
<1>3. ASSUME NextReadBuffer \/ WriteLine \/ Ends \/ Ready \/ Shutdown \/ UNCHANGED vars PROVE IInv'
  <2>1. UNCHANGED <<writeIndex, current, producer, stale, buffer>>
    BY <1>3 DEF NextReadBuffer, WriteLine, Ends, Ready, Shutdown, vars, writerVars
  <2> QED
    BY <1>1, <2>1, NothingMoves
<1> QED
  BY <1>1, <1>2, <1>3, PopLineInv DEF Next, Pop

LEMMA Invariance == Spec => []IInv
BY InitInv, StepInv, PTL DEF Spec
-----------------------------------------------------------------------------
(* The theorem. *)

\* push never waits for nobody: when the indexes of a buffer are used up, some
\* thread is still to count its line or to set up the next buffer, however many
\* threads log and however large a buffer is, as long as no thread has counted
\* in a buffer that was freed.
THEOREM NextBufferIsSetUp == Spec => []SomeoneSetsUp
<1>1. IInv => SomeoneSetsUp
  <2>1. SUFFICES ASSUME IInv, ~ stale, writeIndex >= BufferSize
                 PROVE  \E t \in Thread : producer[t].at \notin {"out", "spin"}
    BY DEF SomeoneSetsUp
  <2>2. Typed /\ (Filling \/ Changing)
    BY <2>1 DEF IInv
  <2>3. CASE Filling
    <3>1. Taken = BufferSize /\ buffer[current].count \in Nat /\ BufferSize \in Nat
      BY <2>1, <2>2, <2>3, NanoLogAssumption DEF Taken, Typed, Filling
    <3>2. Cardinality(Pushing) # 0
      BY <2>3, <3>1, PushingFinite DEF Filling
    <3>3. Pushing # {}
      BY <3>2, FS_EmptySet
    <3> QED
      BY <3>3 DEF Pushing
  <2>4. CASE Changing
    BY <2>4 DEF Changing, SettingUp
  <2> QED
    BY <2>2, <2>3, <2>4
<1> QED
  BY <1>1, Invariance, PTL
=============================================================================
