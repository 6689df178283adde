------------------------------- MODULE LogLine -------------------------------
(***************************************************************************)
(* A line of the log (NanoLogLine): the arguments of a log statement are   *)
(* encoded one after the other into a buffer, each behind a byte for its   *)
(* type, and decoded by the thread that writes the file.  The buffer is a  *)
(* part of the line until it becomes too small, and is then allocated.     *)
(*                                                                         *)
(* A byte is what it holds: a type, a value or a part of one, a character, *)
(* or 0, the end of a string.                                              *)
(***************************************************************************)
EXTENDS Naturals, Sequences

CONSTANTS Character,      \* the characters of strings, 0 is none of them
          StackSize,      \* the size of the buffer in the line
          HeapSize        \* the least size of one that is allocated

ASSUME LogLineAssumption ==
    /\ 0 \notin Character
    /\ StackSize \in Nat \ {0} /\ HeapSize \in Nat /\ StackSize < HeapSize

\* Values of fixed size, by the bytes they take.
Width == [char |-> 1, int32 |-> 2, uint32 |-> 2, int64 |-> 3, uint64 |-> 3, double |-> 3,
          literal |-> 3]

\* The time, the thread, the place in the source and the level.
HeaderSize == 1
NanoLogLine(level) == [bytes |-> <<level>>, size |-> StackSize]

LineMax(i, j) == IF i > j THEN i ELSE j

resize_buffer_if_needed(line, additional) ==
    LET required == Len(line.bytes) + additional
    IN  IF required <= line.size THEN line
        ELSE [line EXCEPT !.size = LineMax(IF @ = StackSize THEN HeapSize ELSE 2 * @, required)]

Extended(line, bytes) ==
    [resize_buffer_if_needed(line, Len(bytes)) EXCEPT !.bytes = @ \o bytes]

\* encode(arg, type_id): the type and the bytes of the value.
encode(line, arg) == Extended(line, <<arg.type>> \o [i \in 1..Width[arg.type] |-> arg.value])

\* encode_c_string: nothing for an empty string.
encode_c_string(line, arg) ==
    IF arg.value = <<>> THEN line
    ELSE Extended(line, <<"string">> \o arg.value \o <<0>>)

\* operator<< of a string_view: an empty one takes two bytes.
encode_view(line, arg) == Extended(line, <<"string">> \o arg.value \o <<0>>)

\* operator<<
Put(line, arg) == CASE arg.type = "string" -> encode_c_string(line, arg)
                    [] arg.type = "view"   -> encode_view(line, arg)
                    [] OTHER               -> encode(line, arg)

\* A statement: its arguments, from left to right.
Line(message) ==
    LET line[n \in 0..Len(message.args)] ==
            IF n = 0 THEN NanoLogLine(message.level) ELSE Put(line[n - 1], message.args[n])
    IN  line[Len(message.args)]

\* decode of a string: up to the byte 0.
EndOfString(bytes, i) == CHOOSE j \in i..Len(bytes) :
                             bytes[j] = 0 /\ \A k \in i..(j - 1) : bytes[k] # 0

\* stringify: what the arguments say, in their order; of an empty string nothing.
\* What was written past the end of the buffer is undefined.
stringify(line) ==
    LET b == line.bytes
        text[i \in 1..Len(b) + 1] ==
            IF i = Len(b) + 1 THEN <<>>
            ELSE IF b[i] = "string"
                 THEN LET e == EndOfString(b, i + 1)
                      IN  SubSeq(b, i + 1, e - 1) \o text[e + 1]
                 ELSE <<b[i + 1]>> \o text[i + 1 + Width[b[i]]]
    IN  [level |-> b[1],
         text  |-> IF Len(b) > line.size THEN <<"undefined">> ELSE text[HeaderSize + 1]]

\* What a statement says.
Said(message) ==
    LET says(arg) == IF arg.type \in {"string", "view"} THEN arg.value ELSE <<arg.value>>
        text[n \in 0..Len(message.args)] ==
            IF n = 0 THEN <<>> ELSE text[n - 1] \o says(message.args[n])
    IN  [level |-> message.level, text |-> text[Len(message.args)]]
=============================================================================
