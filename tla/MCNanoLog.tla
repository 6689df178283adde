------------------------------ MODULE MCNanoLog ------------------------------
(* Two threads that log four lines, with buffers of two lines. *)
EXTENDS NanoLog, TLC

CONSTANTS t1, t2, a

Threads == {t1, t2}
Arg(type, value) == [type |-> type, value |-> value]
Msg(level, args) == [args |-> args, level |-> level]
Messages ==
    t1 :> <<Msg(1, <<Arg("literal", a), Arg("string", <<a, a>>)>>),
            Msg(2, <<Arg("view", <<>>), Arg("char", a), Arg("string", <<>>),
                     Arg("int32", a), Arg("view", <<a>>), Arg("uint64", a)>>)>>
 @@ t2 :> <<Msg(0, <<Arg("int64", a)>>), Msg(1, <<Arg("double", a)>>), Msg(3, <<>>)>>

FewMessages == t1 :> <<Msg(1, <<>>), Msg(1, <<>>)>> @@ t2 :> <<Msg(1, <<>>)>>
=============================================================================
