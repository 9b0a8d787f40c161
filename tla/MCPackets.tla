------------------------------ MODULE MCPackets ------------------------------
(* A small instance of Packets for TLC: every type is in some message.      *)
EXTENDS Packets

AllFields ==
    (1 :> <<"uint8", "bool", "string">>) @@ (2 :> <<"uint8", "vector">>)
        @@ (3 :> <<"uint16", "double">>) @@ (4 :> <<"uint32", "string32">>)
        @@ (5 :> <<"map">>) @@ (6 :> <<"set">>)
        @@ (7 :> <<"double", "uint8">>) @@ (8 :> <<"double", "string">>)

F64 == <<8, 7, 6, 5, 4, 3, 2, 1>>
Of(cmd, vals) == [cmd |-> cmd, vals |-> vals]

SomeMessages ==
    {Of(1, << <<5>>, <<0>>, <<>> >>), Of(1, << <<5>>, <<1>>, <<6, 7>> >>),
     Of(2, << <<1>>, <<>> >>),
     Of(2, << <<1>>, << <<5, 6>>, <<7, 8>> >> >>),
     Of(3, << <<1, 2>>, F64>>),
     Of(4, << <<1, 2, 3, 4>>, <<2, 0>> >>),
     Of(5, << <<2, 1>> :> <<9>> >>),
     Of(5, << (<<1, 2>> :> <<7>>) @@ (<<2, 1>> :> <<8>>) >>),
     Of(6, << {<<0, 1>>, <<1, 0>>} >>),
     Of(7, <<F64, <<9>> >>),
     Of(8, <<F64, <<>> >>)}

SomeLeftovers == {<<>>, <<6, 0, 0, 0, 9>>}
=============================================================================
