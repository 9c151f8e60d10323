-------------------------- MODULE MCToolArguments --------------------------
(* A tool with one required and one optional argument, called with both    *)
(* and with the required one alone.                                        *)
EXTENDS Arguments

Text == [kind |-> "string", n |-> 0, bytes |-> <<"a">>]
Argument(offset) == [type |-> "String", offset |-> offset, size |-> 2, range |-> <<>>]

MCSchemas == {[fields |-> <<Argument(0), Argument(2)>>, required |-> {1}]}
MCArgumentSets == {[first |-> Text], [first |-> Text, second |-> Text]}

ArgumentsSpec == ArgumentsInit /\ [][CallTool]_argumentVars
=============================================================================
