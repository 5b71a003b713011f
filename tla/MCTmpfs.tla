------------------------------ MODULE MCTmpfs -------------------------------
(***************************************************************************)
(* Two names, one of them "."; paths of up to two components, one with a   *)
(* trailing slash and one that is relative; buffers that grow by two bytes.*)
(***************************************************************************)
EXTENDS Tmpfs

Abs(comps) == [abs |-> TRUE, comps |-> comps]

SmallPaths == {Abs(<<>>), Abs(<<"a">>), Abs(<<"a", "">>), Abs(<<".">>), Abs(<<".", "a">>),
               [abs |-> FALSE, comps |-> <<"a">>]}

SmallMounts == {Abs(<<>>), Abs(<<"a">>)}

SmallWrites == {<<"x", "x">>, <<"x", "x", "x">>}

=============================================================================
