----------------------------- MODULE MCDataPath -----------------------------
(***************************************************************************)
(* DataPath with packets around the largest that fits an NTB, and NTBs     *)
(* with a bogus entry, with a chain of NDPs, and with a chain that turns   *)
(* back.                                                                   *)
(***************************************************************************)
EXTENDS DataPath

Lens == {2020, 2021}

Ndp(entries, next) == [entries |-> entries, next |-> next]

Shapes ==
    {<<Ndp(<<TRUE, FALSE, TRUE>>, 0)>>,
     <<Ndp(<<TRUE>>, 2), Ndp(<<TRUE>>, 1)>>}
=============================================================================
