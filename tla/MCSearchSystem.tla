--------------------------- MODULE MCSearchSystem ---------------------------
(***************************************************************************)
(* Small instances of SearchSystem for TLC.                                *)
(***************************************************************************)
EXTENDS SearchSystem, TLC

\* Documents with one word, with the other, with both, and without any.
MCContents ==
    {1 :> <<0>>, 2 :> <<0, 7>>, (1 :> <<3>>) @@ (2 :> <<0>>), Nothing}

\* Each word alone, both, and one of them twice.
MCQuestions == {<<1>>, <<2>>, <<1, 2>>, <<2, 1, 2>>}

AllCrashPoints == Steps \ {"down"}

AllFaultPoints == {"save_open", "save_words", "zip", "mv_doc", "mv_pos"}

=============================================================================
