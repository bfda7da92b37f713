---------------------------- MODULE MCIndexStore ----------------------------
(***************************************************************************)
(* Small instances of IndexStore for TLC.                                  *)
(***************************************************************************)
EXTENDS IndexRefinement, TLC

\* Documents with one word, with another, and with both; word 2 occurs twice
\* in the last, so hit counts and list sizes differ.
MCContents ==
    {1 :> <<0>>, 2 :> <<0, 7>>, (1 :> <<3>>) @@ (2 :> <<0>>)}

AllCrashPoints == Steps \ {"down"}

SafeCrashPoints == AllCrashPoints \ Window

AllFaultPoints == {"save_open", "save_words", "zip", "mv_doc", "mv_pos"}

=============================================================================
