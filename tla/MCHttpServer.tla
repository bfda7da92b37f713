---------------------------- MODULE MCHttpServer ----------------------------
(***************************************************************************)
(* Small instances of HttpServer for TLC.                                  *)
(***************************************************************************)
EXTENDS HttpServer

\* A percent sign and a byte above 127; nothing, which finds nothing.
MCQuestions == {<<97, 37, 228>>, << >>}

\* Longer than the question, so that no reply is taken for it.
MCReply(q) == IF q = << >> THEN << >> ELSE q \o q

\* Every byte, alone and behind a percent sign.
ASSUME BytesRoundTrip ==
    RoundTrips({<<b>> : b \in 0 .. 255} \cup {<<37, b>> : b \in 0 .. 255})

=============================================================================
