---------------------------- MODULE MCChatImport ----------------------------
(* Two files: one transcript, two sessions, a copy, a divergent copy, and two *)
(* identical transcripts that name no session.                                *)
EXTENDS ChatImport

MCFiles == <<"f1", "f2">>

\* Roots that overlap: the first file is listed twice.
MCOverlapping == <<"f1", "f1">>

MCSids == {"s1", "s2", "f1", "f2"}

T(s, v, n) == [sid |-> s, ver |-> v, size |-> n]

Two(a, b) == [f \in {"f1", "f2"} |-> IF f = "f1" THEN a ELSE b]

MCOneFile == {[f \in {"f1"} |-> T("s1", 1, 2)]}

MCFirstContents ==
    {Two(T("s1", 1, 2), None), Two(T("s1", 1, 2), T("s2", 2, 2)), Two(T("s1", 1, 2), T("s1", 1, 2)),
     Two(T("s1", 1, 2), T("s1", 2, 2)), Two(T(None, 1, 2), T(None, 1, 2))}
=============================================================================
