---------------------------- MODULE MCUnifyStats ----------------------------
EXTENDS UnifyStats, MCUnifyCtl

\* A function summary record of the statistics file: local function,
\* process, local time, invocations, inclusive and exclusive time.
Rec(f, p, t, c, i, e) ==
    [func |-> f, proc |-> p, time |-> t, count |-> c, incl |-> i, excl |-> e]

\* Stream 1 has a thread (process 65537) and reports function "a" twice
\* for its master thread, the later summary being cumulative; a read may
\* fail after two records.  Stream 3 calls the same function "b".
\* Stream 2 is unavailable and has no files.
S1 == <<Rec("a", 1, 1, 2, 4, 2), Rec("a", 65537, 2, 1, 3, 1), Rec("a", 1, 3, 4, 9, 5)>>
S3 == <<Rec("b", 3, 1, 1, 5, 4)>>

MCStatsFiles ==
    (1 :> ({NoStats, [recs |-> S1, bad |-> FALSE]}
           \cup {[recs |-> SubSeq(S1, 1, 2), bad |-> TRUE]}))
    @@ (2 :> {NoStats})
    @@ (3 :> {[recs |-> S3, bad |-> FALSE]})

MCLocalToGlobal ==
    (1 :> ("a" :> 10 @@ "b" :> 11)) @@ (2 :> ("a" :> 11 @@ "b" :> 10))
    @@ (3 :> ("a" :> 11 @@ "b" :> 10))

\* Marker definitions and instances.  Stream 1 defines two markers and
\* has a marker of its thread (process 65537); stream 3 defines one of
\* them again under another local token, a pair of the same name and
\* another type, and the other again, so its markers are translated through
\* definitions stream 1 minted, when stream 1 has a marker file.  Marker
\* times are not before any stream's first event.
MDef(s, t, n, ty) == [kind |-> "def", stream |-> s, tok |-> t, name |-> n, type |-> ty]
Mark(p, t, tm) == [kind |-> "mark", proc |-> p, tok |-> t, time |-> tm]

M1 == <<MDef(1, 1, "phase", 1), MDef(1, 2, "io", 1), Mark(1, 1, 6), Mark(65537, 2, 6)>>
M3 == <<MDef(3, 1, "io", 1), MDef(3, 2, "phase", 2), MDef(3, 3, "phase", 1),
        Mark(3, 1, 6), Mark(3, 2, 6), Mark(3, 3, 6)>>

MCMarkerFiles == (1 :> {NoMarkers, M1}) @@ (3 :> {M3})
====
