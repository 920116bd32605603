------------------------------ MODULE UnifyCtl ------------------------------
(***************************************************************************)
(* The unify control file and the time correction of vtunify              *)
(* (src/tools/vtunify/vt_unify.cc): getUnifyControls reads <prefix>.uctl  *)
(* on MASTER, getMinStartTime takes the minimum corrected start of every   *)
(* stream, and CorrectTime maps a local timestamp to global time.          *)
(*                                                                         *)
(* The file is the sequence of the pieces in.getline(buffer, ':') returns, *)
(* each abstracted to a token: does it begin with a new-line, contain a    *)
(* '*', end with a '!', and the number sscanf reads from it.  The piece    *)
(* after the last ':' is where getline meets the end of the file and is    *)
(* never looked at.  The build is the one without VT_ETIMESYNC.            *)
(***************************************************************************)
EXTENDS Integers, Sequences, SequencesExt, FiniteSets

CONSTANTS
    Files,       \* the control files the run may be given
    EventTimes,  \* local timestamps an event file may start at
    Two64        \* 2^64, larger than every time of the model

Token == [nl : BOOLEAN, star : BOOLEAN, bang : BOOLEAN, val : Int]

ASSUME Files \subseteq Seq(Token) /\ EventTimes \subseteq Nat

VARIABLES
    file,       \* the content of <prefix>.uctl
    pos,        \* index of the next piece getline returns
    eof,        \* getline has met the end of the file
    pc,         \* "read" (the while loop), "final" (after it), "minstart", "done"
    err,        \* error
    lineNo,     \* line_no: lines of the current section
    lineNoSec,  \* line_no_sec
    ids,        \* vec_streamids and vec_streamavs
    colNo,      \* vec_col_no
    ltime, offset,
    ctls,       \* g_vecUnifyCtls
    idx,        \* g_mapStreamIdUnifyCtlIdx
    evMin,      \* per control, the minimum OTF_RStream_eventProgress reports
    minStart    \* g_uMinStartTime

vars == <<file, pos, eof, pc, err, lineNo, lineNoSec, ids, colNo, ltime,
          offset, ctls, idx, evMin, minStart>>

-----------------------------------------------------------------------------
(* Time correction.                                                        *)

\* The double CorrectTime computes before its cast, as the fraction
\* <<numerator, denominator>>: time + (o1 - o0) / (l1 - l0) * (time - l0)
\* + o0 - min.
Corrected(c, min, t) ==
    LET d == c.ltime[2] - c.ltime[1]
    IN  <<(t + c.offset[1] - min) * d + (c.offset[2] - c.offset[1]) * (t - c.ltime[1]),
          d>>

Negative(q) == q[1] * q[2] < 0

\* The values the cast (uint64_t) of fraction q can give.  Below zero and
\* for a division by zero the cast is undefined: x86-64 wraps a negative
\* value and gives 2^63 for an infinity or NaN, AArch64 gives 0.
Cast(q) ==
    LET n == IF q[2] < 0 THEN -q[1] ELSE q[1]
        d == IF q[2] < 0 THEN -q[2] ELSE q[2]
    IN  CASE d = 0  -> {Two64 \div 2, 0}
          [] n >= 0 -> {n \div d}
          [] OTHER  -> {Two64 - ((-n) \div d), 0}

CorrectTime(id, t) == Corrected(ctls[idx[id]], minStart, t)

-----------------------------------------------------------------------------
(* getUnifyControls.                                                       *)

\* One section's controls: new UnifyControl_struct( vec_streamids[i],
\* vec_streamavs[i], ltime, offset ) for every id read.
SectionCtls == [i \in 1..Len(ids) |->
                  [id |-> ids[i].id, avail |-> ids[i].avail,
                   ltime |-> ltime, offset |-> offset]]

\* Mutant: the index one too low (size() - 1 taken before the push_back).
InsertIdxOffByOne(m, base) ==
    LET new == {ids[i].id : i \in 1..Len(ids)}
        first(s) == CHOOSE i \in 1..Len(ids) :
                        ids[i].id = s /\ \A j \in 1..i-1 : ids[j].id # s
    IN  [s \in DOMAIN m \cup new |->
           IF s \in DOMAIN m THEN m[s] ELSE base + first(s) - 1]

\* g_mapStreamIdUnifyCtlIdx.insert for each of them: a stream id already in
\* the map keeps its first index.
InsertIdx(m, base) ==
    LET new == {ids[i].id : i \in 1..Len(ids)}
        first(s) == CHOOSE i \in 1..Len(ids) :
                        ids[i].id = s /\ \A j \in 1..i-1 : ids[j].id # s
    IN  [s \in DOMAIN m \cup new |->
           IF s \in DOMAIN m THEN m[s] ELSE base + first(s)]

\* The declarations at the top of the do-while body, for a new section.
NewSection ==
    /\ lineNo' = 1 /\ lineNoSec' = 1 /\ ids' = <<>> /\ colNo' = <<>>
    /\ ltime' = <<0, 1>> /\ offset' = <<0, 0>>

\* The file is open on MASTER (the failure to open it is a step of
\* UnifyDriver) and the first section begins.
Init ==
    /\ file \in Files
    /\ pos = 1 /\ eof = FALSE /\ pc = "read" /\ err = FALSE
    /\ lineNo = 1 /\ lineNoSec = 1 /\ ids = <<>> /\ colNo = <<>>
    /\ ltime = <<0, 1>> /\ offset = <<0, 0>>
    /\ ctls = <<>> /\ idx = <<>>
    /\ evMin = <<>> /\ minStart = 0

\* One iteration of the while loop, on the piece getline returned.  A piece
\* with a '*' continues on the first line of a section and otherwise ends
\* it; a new-line counts a line; then the switch on line_no_sec stores a
\* stream id (line 1) or one of the four time fields (line 2).
ReadPiece ==
    /\ pc = "read" /\ ~err /\ pos <= Len(file)
    /\ LET tok  == file[pos]
           sec  == IF tok.nl THEN lineNoSec + 1 ELSE lineNoSec
           cols == IF tok.nl THEN Append(colNo, 0) ELSE colNo
           col  == cols[1] + 1
       IN  /\ pos' = pos + 1
           /\ IF tok.star
              THEN /\ pc' = IF lineNo = 1 THEN "read" ELSE "final"
                   /\ UNCHANGED <<err, lineNo, lineNoSec, ids, colNo, ltime, offset>>
              ELSE /\ pc' = "read"
                   /\ lineNoSec' = sec
                   /\ lineNo' = IF tok.nl THEN lineNo + 1 ELSE lineNo
                   /\ CASE sec = 1 ->
                             /\ err' = (tok.val = 0)
                             /\ ids' = IF tok.val = 0 THEN ids
                                       ELSE Append(ids, [id |-> tok.val, avail |-> ~tok.bang])
                             /\ UNCHANGED <<colNo, ltime, offset>>
                        [] sec = 2 ->
                             /\ colNo' = [cols EXCEPT ![1] = col]
                             /\ err' = (col > 4)
                             /\ ltime' = CASE col = 1 -> [ltime EXCEPT ![1] = tok.val]
                                           [] col = 3 -> [ltime EXCEPT ![2] = tok.val]
                                           [] OTHER   -> ltime
                             /\ offset' = CASE col = 2 -> [offset EXCEPT ![1] = tok.val]
                                            [] col = 4 -> [offset EXCEPT ![2] = tok.val]
                                            [] OTHER   -> offset
                             /\ UNCHANGED ids
                        [] OTHER ->
                             /\ err' = TRUE /\ colNo' = cols
                             /\ UNCHANGED <<ids, ltime, offset>>
    /\ UNCHANGED <<file, eof, ctls, idx, evMin, minStart>>

\* The loop condition fails: getline met the end of the file, or error is
\* set.
EndLoop ==
    /\ pc = "read" /\ (err \/ pos > Len(file))
    /\ pc' = "final"
    /\ eof' = (pos > Len(file))
    /\ UNCHANGED <<file, pos, err, lineNo, lineNoSec, ids, colNo, ltime, offset,
                   ctls, idx, evMin, minStart>>

\* Mutant: the end-of-section check only asks for a second line.
EndSectionNoColCheck ==
    /\ pc = "final"
    /\ LET bad == err \/ colNo = <<>>
       IN  IF bad
           THEN /\ err' = TRUE /\ pc' = "done"
                /\ UNCHANGED <<pos, eof, lineNo, lineNoSec, ids, colNo, ltime,
                               offset, ctls, idx>>
           ELSE /\ ctls' = ctls \o SectionCtls
                /\ idx' = InsertIdx(idx, Len(ctls))
                /\ IF eof
                   THEN /\ pc' = "minstart"
                        /\ UNCHANGED <<lineNo, lineNoSec, ids, colNo, ltime,
                                       offset>>
                   ELSE /\ pc' = "read" /\ NewSection
                /\ UNCHANGED <<pos, eof, err>>
    /\ UNCHANGED <<file, evMin, minStart>>

\* After the loop: the check that line 2 had four fields, the error message, or the section's controls added to g_vecUnifyCtls and
\* the map, and the next section while in.good().
EndSection ==
    /\ pc = "final"
    /\ LET bad == err \/ colNo = <<>> \/ colNo[1] # 4
       IN  IF bad
           THEN /\ err' = TRUE /\ pc' = "done"
                /\ UNCHANGED <<pos, eof, lineNo, lineNoSec, ids, colNo, ltime,
                               offset, ctls, idx>>
           ELSE /\ ctls' = ctls \o SectionCtls
                /\ idx' = InsertIdx(idx, Len(ctls))
                /\ IF eof
                   THEN /\ pc' = "minstart"
                        /\ UNCHANGED <<lineNo, lineNoSec, ids, colNo, ltime,
                                       offset>>
                   ELSE /\ pc' = "read" /\ NewSection
                /\ UNCHANGED <<pos, eof, err>>
    /\ UNCHANGED <<file, evMin, minStart>>

\* Mutant: the minimum of the local start times, uncorrected.
MinStartTimeRaw ==
    /\ pc = "minstart"
    /\ LET n == Len(ctls)
           starts == {m \in [1..n -> EventTimes \cup {0}] :
                        \A i \in 1..n : ctls[i].avail => m[i] \in EventTimes}
       IN  \E m \in starts :
             /\ evMin' = m
             /\ minStart' = IF n = 0 THEN Two64 - 1 ELSE Min({m[i] : i \in 1..n})
    /\ pc' = "done"
    /\ UNCHANGED <<file, pos, eof, err, lineNo, lineNoSec, ids, colNo, ltime,
                   offset, ctls, idx>>

\* getMinStartTime: for every control, the first timestamp of its event
\* stream, corrected while g_uMinStartTime is still 0, and the minimum of
\* the casts.  A stream marked unavailable has no event file, so the
\* minimum eventProgress leaves is uninitialized; 0 stands for it too.
MinStartTime ==
    /\ pc = "minstart"
    /\ LET n == Len(ctls)
           starts == {m \in [1..n -> EventTimes \cup {0}] :
                        \A i \in 1..n : ctls[i].avail => m[i] \in EventTimes}
       IN  \E m \in starts :
             LET q(i) == CorrectTime(ctls[i].id, m[i])
                 casts == {c \in [1..n -> UNION {Cast(q(i)) : i \in 1..n}] :
                             \A i \in 1..n : c[i] \in Cast(q(i))}
             IN  \E c \in casts :
                   /\ evMin' = m
                   /\ minStart' = IF n = 0 THEN Two64 - 1
                                  ELSE Min({c[i] : i \in 1..n})
    /\ pc' = "done"
    /\ UNCHANGED <<file, pos, eof, err, lineNo, lineNoSec, ids, colNo, ltime,
                   offset, ctls, idx>>

Done == pc = "done" /\ UNCHANGED vars

Next == ReadPiece \/ EndLoop \/ EndSection \/ MinStartTime \/ Done

Spec == Init /\ [][Next]_vars
-----------------------------------------------------------------------------
(* Properties.                                                             *)

TypeOK ==
    /\ file \in Files
    /\ pos \in 1..Len(file) + 1 /\ eof \in BOOLEAN /\ err \in BOOLEAN
    /\ pc \in {"read", "final", "minstart", "done"}
    /\ lineNo \in Nat /\ lineNoSec \in 1..lineNo
    /\ colNo \in Seq(Nat) /\ Len(colNo) = lineNoSec - 1
    /\ \A i \in 1..Len(ctls) : ctls[i].id \in DOMAIN idx /\ idx[ctls[i].id] \in 1..i
    /\ minStart \in 0..Two64

\* What the parse has produced, in the terms of UnifyCtlFormat: nothing
\* while MASTER is still in getUnifyControls, then the error or the table.
ParseResult ==
    CASE pc \in {"read", "final"} -> [ok |-> FALSE, ctls |-> <<>>, done |-> FALSE]
      [] err                      -> [ok |-> FALSE, ctls |-> <<>>, done |-> TRUE]
      [] OTHER                    -> [ok |-> TRUE, ctls |-> ctls, done |-> TRUE]

Format == INSTANCE UnifyCtlFormat WITH result <- ParseResult

\* getUnifyControls implements the control file format: a well-formed file
\* gives exactly its controls, in order, and a malformed one is rejected or,
\* when only its '*' markers are out of place, read as the sections they
\* delimit; it never accepts a stream id 0, a short or long time line or a
\* third line, and never drops or invents a control.
ImplementsFormat == Format!Spec

\* After getMinStartTime, CorrectTime of every event of every available
\* stream is defined and at least g_uMinStartTime: the double it casts to
\* uint64_t is never negative nor a division by zero, and the events of a
\* stream stay in order.  This needs the minimum to be taken over corrected
\* times of every stream, with each stream's own control.
EventTimesCorrected ==
    pc = "done" /\ ~err =>
      \A i \in 1..Len(ctls) : ctls[i].avail =>
        \A t, u \in {e \in EventTimes : e >= evMin[i]} :
          LET q == CorrectTime(ctls[i].id, t)
              r == CorrectTime(ctls[i].id, u)
          IN  /\ q[2] # 0 /\ ~Negative(q)
              /\ t <= u => \A x \in Cast(q), y \in Cast(r) : x <= y

====
