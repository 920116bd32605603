------------------------------ MODULE UnifyDefs ------------------------------
(***************************************************************************)
(* The reading of the local definitions, nested in MASTER's Defs step of  *)
(* the phase driver (UnifyDriver).  Definitions::run opens the definitions *)
(* of every available stream and hands each record to its handler in      *)
(* vt_unify_defs_hdlr.cc, which appends a local definition record to       *)
(* p_vecLocDefRecs.  The handlers keep state across streams in static      *)
(* variables: the order index of comments, whether the user comment        *)
(* headline was written, whether a creator and a timer resolution were     *)
(* read; the start- and stop-time comments update the globals              *)
(* g_uMinStartTimeEpoch and g_uMaxStopTimeEpoch, which HooksTdb reports.   *)
(*                                                                         *)
(* Definitions::run is not in the source tree: its stream loop is          *)
(* modelled from the description of the unifiers (open each available     *)
(* stream once, fail fast on an error), and what it does after the read   *)
(* (sorting, token factories, writing) is the outcome of MASTER's Defs     *)
(* step.  Names are abstracted: a comment is [pre, tail], its prefix and  *)
(* the number after the one separator character (NoTail when the comment  *)
(* ends with the prefix); a group name is [pre, rest].                     *)
(***************************************************************************)
EXTENDS UnifyDriver, Integers, SequencesExt

CONSTANTS
    DefStreams,   \* g_vecUnifyCtls: <<[id, avail], ...>>
    DefFiles,     \* stream id -> the definition files it may have: [recs, bad]
    NoTail,       \* a comment that ends right after its prefix
    Two64         \* 2^64, the modulus of uint64_t

VARIABLES
    dphase,       \* "idle", "open" (the stream loop), "read", "done"
    di,           \* the stream whose definitions are read
    dfile,        \* its definitions file
    dpos,         \* the next record of dfile.recs
    derr,         \* error of the read
    dlocal,       \* p_vecLocDefRecs
    orderidx,     \* static uint32_t orderidx of Handle_DefinitionComment
    firstUser,    \* static bool first_user
    creatorRead,  \* static bool creator_read
    timerresRead, \* static bool timerres_read
    minEpoch,     \* g_uMinStartTimeEpoch
    maxEpoch,     \* g_uMaxStopTimeEpoch
    dread         \* history: every record handed to a handler, in order

handlerVars == <<dlocal, orderidx, firstUser, creatorRead, timerresRead,
                 minEpoch, maxEpoch>>
defVars == <<dphase, di, dfile, dpos, derr, handlerVars, dread>>
allVars == <<vars, defVars>>

-----------------------------------------------------------------------------
(* The handlers.                                                           *)

\* The classes of a comment: the prefix compared, and the length test that
\* demands one character after it.
IsStartTime(c) == c.pre = "__STARTTIME__" /\ c.tail # NoTail
IsStopTime(c)  == c.pre = "__STOPTIME__" /\ c.tail # NoTail
IsVTComment(c) == c.pre = "__VT_COMMENT__" /\ c.tail # NoTail

\* (mutant) the start time compared the wrong way.
StartTimeMax(c) ==
    minEpoch' = IF c.tail > minEpoch THEN c.tail ELSE minEpoch

\* A start-time comment lowers g_uMinStartTimeEpoch.
StartTime(c) ==
    minEpoch' = IF c.tail < minEpoch THEN c.tail ELSE minEpoch

\* A stop-time comment raises g_uMaxStopTimeEpoch.
StopTime(c) ==
    maxEpoch' = IF c.tail > maxEpoch THEN c.tail ELSE maxEpoch

\* A VampirTrace comment is kept, without its prefix, at orderidx++.
VTComment(c) ==
    /\ dlocal' = Append(dlocal, [kind |-> "comment", cls |-> "vt",
                                 order |-> orderidx, text |-> c.tail])
    /\ orderidx' = orderidx + 1

\* The headline the first user comment is preceded by.
Headline == [kind |-> "comment", cls |-> "headline", order |-> 100,
             text |-> "User Comments:"]

\* (mutant) 100 + orderidx taken without the increment.
UserCommentNoIncrement(c) ==
    /\ dlocal' = dlocal \o (IF firstUser THEN <<Headline>> ELSE <<>>)
                        \o <<[kind |-> "comment", cls |-> "user",
                              order |-> 100 + orderidx, text |-> c]>>
    /\ firstUser' = FALSE
    /\ UNCHANGED orderidx

\* Any other comment is a user comment, kept at 100 + orderidx++; the
\* first one is preceded by the headline.
UserComment(c) ==
    /\ dlocal' = dlocal \o (IF firstUser THEN <<Headline>> ELSE <<>>)
                        \o <<[kind |-> "comment", cls |-> "user",
                              order |-> 100 + orderidx, text |-> c]>>
    /\ firstUser' = FALSE
    /\ orderidx' = orderidx + 1

\* Handle_DefinitionComment: the branches, tested in this order.
DefinitionComment(r) ==
    LET c == r.comment
    IN  CASE IsStartTime(c) ->
               StartTime(c) /\ UNCHANGED <<dlocal, orderidx, firstUser, maxEpoch>>
          [] IsStopTime(c) ->
               StopTime(c) /\ UNCHANGED <<dlocal, orderidx, firstUser, minEpoch>>
          [] IsVTComment(c) ->
               VTComment(c) /\ UNCHANGED <<firstUser, minEpoch, maxEpoch>>
          [] OTHER ->
               UserComment(c) /\ UNCHANGED <<minEpoch, maxEpoch>>

\* (mutant) creator_read never set: every stream's creator is kept.
DefCreatorEvery(r) ==
    /\ dlocal' = Append(dlocal, [kind |-> "creator", val |-> r.val])
    /\ UNCHANGED creatorRead

\* Handle_DefCreator: only the first creator read is kept.
DefCreator(r) ==
    IF creatorRead THEN UNCHANGED <<dlocal, creatorRead>>
    ELSE /\ dlocal' = Append(dlocal, [kind |-> "creator", val |-> r.val])
         /\ creatorRead' = TRUE

\* Handle_DefTimerResolution: only the first timer resolution is kept.
DefTimerResolution(r) ==
    IF timerresRead THEN UNCHANGED <<dlocal, timerresRead>>
    ELSE /\ dlocal' = Append(dlocal, [kind |-> "timerres", val |-> r.val])
         /\ timerresRead' = TRUE

\* The type Handle_DefProcessGroup gives a group by its name: "__NODE__"
\* is a prefix, the other names are compared whole.
GroupType(n) ==
    CASE n.pre = "__NODE__"                            -> "NODE"
      [] n.rest = "" /\ n.pre = "__MPI_COMM_USER__"    -> "MPI_COMM_USER"
      [] n.rest = "" /\ n.pre = "__MPI_COMM_WORLD__"   -> "MPI_COMM_WORLD"
      [] n.rest = "" /\ n.pre = "__MPI_COMM_SELF__"    -> "MPI_COMM_SELF"
      [] n.rest = "" /\ n.pre = "__OMP_TEAM__"         -> "OMP_TEAM"
      [] n.rest = "" /\ n.pre = "__GPU_COMM__"         -> "GPU_COMM"
      [] n.rest = "" /\ n.pre = "__GPU_GROUP__"        -> "GPU_GROUP"
      [] OTHER                                         -> "OTHER"

\* Handle_DefProcessGroup: kept with streamid % 65536, its type and members.
DefProcessGroup(r) ==
    dlocal' = Append(dlocal, [kind |-> "pgroup", proc |-> r.stream % 65536,
                              tok |-> r.tok, type |-> GroupType(r.name),
                              name |-> r.name, members |-> r.members])

\* Handle_DefProcess: process tokens are global; no stream id is kept.
DefProcess(r) ==
    dlocal' = Append(dlocal, [kind |-> "process", tok |-> r.tok,
                              name |-> r.name, parent |-> r.parent])

\* The handlers of source files, source locations, file groups, files,
\* function groups, functions, collective operations, counter groups and
\* counters: the record is kept with streamid % 65536 and its own fields.
DefLocal(r) ==
    dlocal' = Append(dlocal, [kind |-> r.kind, proc |-> r.stream % 65536,
                              tok |-> r.tok, data |-> r.data])

\* The handler of record r, by its kind.
Handle(r) ==
    CASE r.kind = "comment" ->
           DefinitionComment(r) /\ UNCHANGED <<creatorRead, timerresRead>>
      [] r.kind = "creator" ->
           DefCreator(r) /\ UNCHANGED <<orderidx, firstUser, timerresRead,
                                        minEpoch, maxEpoch>>
      [] r.kind = "timerres" ->
           DefTimerResolution(r) /\ UNCHANGED <<orderidx, firstUser, creatorRead,
                                                minEpoch, maxEpoch>>
      [] r.kind = "pgroup" ->
           DefProcessGroup(r) /\ UNCHANGED <<orderidx, firstUser, creatorRead,
                                             timerresRead, minEpoch, maxEpoch>>
      [] r.kind = "process" ->
           DefProcess(r) /\ UNCHANGED <<orderidx, firstUser, creatorRead,
                                        timerresRead, minEpoch, maxEpoch>>
      [] OTHER ->
           DefLocal(r) /\ UNCHANGED <<orderidx, firstUser, creatorRead,
                                      timerresRead, minEpoch, maxEpoch>>

-----------------------------------------------------------------------------
(* The stream loop of Definitions::run, inside MASTER's Defs step.        *)

DefsInit ==
    /\ Init
    /\ dphase = "idle" /\ di = 1 /\ dfile = [recs |-> <<>>, bad |-> FALSE]
    /\ dpos = 1 /\ derr = FALSE /\ dlocal = <<>>
    /\ orderidx = 4 /\ firstUser = TRUE /\ creatorRead = FALSE
    /\ timerresRead = FALSE /\ minEpoch = Two64 - 1 /\ maxEpoch = 0
    /\ dread = <<>>

\* MASTER enters Definitions::run.
DefsBegin ==
    /\ pc[Master] = "Defs" /\ dphase = "idle"
    /\ dphase' = "open"
    /\ UNCHANGED <<di, dfile, dpos, derr, handlerVars, dread>>

\* One iteration of the stream loop: an unavailable stream is skipped;
\* opening the definitions of an available one may fail.
DefsOpen ==
    /\ dphase = "open" /\ di <= Len(DefStreams) /\ ~derr
    /\ IF ~DefStreams[di].avail
       THEN di' = di + 1 /\ UNCHANGED <<dphase, dfile, dpos, derr>>
       ELSE \/ \E f \in DefFiles[DefStreams[di].id] :
                  dfile' = f /\ dpos' = 1 /\ dphase' = "read"
                  /\ UNCHANGED <<di, derr>>
            \/ derr' = TRUE /\ UNCHANGED <<dphase, di, dfile, dpos>>
    /\ UNCHANGED <<handlerVars, dread>>

\* The next record, handed to its handler.
ReadDefRecord ==
    /\ dphase = "read" /\ dpos <= Len(dfile.recs)
    /\ Handle(dfile.recs[dpos])
    /\ dread' = Append(dread, dfile.recs[dpos])
    /\ dpos' = dpos + 1
    /\ UNCHANGED <<dphase, di, dfile, derr>>

\* The read of a stream's definitions has returned; a read error ends the
\* loop with an error.
DefsClose ==
    /\ dphase = "read" /\ dpos > Len(dfile.recs)
    /\ dphase' = "open"
    /\ IF dfile.bad THEN derr' = TRUE /\ UNCHANGED di
                     ELSE di' = di + 1 /\ UNCHANGED derr
    /\ UNCHANGED <<dfile, dpos, handlerVars, dread>>

DefsLoopEnd ==
    /\ dphase = "open" /\ (di > Len(DefStreams) \/ derr)
    /\ dphase' = "done"
    /\ UNCHANGED <<di, dfile, dpos, derr, handlerVars, dread>>

DefsRead == DefsBegin \/ DefsOpen \/ ReadDefRecord \/ DefsClose \/ DefsLoopEnd

\* MASTER's Defs step of UnifyDriver once the read has ended: a read
\* error makes Definitions::run fail; otherwise the rest of it (sorting,
\* the token factories, writing) may still fail.
DefsEnd ==
    /\ dphase = "done"
    /\ Defs(Master)
    /\ derr => err'[Master]
    /\ UNCHANGED defVars

\* Every step of a rank other than MASTER's Defs.
OtherStep(r) == RankStep(r) /\ ~(r = Master /\ pc[r] = "Defs")

DefsNext ==
    \/ \E r \in Rank : OtherStep(r) /\ UNCHANGED defVars
    \/ DefsRead /\ UNCHANGED vars
    \/ DefsEnd
    \/ Collective /\ UNCHANGED defVars
    \/ Terminated /\ UNCHANGED allVars

\* As in UnifyDriver: every rank keeps running, and MASTER's read goes on.
DefsFairness ==
    /\ \A r \in Rank : WF_allVars(OtherStep(r) /\ UNCHANGED defVars)
    /\ WF_allVars(DefsRead /\ UNCHANGED vars)
    /\ WF_allVars(DefsEnd)
    /\ WF_allVars(Collective /\ UNCHANGED defVars)

DefsSpec == DefsInit /\ [][DefsNext]_allVars /\ DefsFairness

-----------------------------------------------------------------------------
(* Properties.                                                             *)

IsKind(k, x) == x.kind = k
CommentsOf(cls) == SelectSeq(dlocal, LAMBDA x : x.kind = "comment" /\ x.cls = cls)

\* Sorted by their order index, as Definitions::run writes them, the
\* comments of the unified definitions are every VampirTrace comment in
\* the order read, then the headline "User Comments:" (once, when there is
\* a user comment), then every user comment in the order read: the order
\* indices are distinct and fall into these three bands, although the
\* static orderidx is shared by both kinds and survives from stream to
\* stream.
CommentsOrdered ==
    LET C == {i \in 1..Len(dlocal) : dlocal[i].kind = "comment"}
        Band(i) == CASE dlocal[i].cls = "vt" -> 0
                     [] dlocal[i].cls = "headline" -> 1
                     [] OTHER -> 2
        Before(i, j) == Band(i) < Band(j) \/ (Band(i) = Band(j) /\ i < j)
        readComments == SelectSeq(dread, LAMBDA x : IsKind("comment", x))
        VTRead == SelectSeq(readComments, LAMBDA x : IsVTComment(x.comment))
        UserRead == SelectSeq(readComments, LAMBDA x :
                        ~IsStartTime(x.comment) /\ ~IsStopTime(x.comment)
                        /\ ~IsVTComment(x.comment))
        Texts(s) == [i \in 1..Len(s) |-> s[i].text]
    IN  /\ \A i, j \in C : i # j =>
              (dlocal[i].order < dlocal[j].order <=> Before(i, j))
        /\ Len(CommentsOf("headline")) = IF UserRead = <<>> THEN 0 ELSE 1
        /\ Texts(CommentsOf("vt")) = [i \in 1..Len(VTRead) |-> VTRead[i].comment.tail]
        /\ Texts(CommentsOf("user")) = [i \in 1..Len(UserRead) |-> UserRead[i].comment]

\* The creator and the timer resolution of the unified definitions are
\* single-valued (spec, Definitions unifier): each is kept exactly once
\* when some stream has one, and it is the one of the first stream read
\* that has one, whatever the later streams say.
SingleValued ==
    \A k \in {"creator", "timerres"} :
        LET kept == SelectSeq(dlocal, LAMBDA x : IsKind(k, x))
            read == SelectSeq(dread, LAMBDA x : IsKind(k, x))
        IN  /\ Len(kept) = IF read = <<>> THEN 0 ELSE 1
            /\ kept # <<>> => kept[1].val = read[1].val

\* The runtime HooksTdb writes to the .tdb file,
\* g_uMaxStopTimeEpoch - g_uMinStartTimeEpoch in uint64_t.
TdbRuntime == (maxEpoch - minEpoch) % Two64

\* Once the definitions of every stream are read, the runtime the .tdb
\* file reports spans from the earliest start-time comment to the latest
\* stop-time comment of all streams read.
TdbRuntimeSpan ==
    LET starts == {x.comment.tail : x \in {y \in ToSet(dread) :
                        y.kind = "comment" /\ IsStartTime(y.comment)}}
        stops  == {x.comment.tail : x \in {y \in ToSet(dread) :
                        y.kind = "comment" /\ IsStopTime(y.comment)}}
    IN  dphase = "done" /\ starts # {} /\ stops # {} =>
            TdbRuntime = Max(stops) - Min(starts)
====
