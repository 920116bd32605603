----------------------------- MODULE UnifyStats -----------------------------
(***************************************************************************)
(* The statistics phase of vtunify and the function summary its           *)
(* statistics hook prints, composed with the reading of the control file  *)
(* (UnifyCtl): Statistics::run (vt_unify_stats.cc) opens the statistics    *)
(* of every control's stream in g_vecUnifyCtls order, Handle_FunctionSummary *)
(* (vt_unify_stats_hdlr.cc) translates each record's function and hands it *)
(* to HooksStats (hooks/vt_unify_hooks_stats.cc), which keeps the last     *)
(* values per process and function and, at finalizeHook, prints their     *)
(* average over the processes.                                             *)
(*                                                                         *)
(* The markers phase (UnifyMarkers) runs before the statistics; the      *)
(* definitions phase is not modelled: its result for this phase is the     *)
(* translation LocalToGlobal.  A statistics record keeps its function,     *)
(* process, local time and its three counters; the time written is not     *)
(* kept.  Only function summaries are modelled; the message, collective   *)
(* and file operation summaries do not reach HooksStats.                   *)
(***************************************************************************)
EXTENDS UnifyMarkers

CONSTANTS
    StatsFiles,    \* stream id -> the statistics files that stream may have
    LocalToGlobal, \* stream id -> local function token -> global token
    NoStats        \* OTF_RStream_getStatsBuffer finds no statistics

\* What the statistics file of stream id may be: absent, unless the model
\* gives the stream statistics.
StatsIn(id) == IF id \in DOMAIN StatsFiles THEN StatsFiles[id] ELSE {NoStats}

VARIABLES
    sphase,   \* "idle", "open" (the for loop), "read" (readStatistics), "end", "final"
    si,       \* i, the control whose stream is read
    sin,      \* the statistics file of that stream: [recs, bad]
    rpos,     \* the next record of sin.recs
    serr,     \* error of Statistics::run
    fstat,    \* m_mapProcIdFuncStat: process -> global function -> values
    out,      \* stream id -> function summaries written to its output stream
    seen,     \* history: every record handed to the write hook, in order
    summary   \* what finalizeHook prints, or NoStats

statsVars == <<sphase, si, sin, rpos, serr, fstat, out, seen, summary>>
allVars == <<vars, markerVars, statsVars>>

-----------------------------------------------------------------------------
(* HooksStats.                                                             *)

\* Mutant: the values added to those of an earlier summary.
AddFuncStatAccumulate(m, p, g, r) ==
    LET old == IF p \in DOMAIN m /\ g \in DOMAIN m[p] THEN m[p][g]
               ELSE [count |-> 0, incl |-> 0, excl |-> 0]
        v   == [count |-> old.count + r.count, incl |-> old.incl + r.incl,
                excl |-> old.excl + r.excl]
        fs  == IF p \in DOMAIN m THEN m[p] ELSE <<>>
    IN  (p :> ((g :> v) @@ fs)) @@ m

\* addFuncStat: find or create the process's map and the function's entry,
\* then overwrite count, incl and excl.
AddFuncStat(m, p, g, r) ==
    LET v  == [count |-> r.count, incl |-> r.incl, excl |-> r.excl]
        fs == IF p \in DOMAIN m THEN m[p] ELSE <<>>
    IN  (p :> ((g :> v) @@ fs)) @@ m

\* getFuncStat(): the sum of every process's values per function, divided
\* by the number of processes when there is more than one; count is a
\* double (kept as the fraction <<sum, divisor>>), incl and excl integers.
GetFuncStat(m) ==
    LET P == DOMAIN m
        n == Cardinality(P)
        d == IF n > 1 THEN n ELSE 1
        G == UNION {DOMAIN m[p] : p \in P}
        Has(g) == {p \in P : g \in DOMAIN m[p]}
    IN  [g \in G |->
           [count |-> <<MapThenSumSet(LAMBDA p : m[p][g].count, Has(g)), d>>,
            incl  |-> MapThenSumSet(LAMBDA p : m[p][g].incl, Has(g)) \div d,
            excl  |-> MapThenSumSet(LAMBDA p : m[p][g].excl, Has(g)) \div d]]

\* isFuncStatAvail(): getFuncStat() is not empty.
IsFuncStatAvail(m) == DOMAIN GetFuncStat(m) # {}

-----------------------------------------------------------------------------
(* Statistics::run and Handle_FunctionSummary.                             *)

StatsInit ==
    /\ Init /\ MarkersInit
    /\ sphase = "idle" /\ si = 1 /\ sin = NoStats /\ rpos = 1
    /\ serr = FALSE /\ fstat = <<>> /\ out = [s \in DOMAIN StatsFiles |-> <<>>]
    /\ seen = <<>> /\ summary = NoStats

\* MASTER reaches the statistics phase once the markers are unified.
StatsStart ==
    /\ mphase = "done" /\ ~merr /\ sphase = "idle"
    /\ sphase' = "open"
    /\ UNCHANGED <<vars, si, sin, rpos, serr, fstat, out, seen, summary>>

\* One iteration of the loop up to readStatistics: a stream without
\* statistics is ignored; otherwise its output stream is opened (afresh).
StatsOpen ==
    /\ sphase = "open" /\ si <= Len(ctls)
    /\ \E f \in StatsIn(ctls[si].id) :
          IF f = NoStats
          THEN /\ si' = si + 1
               /\ UNCHANGED <<sphase, sin, rpos, out>>
          ELSE /\ sin' = f /\ rpos' = 1 /\ sphase' = "read"
               /\ out' = [out EXCEPT ![ctls[si].id] = <<>>]
               /\ UNCHANGED si
    /\ UNCHANGED <<vars, serr, fstat, seen, summary>>

\* Handle_FunctionSummary for the next record: translate the function with
\* process % 65536, trigger the write hook (addFuncStat with the full
\* process id) and write the record.
FunctionSummary ==
    /\ sphase = "read" /\ rpos <= Len(sin.recs)
    /\ LET r == sin.recs[rpos]
           g == LocalToGlobal[r.proc % ThreadBit][r.func]
           w == [func |-> g, proc |-> r.proc, time |-> r.time,
                 count |-> r.count, incl |-> r.incl, excl |-> r.excl]
       IN  /\ fstat' = AddFuncStat(fstat, r.proc, g, r)
           /\ out' = [out EXCEPT ![ctls[si].id] = Append(@, w)]
           /\ seen' = Append(seen, w)
    /\ rpos' = rpos + 1
    /\ UNCHANGED <<vars, sphase, si, sin, serr, summary>>

\* readStatistics has returned: OTF_READ_ERROR ends the loop with an error.
StatsClose ==
    /\ sphase = "read" /\ rpos > Len(sin.recs)
    /\ IF sin.bad THEN serr' = TRUE /\ sphase' = "end" /\ UNCHANGED si
                  ELSE sphase' = "open" /\ si' = si + 1 /\ UNCHANGED serr
    /\ UNCHANGED <<vars, sin, rpos, fstat, out, seen, summary>>

StatsLoopEnd ==
    /\ sphase = "open" /\ si > Len(ctls)
    /\ sphase' = "end"
    /\ UNCHANGED <<vars, si, sin, rpos, serr, fstat, out, seen, summary>>

\* main: the phases after the statistics may still fail; then
\* triggerFinalizeHook(error): HooksStats prints only without error and
\* when getFuncStat() is not empty.
Finalize ==
    /\ sphase = "end"
    /\ \E laterErr \in BOOLEAN :
          summary' = IF ~(serr \/ laterErr) /\ IsFuncStatAvail(fstat)
                      THEN GetFuncStat(fstat) ELSE NoStats
    /\ sphase' = "final"
    /\ UNCHANGED <<vars, si, sin, rpos, serr, fstat, out, seen>>

StatsDone ==
    /\ pc = "done" /\ (err \/ MarkersFailed \/ sphase = "final")
    /\ UNCHANGED allVars

StatsNext ==
    \/ (ReadPiece \/ EndLoop \/ EndSection \/ MinStartTime)
         /\ UNCHANGED <<markerVars, statsVars>>
    \/ MarkersNext /\ UNCHANGED statsVars
    \/ (StatsStart \/ StatsOpen \/ FunctionSummary \/ StatsClose
        \/ StatsLoopEnd \/ Finalize) /\ UNCHANGED markerVars
    \/ StatsDone

StatsSpec == StatsInit /\ [][StatsNext]_allVars

-----------------------------------------------------------------------------
(* Properties.                                                             *)

\* The latest summary process p reported for global function g.
Latest(p, g) ==
    LET S == {seen[i] : i \in {j \in 1..Len(seen) : seen[j].proc = p /\ seen[j].func = g}}
    IN  CHOOSE r \in S : \A q \in S : q.time <= r.time

\* The average over the processes of their latest summaries.
ExpectedSummary ==
    LET P == {r.proc : r \in ToSet(seen)}
        d == IF Cardinality(P) > 1 THEN Cardinality(P) ELSE 1
        Rep(g) == {p \in P : \E r \in ToSet(seen) : r.proc = p /\ r.func = g}
    IN  [g \in {r.func : r \in ToSet(seen)} |->
           [count |-> <<MapThenSumSet(LAMBDA p : Latest(p, g).count, Rep(g)), d>>,
            incl  |-> MapThenSumSet(LAMBDA p : Latest(p, g).incl, Rep(g)) \div d,
            excl  |-> MapThenSumSet(LAMBDA p : Latest(p, g).excl, Rep(g)) \div d]]

\* The printed summary is what the statistics promise (vt_unify_hooks_stats.cc
\* getFuncStat, spec "statistics aggregation scenario"): for every global
\* function, the latest values each process reported for it (in local time),
\* summed over the processes and divided by their number when there is more
\* than one.  The code keeps the last record read, translated through the
\* stream's own tokens, across every stream Statistics::run reads.
SummaryIsAverage ==
    sphase = "final" /\ summary # NoStats => summary = ExpectedSummary
====
