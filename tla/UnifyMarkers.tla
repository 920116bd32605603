---------------------------- MODULE UnifyMarkers ----------------------------
(***************************************************************************)
(* The markers phase of vtunify, composed with the reading of the control *)
(* file (UnifyCtl): after getMinStartTime, MASTER runs Markers::run, which *)
(* reads the marker file of every available stream in g_vecUnifyCtls       *)
(* order.  A marker file holds marker definitions (Handle_DefMarker,       *)
(* vt_unify_markers_hdlr.cc) and marker instances (Handle_Marker).  A      *)
(* definition is given a global token by the marker token factory          *)
(* (TokenFactory_DefMarker): the first definition of a (name, type) pair   *)
(* mints the token, every later one, of any process, is translated to it.  *)
(* A marker instance is translated, time-corrected and written to the     *)
(* stream's output.                                                        *)
(*                                                                         *)
(* Markers::run and the token factory are not in the source tree; they    *)
(* are modelled from the description of the unifiers and of the Token     *)
(* Factory contract.  The hooks the handlers trigger are not modelled (no  *)
(* hook reacts to marker records); a marker's text is not kept.  A        *)
(* missing entry of the translation table stands for global token 0.       *)
(***************************************************************************)
EXTENDS UnifyCtl

CONSTANTS
    MarkerFiles,  \* stream id -> the marker files that stream may have
    NoMarkers,    \* the stream has no marker file
    ThreadBit     \* 65536: process ids above it are the threads of a stream

\* What the marker file of stream id may be: absent unless the model gives
\* the stream markers.
MarkersIn(id) == IF id \in DOMAIN MarkerFiles THEN MarkerFiles[id] ELSE {NoMarkers}

VARIABLES
    mphase,   \* "idle", "open" (the stream loop), "read", "done", "assert"
    mi,       \* the control whose stream is read
    mfile,    \* the records of its marker file
    mpos,     \* the next record of mfile
    merr,     \* error of Markers::run
    mglobal,  \* the factory's global definitions: [name, type] -> token
    mtrans,   \* the factory's translations: <<mcpuid, local>> -> global
    mdefs,    \* p_vecMarkerDefRecs: the global definitions, in order
    mwritten, \* every marker written: [stream, proc, local, tok, time]
    mkey      \* history: <<mcpuid, local>> -> the [name, type] it defined

markerVars == <<mphase, mi, mfile, mpos, merr, mglobal, mtrans, mdefs,
                mwritten, mkey>>

-----------------------------------------------------------------------------
(* TokenFactory_DefMarker.                                                 *)

\* (mutant) the pair matched by its name alone.
GetGlobalTokenByName(name, type) ==
    LET K == {k \in DOMAIN mglobal : k.name = name}
    IN  IF K # {} THEN mglobal[CHOOSE k \in K : TRUE] ELSE 0

\* getGlobalToken(name, type): the token of the (name, type) pair, 0 if none.
GetGlobalToken(name, type) ==
    LET k == [name |-> name, type |-> type]
    IN  IF k \in DOMAIN mglobal THEN mglobal[k] ELSE 0

\* translateLocalToken(mcpuid, local): 0 when never set.
TranslateLocalToken(p, l) == IF <<p, l>> \in DOMAIN mtrans THEN mtrans[<<p, l>>] ELSE 0

\* The token createGlobalToken mints: the next unused one.
NewGlobalToken == Cardinality(DOMAIN mglobal) + 1

-----------------------------------------------------------------------------
(* Markers::run, Handle_DefMarker and Handle_Marker.                       *)

MarkersInit ==
    /\ mphase = "idle" /\ mi = 1 /\ mfile = <<>> /\ mpos = 1 /\ merr = FALSE
    /\ mglobal = <<>> /\ mtrans = <<>> /\ mdefs = <<>> /\ mwritten = <<>>
    /\ mkey = <<>>

\* MASTER reaches the markers phase once getMinStartTime is done (the
\* definitions phase in between is not modelled).
MarkersStart ==
    /\ pc = "done" /\ ~err /\ mphase = "idle"
    /\ mphase' = "open"
    /\ UNCHANGED <<vars, mi, mfile, mpos, merr, mglobal, mtrans, mdefs,
                   mwritten, mkey>>

\* One iteration of the stream loop: an unavailable stream, or one without
\* a marker file, is skipped; otherwise its records are read.
MarkersOpen ==
    /\ mphase = "open" /\ mi <= Len(ctls) /\ ~merr
    /\ IF ~ctls[mi].avail
       THEN mi' = mi + 1 /\ UNCHANGED <<mphase, mfile, mpos>>
       ELSE \E f \in MarkersIn(ctls[mi].id) :
              IF f = NoMarkers
              THEN mi' = mi + 1 /\ UNCHANGED <<mphase, mfile, mpos>>
              ELSE mfile' = f /\ mpos' = 1 /\ mphase' = "read" /\ UNCHANGED mi
    /\ UNCHANGED <<vars, merr, mglobal, mtrans, mdefs, mwritten, mkey>>

DefMarker(r) ==
    LET p == r.stream % ThreadBit
        k == [name |-> r.name, type |-> r.type]
        g == GetGlobalToken(r.name, r.type)
    IN  /\ IF g = 0
           THEN /\ mglobal' = (k :> NewGlobalToken) @@ mglobal
                /\ mtrans' = (<<p, r.tok>> :> NewGlobalToken) @@ mtrans
                /\ mdefs' = Append(mdefs, [tok |-> NewGlobalToken] @@ k)
           ELSE /\ mtrans' = IF TranslateLocalToken(p, r.tok) = 0
                             THEN (<<p, r.tok>> :> g) @@ mtrans ELSE mtrans
                /\ UNCHANGED <<mglobal, mdefs>>
        /\ mkey' = (<<p, r.tok>> :> k) @@ mkey

\* Handle_Marker for marker r: translate with mprocess = process % 65536,
\* assert( global_token != 0 ) (a failure ends vtunify), correct the time
\* and write; a failed write (OTF_RETURN_ABORT) ends the read with an error.
Marker(r) ==
    LET p == r.proc % ThreadBit
        g == TranslateLocalToken(p, r.tok)
    IN  IF g = 0
        THEN mphase' = "assert" /\ UNCHANGED <<merr, mwritten>>
        ELSE \/ \E t \in Cast(CorrectTime(p, r.time)) :
                  /\ mwritten' = Append(mwritten, [stream |-> ctls[mi].id,
                                      proc |-> r.proc, local |-> r.tok,
                                      tok |-> g, time |-> t])
                  /\ UNCHANGED <<mphase, merr>>
             \/ mphase' = "open" /\ merr' = TRUE /\ UNCHANGED mwritten

\* The next record of the marker file, handed to its handler.
ReadMarkerRecord ==
    /\ mphase = "read" /\ mpos <= Len(mfile)
    /\ LET r == mfile[mpos]
       IN  \/ r.kind = "def" /\ DefMarker(r) /\ UNCHANGED <<mphase, merr, mwritten>>
           \/ r.kind = "mark" /\ Marker(r) /\ UNCHANGED <<mglobal, mtrans, mdefs, mkey>>
    /\ mpos' = mpos + 1
    /\ UNCHANGED <<vars, mi, mfile>>

\* The file is read to its end: the next stream.
MarkersClose ==
    /\ mphase = "read" /\ mpos > Len(mfile)
    /\ mphase' = "open" /\ mi' = mi + 1
    /\ UNCHANGED <<vars, mfile, mpos, merr, mglobal, mtrans, mdefs, mwritten, mkey>>

\* The loop ends, at the last stream or at the first error; without an
\* error the global definitions are written, which may fail.
MarkersEnd ==
    /\ mphase = "open" /\ (mi > Len(ctls) \/ merr)
    /\ mphase' = "done"
    /\ \E ok \in BOOLEAN : merr' = (merr \/ ~ok)
    /\ UNCHANGED <<vars, mi, mfile, mpos, mglobal, mtrans, mdefs, mwritten, mkey>>

MarkersNext == MarkersStart \/ MarkersOpen \/ ReadMarkerRecord \/ MarkersClose
               \/ MarkersEnd

\* The markers phase has ended, by an error or by the failed assertion.
MarkersFailed == merr \/ mphase = "assert"

-----------------------------------------------------------------------------
(* Properties.                                                             *)

\* The marker token factory is a naming service (spec, Global Token Table):
\* one global definition per (name, type) pair, with a token of its own,
\* and every translation a process holds leads to the global definition of
\* the pair that process defined its local token as.  This is what makes a
\* marker of any stream, read after any interleaving of other streams'
\* definitions, name the same marker in the unified trace.
MarkerTokensFaithful ==
    /\ \A i, j \in 1..Len(mdefs) : i # j =>
          /\ mdefs[i].tok # mdefs[j].tok
          /\ \/ mdefs[i].name # mdefs[j].name
             \/ mdefs[i].type # mdefs[j].type
    /\ \A pl \in DOMAIN mtrans : \E i \in 1..Len(mdefs) :
          /\ mdefs[i].tok = mtrans[pl]
          /\ mdefs[i].name = mkey[pl].name /\ mdefs[i].type = mkey[pl].type

====
