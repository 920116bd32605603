------------------------------ MODULE Cleanup ------------------------------
(***************************************************************************)
(* cleanUp() of vt_unify.cc, run by MASTER after the master control file  *)
(* was written under the temporary prefix.  With doclean it removes the   *)
(* control file and the local definition/event/statistics/marker files of *)
(* every stream; then it renames the temporary global definitions and     *)
(* marker files, the master control file, and every stream's event and    *)
(* statistics files to their final names.                                  *)
(*                                                                         *)
(* A file is present or absent; a remove or rename of a present file can  *)
(* still fail (permissions, a full or vanished file system), at most      *)
(* MaxFaults times in a behaviour.  The compressed-name fallback of each  *)
(* remove and rename is folded into the one call: the file exists under   *)
(* one of the two names.                                                   *)
(***************************************************************************)
EXTENDS Naturals

CONSTANTS
    NStreams,    \* g_vecUnifyCtls.size()
    MaxFaults    \* bound on failing file-system calls

ASSUME NStreams \in Nat \ {0} /\ MaxFaults \in Nat

Streams == 1 .. NStreams

\* The local file types of a stream (OTF_FILETYPE_DEF/EVENT/STATS/MARKER).
InTypes == {"def", "event", "stats", "marker"}

\* Global outputs and per-stream outputs.
GlobalOut == {"def", "marker", "master"}
StreamOut == {"event", "stats"}

Locations == {"tmp", "final", "none"}

VARIABLES
    doclean,     \* Params.doclean
    inCtl,       \* <in_prefix>.uctl exists
    inFile,      \* [Streams \X InTypes -> BOOLEAN]: local input file exists
    outGlobal,   \* name under which each global output exists
    outStream,   \* name under which each stream output exists
    pc,          \* position in cleanUp
    i, j,        \* the loop counters of cleanUp
    faults,      \* failing calls so far
    result       \* the value cleanUp returned

vars == <<doclean, inCtl, inFile, outGlobal, outStream, pc, i, j, faults,
          result>>

\* The state writeMasterControl leaves: inputs present (statistics and
\* marker files only for streams that had them), the unified outputs
\* under the temporary prefix; Statistics::run writes a stream's
\* statistics only if the stream had a statistics buffer.
Init ==
    /\ doclean \in BOOLEAN
    /\ inCtl = TRUE
    /\ inFile \in {f \in [Streams \X InTypes -> BOOLEAN] :
                     \A s \in Streams : f[s, "def"] /\ f[s, "event"]}
    /\ outGlobal \in {g \in [GlobalOut -> {"tmp", "none"}] :
                        g["def"] = "tmp" /\ g["master"] = "tmp"}
    /\ outStream = [p \in Streams \X StreamOut |->
                      IF p[2] = "stats" /\ ~inFile[p[1], "stats"]
                      THEN "none" ELSE "tmp"]
    /\ pc = "Start"
    /\ i = 0
    /\ j = 0
    /\ faults = 0
    /\ result = "none"

\* Whether a file-system call on an existing file may fail now.
FaultChoices == IF faults < MaxFaults THEN BOOLEAN ELSE {FALSE}

CountFault(fault) == faults' = faults + (IF fault THEN 1 ELSE 0)

\* The file type the switch of the removal loop picks for j; case 2 has
\* no break and falls through to case 3.
RemoveType(jj) ==
    CASE jj = 0 -> "def"
      [] jj = 1 -> "event"
      [] OTHER  -> "marker"

\* The file type of the rename loop over stream outputs.
RenameType(jj) == IF jj = 0 THEN "event" ELSE "stats"

\* Return from cleanUp with value v.
Return(v) == /\ result' = v
             /\ pc' = "Done"

-----------------------------------------------------------------------------

\* Phase_CleanUp_pre, then `if( Params.doclean )`.
Start ==
    /\ pc = "Start"
    /\ pc' = IF doclean THEN "RemoveCtl" ELSE "RenameGlobal"
    /\ i' = 0
    /\ UNCHANGED <<doclean, inCtl, inFile, outGlobal, outStream, j, faults,
                   result>>

\* remove(<prefix>.uctl); on failure `return false`.
RemoveCtl ==
    /\ pc = "RemoveCtl"
    /\ \E fault \in FaultChoices :
         /\ CountFault(fault)
         /\ IF inCtl /\ ~fault
            THEN /\ inCtl' = FALSE
                 /\ pc' = "RemoveLocal"
                 /\ i' = 1
                 /\ j' = 0
                 /\ UNCHANGED result
            ELSE /\ Return("false")
                 /\ UNCHANGED <<inCtl, i, j>>
    /\ UNCHANGED <<doclean, inFile, outGlobal, outStream>>

\* (mutant) the inner loop runs to j <= 4, one type past the switch.
RemoveLocalPastEnd ==
    /\ pc = "RemoveLocal"
    /\ \E fault \in FaultChoices :
         /\ CountFault(fault)
         /\ inFile' = IF j < 4 /\ inFile[i, RemoveType(j)] /\ ~fault
                      THEN [inFile EXCEPT ![i, RemoveType(j)] = FALSE]
                      ELSE inFile
    /\ IF j < 4
       THEN /\ j' = j + 1
            /\ UNCHANGED <<i, pc>>
       ELSE /\ j' = 0
            /\ IF i < NStreams
               THEN /\ i' = i + 1
                    /\ UNCHANGED pc
               ELSE /\ i' = 0
                    /\ pc' = "RenameGlobal"
    /\ UNCHANGED <<doclean, inCtl, outGlobal, outStream, result>>

\* One iteration (i, j) of the removal loop; a failed remove is ignored.
RemoveLocal ==
    /\ pc = "RemoveLocal"
    /\ \E fault \in FaultChoices :
         /\ CountFault(fault)
         /\ inFile' = IF inFile[i, RemoveType(j)] /\ ~fault
                      THEN [inFile EXCEPT ![i, RemoveType(j)] = FALSE]
                      ELSE inFile
    /\ IF j < 3
       THEN /\ j' = j + 1
            /\ UNCHANGED <<i, pc>>
       ELSE /\ j' = 0
            /\ IF i < NStreams
               THEN /\ i' = i + 1
                    /\ UNCHANGED pc
               ELSE /\ i' = 0
                    /\ pc' = "RenameGlobal"
    /\ UNCHANGED <<doclean, inCtl, outGlobal, outStream, result>>

GlobalFile(ii) == IF ii = 0 THEN "def" ELSE "marker"

\* Rename of a file that exists under the temporary name.
Renamed(loc, fault) == loc = "tmp" /\ ~fault

\* (mutant) a failed rename of the global definitions is ignored too.
RenameGlobalNoAbort ==
    /\ pc = "RenameGlobal"
    /\ \E fault \in FaultChoices :
         /\ CountFault(fault)
         /\ outGlobal' = IF Renamed(outGlobal[GlobalFile(i)], fault)
                         THEN [outGlobal EXCEPT ![GlobalFile(i)] = "final"]
                         ELSE outGlobal
         /\ IF i = 0 THEN /\ i' = 1
                          /\ UNCHANGED <<pc, result>>
                     ELSE /\ pc' = "RenameMaster"
                          /\ UNCHANGED <<i, result>>
    /\ UNCHANGED <<doclean, inCtl, inFile, outStream, j>>

\* Iteration i of the loop renaming the global definitions (i = 0) and
\* marker (i = 1) files; only a failure for i = 0 makes it return false.
RenameGlobal ==
    /\ pc = "RenameGlobal"
    /\ \E fault \in FaultChoices :
         LET ok == Renamed(outGlobal[GlobalFile(i)], fault)
         IN  /\ CountFault(fault)
             /\ outGlobal' = IF ok
                             THEN [outGlobal EXCEPT ![GlobalFile(i)] = "final"]
                             ELSE outGlobal
             /\ IF ~ok /\ i = 0
                THEN /\ Return("false")
                     /\ UNCHANGED i
                ELSE IF i = 0 THEN /\ i' = 1
                                   /\ UNCHANGED <<pc, result>>
                              ELSE /\ pc' = "RenameMaster"
                                   /\ UNCHANGED <<i, result>>
    /\ UNCHANGED <<doclean, inCtl, inFile, outStream, j>>

\* (mutant) a failed rename of the master control file is ignored.
RenameMasterIgnored ==
    /\ pc = "RenameMaster"
    /\ \E fault \in FaultChoices :
         /\ CountFault(fault)
         /\ outGlobal' = IF Renamed(outGlobal["master"], fault)
                         THEN [outGlobal EXCEPT !["master"] = "final"]
                         ELSE outGlobal
    /\ pc' = "RenameStreams"
    /\ i' = 1
    /\ j' = 0
    /\ UNCHANGED <<doclean, inCtl, inFile, outStream, result>>

\* rename of the master control file; on failure `return false`.
RenameMaster ==
    /\ pc = "RenameMaster"
    /\ \E fault \in FaultChoices :
         /\ CountFault(fault)
         /\ IF Renamed(outGlobal["master"], fault)
            THEN /\ outGlobal' = [outGlobal EXCEPT !["master"] = "final"]
                 /\ pc' = "RenameStreams"
                 /\ i' = 1
                 /\ j' = 0
                 /\ UNCHANGED result
            ELSE /\ Return("false")
                 /\ UNCHANGED <<outGlobal, i, j>>
    /\ UNCHANGED <<doclean, inCtl, inFile, outStream>>

\* One iteration (i, j) of the loop renaming event and statistics files;
\* a failed rename is ignored, and after the loop cleanUp returns true.
RenameStreams ==
    /\ pc = "RenameStreams"
    /\ \E fault \in FaultChoices :
         /\ CountFault(fault)
         /\ outStream' = IF Renamed(outStream[i, RenameType(j)], fault)
                         THEN [outStream EXCEPT ![i, RenameType(j)] = "final"]
                         ELSE outStream
    /\ IF j < 1
       THEN /\ j' = j + 1
            /\ UNCHANGED <<i, pc, result>>
       ELSE /\ j' = 0
            /\ IF i < NStreams
               THEN /\ i' = i + 1
                    /\ UNCHANGED <<pc, result>>
               ELSE /\ Return("true")
                    /\ UNCHANGED i
    /\ UNCHANGED <<doclean, inCtl, inFile, outGlobal>>

Next ==
    \/ Start \/ RemoveCtl \/ RemoveLocal \/ RenameGlobal \/ RenameMaster
    \/ RenameStreams
    \/ pc = "Done" /\ UNCHANGED vars

Spec == Init /\ [][Next]_vars /\ WF_vars(Next)

-----------------------------------------------------------------------------
(* Properties.                                                             *)

TypeOK ==
    /\ doclean \in BOOLEAN
    /\ inCtl \in BOOLEAN
    /\ inFile \in [Streams \X InTypes -> BOOLEAN]
    /\ outGlobal \in [GlobalOut -> Locations]
    /\ outStream \in [Streams \X StreamOut -> Locations]
    /\ pc \in {"Start", "RemoveCtl", "RemoveLocal", "RenameGlobal",
               "RenameMaster", "RenameStreams", "Done"}
    /\ i \in 0 .. NStreams
    /\ j \in 0 .. 3
    /\ faults \in 0 .. MaxFaults
    /\ result \in {"none", "true", "false"}

\* A master control file under the final name, which is what a reader of
\* the trace opens first, is only ever accompanied by the global
\* definitions under the final name: cleanUp renames the definitions
\* first and gives up if that fails.
MasterImpliesDefs ==
    outGlobal["master"] = "final" => outGlobal["def"] = "final"

\* When cleanUp has returned, it returned true exactly when the master
\* control file carries its final name, so VTUNIFY_MAIN's error flag
\* tells whether the unified trace can be opened.
ResultMatchesMaster ==
    pc = "Done" => (result = "true" <=> outGlobal["master"] = "final")

=============================================================================
