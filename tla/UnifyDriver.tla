---------------------------- MODULE UnifyDriver ----------------------------
(***************************************************************************)
(* The phase protocol of vtunify (VTUNIFY_MAIN in vt_unify.cc) run as     *)
(* Size cooperating MPI ranks.  Rank 0 (MASTER) parses the command line,  *)
(* reads the unify control file, computes the minimum start time and      *)
(* unifies definitions, markers and statistics; every rank unifies its    *)
(* events; MASTER writes the master control file and cleans up.  Each     *)
(* phase ends in syncError, an MPI_Allreduce(MAX) of the ranks' error     *)
(* flags, and shared state reaches the other ranks by MPI_Barrier +       *)
(* MPI_Bcast.  The metadata-database hook (HooksTdb), registered on a     *)
(* rank when VT_UNIFY_CREATE_TDB is set there, adds an MPI_Bcast to the   *)
(* events pre hook and an MPI_Gather/Gatherv to the finalize hook.        *)
(*                                                                         *)
(* A rank's position is pc[r]; a label in Collectives is a collective     *)
(* call, which completes in one step once every rank is at that label.    *)
(* Every I/O step that can fail fails nondeterministically.                *)
(***************************************************************************)
EXTENDS Naturals, FiniteSets

CONSTANTS
    Size,        \* g_iMPISize
    TdbEnabled   \* ranks on which HooksTdb::isEnabled() holds

ASSUME Size \in Nat \ {0}

Rank == 0 .. (Size - 1)
Master == 0

ASSUME TdbEnabled \subseteq Rank

VARIABLES
    pc,          \* per rank: the next step of VTUNIFY_MAIN
    err,         \* per rank: the local `error` flag
    usage,       \* per rank: Params.showusage \/ Params.showversion
    have,        \* per rank: the shared state the rank holds
    createOut,   \* per rank: RootData.create_output of HooksTdb
    cmdline,     \* MASTER's parseCommandLine outcome (history)
    failed,      \* phases in which some rank's step failed (history)
    published,   \* cleanUp renamed the unified output to its final name
    exitCode     \* per rank: the value VTUNIFY_MAIN returns

vars == <<pc, err, usage, have, createOut, cmdline, failed, published,
          exitCode>>

\* The items of shared state: unify parameters, unify controls, minimum
\* start time, definition and marker token translations, vt_flush_id.
Items == {"params", "ctls", "minstart", "deftokens", "markertokens",
          "flushid"}

\* What Events::run reads on every rank.
EventInputs == {"params", "ctls", "minstart", "deftokens", "markertokens"}

CmdLineOutcomes == {"ok", "badopt", "help", "noprefix"}

Phases == {"params", "openctl", "parsectl", "defs", "markers", "stats",
           "events", "writemc", "cleanup"}

\* Collective calls.  Every sync label is a call of syncError (which is
\* an MPI_Allreduce only when Size > 1); every share label is one
\* share* function (Barrier and Bcasts, no branch in between).
Collectives == {"ParamsSync1", "ShareParams", "ParamsSync2",
                "CtlSync1", "CtlSync2", "ShareCtls", "CtlSync3",
                "MinSync1", "ShareMin", "MinSync2",
                "MasterSync", "ShareTokens", "TokSync",
                "TdbBcast", "EventsSync", "FinalSync", "TdbGather"}

LocalSteps == {"GetParams", "CheckUsage", "OpenCtl", "ParseCtl",
               "MinStart", "Defs", "Markers", "Stats", "EventsPre",
               "EventsRun", "WriteMC", "CleanUp", "Finalize", "Exit"}

Init ==
    /\ pc = [r \in Rank |-> "GetParams"]
    /\ err = [r \in Rank |-> FALSE]
    /\ usage = [r \in Rank |-> FALSE]
    /\ have = [r \in Rank |-> {}]
    /\ createOut = [r \in Rank |-> FALSE]
    /\ cmdline = "none"
    /\ failed = {}
    /\ published = FALSE
    /\ exitCode = [r \in Rank |-> 0]

-----------------------------------------------------------------------------
(* Collective calls.                                                       *)

AllAt(l) == \A r \in Rank : pc[r] = l

\* syncError: every rank's flag becomes the maximum of all flags; the
\* caller continues at okNext, or breaks to errNext on error.
SyncError(l, okNext, errNext) ==
    /\ AllAt(l)
    /\ LET anyErr == \E s \in Rank : err[s]
       IN  /\ err' = [r \in Rank |-> anyErr]
           /\ pc' = [r \in Rank |-> IF anyErr THEN errNext ELSE okNext]
    /\ UNCHANGED <<usage, have, createOut, cmdline, failed, published,
                   exitCode>>

\* MPI_Bcast from MASTER: the ranks receive MASTER's copy of items.
Bcast(l, items, next) ==
    /\ AllAt(l)
    /\ have' = [r \in Rank |-> have[r] \cup (have[Master] \cap items)]
    /\ pc' = [r \in Rank |-> next]

\* The branch every `if( g_iMPISize > 1 )` share takes.
IfShared(shareLabel, otherwise) ==
    IF Size > 1 THEN shareLabel ELSE otherwise

ParamsSync1 == SyncError("ParamsSync1", IfShared("ShareParams", "CheckUsage"),
                         "Finalize")

\* shareParams also carries the showusage/showversion flags.
ShareParams ==
    /\ Bcast("ShareParams", {"params"}, "ParamsSync2")
    /\ usage' = [r \in Rank |-> usage[Master]]
    /\ UNCHANGED <<err, createOut, cmdline, failed, published, exitCode>>

ParamsSync2 == SyncError("ParamsSync2", "CheckUsage", "Finalize")

CtlSync1 == SyncError("CtlSync1", "ParseCtl", "Finalize")

CtlSync2 == SyncError("CtlSync2", IfShared("ShareCtls", "MinStart"),
                      "Finalize")

ShareCtls ==
    /\ Bcast("ShareCtls", {"ctls"}, "CtlSync3")
    /\ UNCHANGED <<err, usage, createOut, cmdline, failed, published,
                   exitCode>>

CtlSync3 == SyncError("CtlSync3", "MinStart", "Finalize")

MinSync1 == SyncError("MinSync1", IfShared("ShareMin", "Defs"), "Finalize")

ShareMin ==
    /\ Bcast("ShareMin", {"minstart"}, "MinSync2")
    /\ UNCHANGED <<err, usage, createOut, cmdline, failed, published,
                   exitCode>>

MinSync2 == SyncError("MinSync2", "Defs", "Finalize")

\* (mutant) the translation tables are not shared before the events.
MasterSyncNoShare == SyncError("MasterSync", "EventsPre", "Finalize")

MasterSync == SyncError("MasterSync", IfShared("ShareTokens", "EventsPre"),
                        "Finalize")

ShareTokens ==
    /\ Bcast("ShareTokens", {"deftokens", "markertokens"}, "TokSync")
    /\ UNCHANGED <<err, usage, createOut, cmdline, failed, published,
                   exitCode>>

TokSync == SyncError("TokSync", "EventsPre", "Finalize")

\* HooksTdb::phaseHook_UnifyEvents_pre: MPI_Bcast of vt_flush_id.
TdbBcast ==
    /\ Bcast("TdbBcast", {"flushid"}, "EventsRun")
    /\ UNCHANGED <<err, usage, createOut, cmdline, failed, published,
                   exitCode>>

EventsSync == SyncError("EventsSync", "WriteMC", "Finalize")

FinalSync == SyncError("FinalSync", "Finalize", "Finalize")

\* HooksTdb::finalizeHook: MPI_Gather of the sizes, MPI_Gatherv of the
\* per-rank counters to rank 0, which writes the .tdb file.
TdbGather ==
    /\ AllAt("TdbGather")
    /\ pc' = [r \in Rank |-> "Exit"]
    /\ UNCHANGED <<err, usage, have, createOut, cmdline, failed, published,
                   exitCode>>

-----------------------------------------------------------------------------
(* Steps of one rank.                                                      *)

\* getParams up to syncError: MASTER runs parseCommandLine, which fails on
\* an invalid option or a missing -o/-s argument, sets showusage on -h or
\* on a missing input prefix, and showversion on -V.
GetParams(r) ==
    /\ pc[r] = "GetParams"
    /\ IF r = Master
       THEN \E o \in CmdLineOutcomes :
              /\ cmdline' = o
              /\ err' = [err EXCEPT ![r] = (o = "badopt")]
              /\ usage' = [usage EXCEPT ![r] = (o \in {"help", "noprefix"})]
              /\ have' = IF o = "badopt" THEN have
                         ELSE [have EXCEPT ![r] = @ \cup {"params"}]
              /\ failed' = IF o = "badopt" THEN failed \cup {"params"}
                           ELSE failed
       ELSE UNCHANGED <<cmdline, err, usage, have, failed>>
    /\ pc' = [pc EXCEPT ![r] = "ParamsSync1"]
    /\ UNCHANGED <<createOut, published, exitCode>>

\* VTUNIFY_MAIN: `if( Params.showusage ) break;` and the same for
\* showversion; both leave error false.
CheckUsage(r) ==
    /\ pc[r] = "CheckUsage"
    /\ pc' = [pc EXCEPT ![r] = IF usage[r] THEN "Finalize" ELSE "OpenCtl"]
    /\ UNCHANGED <<err, usage, have, createOut, cmdline, failed, published,
                   exitCode>>

\* A step only MASTER performs: `error = !step()`, on success MASTER holds
\* items and continues at okNext, on failure at failNext; any other rank
\* goes on to skipNext.
MasterRun(r, l, phase, items, okNext, failNext, skipNext) ==
    /\ pc[r] = l
    /\ \/ /\ r = Master
          /\ \E ok \in BOOLEAN :
               /\ err' = [err EXCEPT ![r] = ~ok]
               /\ have' = IF ok THEN [have EXCEPT ![r] = @ \cup items]
                          ELSE have
               /\ failed' = IF ok THEN failed ELSE failed \cup {phase}
               /\ pc' = [pc EXCEPT ![r] = IF ok THEN okNext ELSE failNext]
       \/ /\ r # Master
          /\ pc' = [pc EXCEPT ![r] = skipNext]
          /\ UNCHANGED <<err, have, failed>>
    /\ UNCHANGED <<usage, createOut, cmdline, published, exitCode>>

\* getUnifyControls: MASTER opens <prefix>.uctl.
OpenCtl(r) ==
    MasterRun(r, "OpenCtl", "openctl", {}, "CtlSync1", "CtlSync1", "CtlSync1")

\* getUnifyControls: MASTER parses the sections of the control file.
ParseCtl(r) ==
    MasterRun(r, "ParseCtl", "parsectl", {"ctls"}, "CtlSync2", "CtlSync2",
              "CtlSync2")

\* getMinStartTime: MASTER takes the minimum corrected start time over all
\* unify controls; no error is possible.
MinStart(r) ==
    /\ pc[r] = "MinStart"
    /\ have' = IF r = Master THEN [have EXCEPT ![r] = @ \cup {"minstart"}]
               ELSE have
    /\ pc' = [pc EXCEPT ![r] = "MinSync1"]
    /\ UNCHANGED <<err, usage, createOut, cmdline, failed, published,
                   exitCode>>

\* The translations a successful Definitions::run leaves, and the
\* vt_flush_id HooksTdb::phaseHook_UnifyDefinitions_post picks on MASTER.
DefsItems == {"deftokens"} \cup (IF Master \in TdbEnabled THEN {"flushid"}
                                 ELSE {})

\* (mutant) a failed Definitions::run does not break the do-while.
DefsNoBreak(r) ==
    MasterRun(r, "Defs", "defs", DefsItems, "Markers", "Markers",
              "MasterSync")

\* MASTER: `if( (error = !theDefinitions->run()) ) break;`
Defs(r) ==
    MasterRun(r, "Defs", "defs", DefsItems, "Markers", "MasterSync",
              "MasterSync")

\* MASTER: `if( (error = !theMarkers->run()) ) break;`
Markers(r) ==
    MasterRun(r, "Markers", "markers", {"markertokens"}, "Stats",
              "MasterSync", "MasterSync")

\* MASTER: `if( (error = !theStatistics->run()) ) break;`
Stats(r) ==
    MasterRun(r, "Stats", "stats", {}, "MasterSync", "MasterSync",
              "MasterSync")

\* (mutant) the hook broadcasts on rank 0 only, mistaking the OpenMP
\* thread id for the MPI rank.
EventsPreRank0Only(r) ==
    /\ pc[r] = "EventsPre"
    /\ createOut' = [createOut EXCEPT ![r] = (r \in TdbEnabled)]
    /\ pc' = [pc EXCEPT ![r] = IF r \in TdbEnabled /\ r = Master
                               THEN "TdbBcast" ELSE "EventsRun"]
    /\ UNCHANGED <<err, usage, have, cmdline, failed, published, exitCode>>

\* Events::run triggers Phase_UnifyEvents_pre; on a rank with HooksTdb,
\* phaseHook_UnifyEvents_pre sets create_output and calls MPI_Bcast.
EventsPre(r) ==
    /\ pc[r] = "EventsPre"
    /\ createOut' = [createOut EXCEPT ![r] = (r \in TdbEnabled)]
    /\ pc' = [pc EXCEPT ![r] = IF r \in TdbEnabled THEN "TdbBcast"
                               ELSE "EventsRun"]
    /\ UNCHANGED <<err, usage, have, cmdline, failed, published, exitCode>>

\* `error = !theEvents->run();` on every rank.
EventsRun(r) ==
    /\ pc[r] = "EventsRun"
    /\ \E ok \in BOOLEAN :
         /\ err' = [err EXCEPT ![r] = ~ok]
         /\ failed' = IF ok THEN failed ELSE failed \cup {"events"}
    /\ pc' = [pc EXCEPT ![r] = "EventsSync"]
    /\ UNCHANGED <<usage, have, createOut, cmdline, published, exitCode>>

\* MASTER: `if( (error = !writeMasterControl()) ) break;`
WriteMC(r) ==
    MasterRun(r, "WriteMC", "writemc", {}, "CleanUp", "FinalSync",
              "FinalSync")

\* (mutant) the result of cleanUp is ignored.
CleanUpIgnored(r) ==
    /\ pc[r] = "CleanUp"
    /\ \E ok \in BOOLEAN, renamed \in BOOLEAN :
         /\ ok => renamed
         /\ failed' = IF ok THEN failed ELSE failed \cup {"cleanup"}
         /\ published' = (published \/ renamed)
    /\ pc' = [pc EXCEPT ![r] = "FinalSync"]
    /\ UNCHANGED <<err, usage, have, createOut, cmdline, exitCode>>

\* MASTER: `if( (error = !cleanUp()) ) break;`  cleanUp fails either
\* before the global definitions file is renamed (removing the control
\* file, or that rename itself) or after it (the master control rename).
CleanUp(r) ==
    /\ pc[r] = "CleanUp"
    /\ \E ok \in BOOLEAN, renamed \in BOOLEAN :
         /\ ok => renamed
         /\ err' = [err EXCEPT ![r] = ~ok]
         /\ failed' = IF ok THEN failed ELSE failed \cup {"cleanup"}
         /\ published' = (published \/ renamed)
    /\ pc' = [pc EXCEPT ![r] = "FinalSync"]
    /\ UNCHANGED <<usage, have, createOut, cmdline, exitCode>>

\* triggerFinalizeHook(error): HooksTdb::finalizeHook returns on error
\* or without create_output, and gathers otherwise.
Finalize(r) ==
    /\ pc[r] = "Finalize"
    /\ pc' = [pc EXCEPT ![r] =
                IF r \in TdbEnabled /\ ~err[r] /\ createOut[r]
                THEN "TdbGather" ELSE "Exit"]
    /\ UNCHANGED <<err, usage, have, createOut, cmdline, failed, published,
                   exitCode>>

\* (mutant) an error is returned as -1, an exit status of 255.
ExitMinusOne(r) ==
    /\ pc[r] = "Exit"
    /\ exitCode' = [exitCode EXCEPT ![r] = IF err[r] THEN 255 ELSE 0]
    /\ pc' = [pc EXCEPT ![r] = "Done"]
    /\ UNCHANGED <<err, usage, have, createOut, cmdline, failed, published>>

\* MPI_Abort on error, MPI_Finalize otherwise; `return (error) ? 1 : 0;`
Exit(r) ==
    /\ pc[r] = "Exit"
    /\ exitCode' = [exitCode EXCEPT ![r] = IF err[r] THEN 1 ELSE 0]
    /\ pc' = [pc EXCEPT ![r] = "Done"]
    /\ UNCHANGED <<err, usage, have, createOut, cmdline, failed, published>>

RankStep(r) ==
    \/ GetParams(r) \/ CheckUsage(r) \/ OpenCtl(r) \/ ParseCtl(r)
    \/ MinStart(r) \/ Defs(r) \/ Markers(r) \/ Stats(r) \/ EventsPre(r)
    \/ EventsRun(r) \/ WriteMC(r) \/ CleanUp(r) \/ Finalize(r) \/ Exit(r)

Collective ==
    \/ ParamsSync1 \/ ShareParams \/ ParamsSync2
    \/ CtlSync1 \/ CtlSync2 \/ ShareCtls \/ CtlSync3
    \/ MinSync1 \/ ShareMin \/ MinSync2
    \/ MasterSync \/ ShareTokens \/ TokSync
    \/ TdbBcast \/ EventsSync \/ FinalSync \/ TdbGather

\* Every rank has returned from VTUNIFY_MAIN.
Terminated == \A r \in Rank : pc[r] = "Done"

Next ==
    \/ \E r \in Rank : RankStep(r)
    \/ Collective
    \/ Terminated /\ UNCHANGED vars

\* Each rank is a separate process that keeps running, and a collective
\* whose participants have all arrived completes.
Fairness == /\ \A r \in Rank : WF_vars(RankStep(r))
            /\ WF_vars(Collective)

Spec == Init /\ [][Next]_vars /\ Fairness

-----------------------------------------------------------------------------
(* Properties.                                                             *)

TypeOK ==
    /\ pc \in [Rank -> Collectives \cup LocalSteps \cup {"Done"}]
    /\ err \in [Rank -> BOOLEAN]
    /\ usage \in [Rank -> BOOLEAN]
    /\ have \in [Rank -> SUBSET Items]
    /\ createOut \in [Rank -> BOOLEAN]
    /\ cmdline \in CmdLineOutcomes \cup {"none"}
    /\ failed \subseteq Phases
    /\ published \in BOOLEAN
    /\ exitCode \in [Rank -> {0, 1}]

\* Ranks that wait in collective calls wait in the same one, and no rank
\* has returned while another waits: the syncError/share sequence of
\* VTUNIFY_MAIN and the MPI calls of the HooksTdb hooks line up on every
\* rank, whatever fails where.
CollectivesMatch ==
    \A r, s \in Rank :
        pc[r] \in Collectives =>
            /\ pc[s] \in Collectives => pc[s] = pc[r]
            /\ pc[s] # "Done"

\* A rank runs Events::run only holding the parameters, unify controls,
\* minimum start time and every token translation MASTER produced; a
\* missing translation is a failed assertion in translateLocalToken.
EventsSeeTranslations ==
    \A r \in Rank : pc[r] = "EventsRun" => EventInputs \subseteq have[r]

\* A rank that has returned reports success exactly when no step of any
\* rank failed: the syncError after each phase carries one rank's failure
\* to all of them.
OutcomeAgreement ==
    \A r \in Rank : pc[r] = "Done" => (exitCode[r] = 0 <=> failed = {})

\* cleanUp publishes the unified trace only after definitions, markers,
\* statistics and the events of every rank were unified and the master
\* control file was written.
PublishedOnlyIfUnified ==
    published => failed \subseteq {"cleanup"}

=============================================================================
