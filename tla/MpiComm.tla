------------------------------ MODULE MpiComm ------------------------------
(***************************************************************************)
(* The communicator, group and window tables of the VampirTrace library   *)
(* (vtlib/vt_mpicom.c).  The MPI wrappers call vt_comm_create,            *)
(* vt_group_create, vt_comm_free, vt_win_create, vt_win_free and          *)
(* vt_win_set_gid as the application creates and frees communicators,    *)
(* groups and windows; vt_comm_id, vt_group_id and vt_win_id look the     *)
(* tables up when an event is recorded.                                   *)
(*                                                                         *)
(* The application side is the environment: `live` and `liveWins` are the *)
(* communicators and windows that exist in MPI, with their groups.  MPI  *)
(* handles are model values and may be reused after a free.  A group     *)
(* handle is identified with the group it denotes.  Ids come from one     *)
(* counter (vt_get_curid, also behind vt_def_mpi_comm); `defs` records   *)
(* the communicator definitions written to the trace.  vt_error_msg      *)
(* ends the process: `aborted`.                                           *)
(***************************************************************************)
EXTENDS Integers, Sequences, FiniteSets

CONSTANTS
    World, Self,     \* MPI_COMM_WORLD, MPI_COMM_SELF
    UserComms,       \* handles MPI may return for new communicators
    GWorld, GSelf,   \* the groups of World and Self
    UserGroups,      \* other groups
    Wins,            \* handles MPI may return for new windows
    NullComm,        \* MPI_COMM_NULL
    NullWin,         \* MPI_WIN_NULL
    MaxComms,        \* VT_MAX_MPI_COMMS
    MaxWins,         \* VT_MAX_MPI_WINS
    MaxId            \* bound on the id counter

Comms == {World, Self} \cup UserComms
Groups == {GWorld, GSelf} \cup UserGroups

\* group_search/win_search/vt_comm_id return (uint32_t)-1 when not found.
NotFound == -1

VARIABLES
    comms,       \* comms[0 .. last_comm-1] as a sequence of records
    wins,        \* wins[0 .. last_win-1]
    worldCid,    \* world_cid
    selfCid,     \* self_cid
    curid,       \* the last id handed out
    defs,        \* communicator definitions written: [cid, group]
    live,        \* MPI: live user communicators -> their group
    liveWins,    \* MPI: live windows -> their communicator
    liveGroups,  \* MPI: groups the application holds
    aborted      \* vt_error_msg was called

vars == <<comms, wins, worldCid, selfCid, curid, defs, live, liveWins,
          liveGroups, aborted>>

-----------------------------------------------------------------------------

\* The group of a communicator that exists in MPI.
GroupOf(c) ==
    IF c = World THEN GWorld ELSE IF c = Self THEN GSelf ELSE live[c]

\* Index (0-based) of the first entry satisfying P, or NotFound.
FirstIndex(s, P(_)) ==
    IF \E i \in 1 .. Len(s) : P(s[i])
    THEN (CHOOSE i \in 1 .. Len(s) :
              P(s[i]) /\ \A k \in 1 .. (i - 1) : ~P(s[k])) - 1
    ELSE NotFound

\* group_search.
GroupSearch(g) == FirstIndex(comms, LAMBDA e : e.group = g)

\* vt_comm_id, without its early returns for World and Self.
CommSearch(c) == FirstIndex(comms, LAMBDA e : e.comm = c)

\* win_search: the window's index; free_win is the first cleared slot
\* before it.
WinSearch(w) == FirstIndex(wins, LAMBDA e : e.win = w)
FreeWin(w) ==
    LET pos == WinSearch(w)
        upto == IF pos = NotFound THEN Len(wins) ELSE pos
    IN  FirstIndex(SubSeq(wins, 1, upto),
                   LAMBDA e : e.win = NullWin /\ e.comm = NullComm)

\* vt_comm_id.
CommId(c) ==
    IF c = World THEN worldCid
    ELSE IF c = Self THEN selfCid
    ELSE LET i == CommSearch(c)
         IN  IF i = NotFound THEN NotFound ELSE comms[i + 1].cid

\* vt_group_id.
GroupId(g) ==
    LET i == GroupSearch(g)
    IN  IF i = NotFound THEN NotFound ELSE comms[i + 1].cid

\* vt_def_mpi_comm: a fresh id and a definition of the group.
NewCid == curid + 1

\* vt_error_msg; the caller says what it did to MPI's state.
Abort ==
    /\ aborted' = TRUE
    /\ UNCHANGED <<comms, wins, worldCid, selfCid, curid, defs>>

\* The `else` branch of vt_comm_create: a new entry and definition.
AppendComm(c, g) ==
    /\ curid < MaxId
    /\ comms' = Append(comms, [comm |-> c, group |-> g, cid |-> NewCid])
    /\ defs' = defs \cup {[cid |-> NewCid, group |-> g]}
    /\ curid' = NewCid
    /\ worldCid' = IF c = World THEN NewCid ELSE worldCid
    /\ selfCid' = IF c = Self THEN NewCid ELSE selfCid

\* The body of vt_comm_create(c) for a communicator of group g.  The
\* condition is written `(i = group_search( group ) != (uint32_t)-1)`, so
\* i is the truth value of the comparison, not the index found.
CommCreateBody(c, g) ==
    IF Len(comms) >= MaxComms THEN Abort
    ELSE LET i == IF GroupSearch(g) # NotFound THEN 1 ELSE 0
         IN  IF GroupSearch(g) # NotFound /\ i < Len(comms)
                /\ comms[i + 1].comm = NullComm
             THEN /\ comms' = [comms EXCEPT ![i + 1].comm = c]
                  /\ UNCHANGED <<wins, worldCid, selfCid, curid, defs,
                                 aborted>>
             ELSE /\ AppendComm(c, g)
                  /\ UNCHANGED <<wins, aborted>>

\* vt_comm_init: the tables start with World and Self.
Init ==
    /\ comms = << [comm |-> World, group |-> GWorld, cid |-> 1],
                  [comm |-> Self, group |-> GSelf, cid |-> 2] >>
    /\ defs = {[cid |-> 1, group |-> GWorld], [cid |-> 2, group |-> GSelf]}
    /\ worldCid = 1
    /\ selfCid = 2
    /\ curid = 2
    /\ wins = <<>>
    /\ live = [c \in {} |-> GWorld]
    /\ liveWins = [w \in {} |-> World]
    /\ liveGroups = {}
    /\ aborted = FALSE

\* MPI returns a new communicator c of group g (MPI_Comm_dup,
\* MPI_Comm_create, MPI_Comm_split, ...); the wrapper calls
\* vt_comm_create(c).
CommCreate(c, g) ==
    /\ ~aborted
    /\ c \notin DOMAIN live
    /\ live' = [x \in DOMAIN live \cup {c} |-> IF x = c THEN g ELSE live[x]]
    /\ CommCreateBody(c, g)
    /\ UNCHANGED <<liveWins, liveGroups>>

\* (mutant) the freed entry is dropped from the end of the table.
CommFreeBodyNoSwap(c) ==
    IF Len(comms) > 1 /\ CommSearch(c) # NotFound
    THEN /\ comms' = SubSeq(comms, 1, Len(comms) - 1)
         /\ UNCHANGED <<wins, worldCid, selfCid, curid, defs, aborted>>
    ELSE Abort

\* vt_comm_free(c), called by the MPI_Comm_free wrapper before
\* PMPI_Comm_free: the entry is overwritten by the last one.
CommFreeBody(c) ==
    IF Len(comms) = 1 /\ comms[1].comm = c
    THEN /\ comms' = <<>>
         /\ UNCHANGED <<wins, worldCid, selfCid, curid, defs, aborted>>
    ELSE IF Len(comms) > 1 /\ CommSearch(c) # NotFound
    THEN /\ comms' = SubSeq([comms EXCEPT ![CommSearch(c) + 1] =
                                 comms[Len(comms)]], 1, Len(comms) - 1)
         /\ UNCHANGED <<wins, worldCid, selfCid, curid, defs, aborted>>
    ELSE Abort

CommFree(c) ==
    /\ ~aborted
    /\ c \in DOMAIN live
    /\ live' = [x \in DOMAIN live \ {c} |-> live[x]]
    /\ CommFreeBody(c)
    /\ UNCHANGED <<liveWins, liveGroups>>

\* (mutant) no capacity check.
GroupCreateNoLimit(g) ==
    /\ ~aborted
    /\ liveGroups' = liveGroups \cup {g}
    /\ IF GroupSearch(g) = NotFound
       THEN /\ curid < MaxId
            /\ comms' = Append(comms, [comm |-> NullComm, group |-> g,
                                        cid |-> NewCid])
            /\ defs' = defs \cup {[cid |-> NewCid, group |-> g]}
            /\ curid' = NewCid
            /\ UNCHANGED <<wins, worldCid, selfCid, aborted>>
       ELSE UNCHANGED <<comms, wins, worldCid, selfCid, curid, defs,
                        aborted>>
    /\ UNCHANGED <<live, liveWins>>

\* MPI returns a new group g (MPI_Comm_group, MPI_Group_incl, ...); the
\* wrapper calls vt_group_create(g), which adds an entry without
\* communicator unless the group is in the table.
GroupCreate(g) ==
    /\ ~aborted
    /\ liveGroups' = liveGroups \cup {g}
    /\ IF Len(comms) >= MaxComms THEN Abort
       ELSE IF GroupSearch(g) = NotFound
       THEN /\ curid < MaxId
            /\ comms' = Append(comms, [comm |-> NullComm, group |-> g,
                                        cid |-> NewCid])
            /\ defs' = defs \cup {[cid |-> NewCid, group |-> g]}
            /\ curid' = NewCid
            /\ UNCHANGED <<wins, worldCid, selfCid, aborted>>
       ELSE UNCHANGED <<comms, wins, worldCid, selfCid, curid, defs,
                        aborted>>
    /\ UNCHANGED <<live, liveWins>>

\* MPI_Group_free: vt_group_free does nothing (its body is under #if 0).
GroupFree(g) ==
    /\ ~aborted
    /\ g \in liveGroups
    /\ liveGroups' = liveGroups \ {g}
    /\ UNCHANGED <<comms, wins, worldCid, selfCid, curid, defs, live,
                   liveWins, aborted>>

CommLive(c) == c \in {World, Self} \cup DOMAIN live

ClearedWin == [win |-> NullWin, comm |-> NullComm, gid |-> 0, wid |-> 0]

\* MPI_Win_create on communicator c returns window w; the wrapper calls
\* vt_win_create(w, c): a new wid, the id of the window's group, and a
\* cleared slot before last_win or a new one.
WinCreate(w, c) ==
    /\ ~aborted
    /\ w \notin DOMAIN liveWins
    /\ CommLive(c)
    /\ liveWins' = [x \in DOMAIN liveWins \cup {w} |->
                        IF x = w THEN c ELSE liveWins[x]]
    /\ IF WinSearch(w) # NotFound
       THEN UNCHANGED <<comms, wins, worldCid, selfCid, curid, defs, aborted>>
       ELSE LET wid == NewCid
                gid == GroupId(GroupOf(c))
                e == [win |-> w, comm |-> c, gid |-> gid, wid |-> wid]
            IN  /\ curid < MaxId
                /\ curid' = wid
                /\ IF gid = NotFound \/ (FreeWin(w) = NotFound
                                          /\ Len(wins) >= MaxWins)
                   THEN /\ aborted' = TRUE
                        /\ UNCHANGED <<comms, wins, worldCid, selfCid, defs>>
                   ELSE /\ wins' = IF FreeWin(w) # NotFound
                                   THEN [wins EXCEPT ![FreeWin(w) + 1] = e]
                                   ELSE Append(wins, e)
                        /\ UNCHANGED <<comms, worldCid, selfCid, defs,
                                       aborted>>
    /\ UNCHANGED <<live, liveGroups>>

\* (mutant) the handle is not reset.
WinFreeKeepHandle(w) ==
    /\ ~aborted
    /\ w \in DOMAIN liveWins
    /\ liveWins' = [x \in DOMAIN liveWins \ {w} |-> liveWins[x]]
    /\ IF WinSearch(w) # NotFound
       THEN /\ wins' = [wins EXCEPT ![WinSearch(w) + 1] =
                            [ClearedWin EXCEPT !.win = w]]
            /\ UNCHANGED <<comms, worldCid, selfCid, curid, defs, aborted>>
       ELSE Abort
    /\ UNCHANGED <<live, liveGroups>>

\* MPI_Win_free: vt_win_free(w) clears the window's slot.
WinFree(w) ==
    /\ ~aborted
    /\ w \in DOMAIN liveWins
    /\ liveWins' = [x \in DOMAIN liveWins \ {w} |-> liveWins[x]]
    /\ IF WinSearch(w) # NotFound
       THEN /\ wins' = [wins EXCEPT ![WinSearch(w) + 1] = ClearedWin]
            /\ UNCHANGED <<comms, worldCid, selfCid, curid, defs, aborted>>
       ELSE Abort
    /\ UNCHANGED <<live, liveGroups>>

\* MPI_Win_post/MPI_Win_start with group g: vt_win_set_gid(w,
\* vt_group_id(g)); vt_group_id aborts on a group it cannot find.
WinSetGid(w, g) ==
    /\ ~aborted
    /\ w \in DOMAIN liveWins
    /\ g \in liveGroups
    /\ IF GroupId(g) = NotFound \/ WinSearch(w) = NotFound
       THEN Abort
       ELSE /\ wins' = [wins EXCEPT ![WinSearch(w) + 1].gid = GroupId(g)]
            /\ UNCHANGED <<comms, worldCid, selfCid, curid, defs, aborted>>
    /\ UNCHANGED <<live, liveWins, liveGroups>>

\* The process stops: after a fatal error, or when the model's id
\* bound is reached.
Stopped == aborted \/ curid = MaxId

Next ==
    \/ \E c \in UserComms, g \in {GWorld} \cup UserGroups : CommCreate(c, g)
    \/ \E c \in UserComms : CommFree(c)
    \/ \E g \in Groups : GroupCreate(g) \/ GroupFree(g)
    \/ \E w \in Wins : \/ \E c \in Comms : WinCreate(w, c)
                       \/ WinFree(w)
                       \/ \E g \in Groups : WinSetGid(w, g)
    \/ Stopped /\ UNCHANGED vars

Spec == Init /\ [][Next]_vars

-----------------------------------------------------------------------------
(* Properties.                                                             *)

Entry == [comm : Comms \cup {NullComm}, group : Groups, cid : Nat]
WinEntry == [win : Wins \cup {NullWin}, comm : Comms \cup {NullComm},
             gid : Nat \cup {NotFound}, wid : Nat]

\* The tables stay within VT_MAX_MPI_COMMS and VT_MAX_MPI_WINS.
TypeOK ==
    /\ comms \in Seq(Entry) /\ Len(comms) <= MaxComms
    /\ wins \in Seq(WinEntry) /\ Len(wins) <= MaxWins
    /\ curid \in 0 .. MaxId
    /\ aborted \in BOOLEAN

\* vt_comm_id finds every communicator that exists in MPI, and the id it
\* returns was defined for that communicator's group: freeing another
\* communicator (which moves the last entry) never loses or alters it.
CommIdResolves ==
    ~aborted =>
        \A c \in {World, Self} \cup DOMAIN live :
            [cid |-> CommId(c), group |-> GroupOf(c)] \in defs

\* vt_win_id finds every window that exists in MPI with the communicator
\* it was created on, and no two live windows share a wid.
WinIdResolves ==
    ~aborted =>
        /\ \A w \in DOMAIN liveWins :
              WinSearch(w) # NotFound /\ wins[WinSearch(w) + 1].comm = liveWins[w]
        /\ \A w1, w2 \in DOMAIN liveWins :
              w1 # w2 => wins[WinSearch(w1) + 1].wid # wins[WinSearch(w2) + 1].wid

\* A group registered by vt_group_create is taken over by the next
\* communicator of that group ("check if group already exists w/o
\* communicator ... just set communicator to comm"): no entry without
\* communicator shares its group with another entry.
GroupClaimed ==
    \A i, k \in 1 .. Len(comms) :
        i # k /\ comms[i].comm = NullComm => comms[k].group # comms[i].group

=============================================================================
