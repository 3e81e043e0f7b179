-------------------------------- MODULE Personas --------------------------------
(***************************************************************************)
(* The browser personas of one user: the pool of devices in the database,  *)
(* and the resolution of one device per board at the start (and again at   *)
(* every resume) of a run.                                                 *)
(*                                                                         *)
(* One resolution is one transaction.  It reads the active personas, then  *)
(* all of them, decides, and writes; its writes show at its commit.  With  *)
(* Concurrent, another run of the same user may commit between its reads   *)
(* and its commit, as two searches of one user do.                         *)
(***************************************************************************)
EXTENDS Integers, FiniteSets, FiniteSetsExt, Functions

CONSTANTS
    Boards,       \* the boards a run resolves a persona for
    Runs,         \* invocations of _resolve_run_identity, by start or resume
    PoolSize,     \* FINGERPRINT_POOL_SIZE (2)
    MaxSessions,  \* FINGERPRINT_DEVICE_MAX_SESSIONS (120)
    KeepRetired,  \* FINGERPRINT_RETIRED_KEEP (20)
    Concurrent,   \* may two runs of the user resolve at once?
    MaxResolves   \* bound: resolutions in all

ASSUME PersonasAssumption ==
    /\ {PoolSize, MaxSessions, MaxResolves} \subseteq Nat \ {0}  /\ KeepRetired \in Nat
    /\ Concurrent \in BOOLEAN

NoBoard == "no board"
NoRun   == "no run"

Modes == {"pool", "per_run"}
\* A device is named by the resolution that generated it.
Devices == (1..MaxResolves) \X (1..PoolSize)
PersonaRow ==
    [id : Devices,                \* what cookie jars and exit IPs are keyed on
     device : Devices,            \* the hardware the row describes
     board : Boards \union {NoBoard},
     count : Nat,                 \* session_count
     used : 0..MaxResolves,       \* last_used_at: 0 for never
     retired : BOOLEAN]

VARIABLES
    mode,      \* FINGERPRINT_MODE, read at each resolution
    rows,      \* the user's rows, by slot
    old,       \* the ids of rows past FINGERPRINT_DEVICE_MAX_AGE_DAYS
    clock,     \* resolutions begun
    step,      \* where a run's resolution is
    board,     \* the board it is for
    mine,      \* the active rows it read, by slot
    all,       \* the slots it saw when it read them all
    how,       \* the mode it read
    number,    \* its number
    last       \* history: the persona each board was given last

personaVars == <<mode, rows, old, clock, step, board, mine, all, how, number, last>>

NoSlot == [s \in {} |-> 0]

PersonasInit ==
    /\ mode \in Modes  /\ rows = NoSlot  /\ old = {}  /\ clock = 0
    /\ step = [r \in Runs |-> "idle"]  /\ board = [r \in Runs |-> NoBoard]
    /\ mine = [r \in Runs |-> NoSlot]  /\ all = [r \in Runs |-> {}]
    /\ how = [r \in Runs |-> "pool"]  /\ number = [r \in Runs |-> 0]
    /\ last = [b \in Boards |-> <<>>]

ActiveSlots(t) == {s \in DOMAIN t : ~t[s].retired}
WornOut(row)   == row.count >= MaxSessions \/ row.id \in old

-----------------------------------------------------------------------------
(* What a resolution writes, from what it read.                            *)

\* retire: only a row that is not retired yet.
Retired(row) == [row EXCEPT !.retired = TRUE, !.board = NoBoard]
Retire(t, slots) ==
    [s \in DOMAIN t |-> IF s \in slots /\ ~t[s].retired THEN Retired(t[s]) ELSE t[s]]

\* save: an upsert on the slot.  A row already there keeps its id, and takes
\* everything else from the entity.
Save(t, s, row) ==
    [x \in DOMAIN t \union {s} |->
        IF x # s THEN t[x]
        ELSE IF s \in DOMAIN t THEN [row EXCEPT !.id = t[s].id] ELSE row]

SaveAll(t, new) ==
    [x \in DOMAIN t \union DOMAIN new |->
        IF x \notin DOMAIN new THEN t[x]
        ELSE IF x \in DOMAIN t THEN [new[x] EXCEPT !.id = t[x].id] ELSE new[x]]

\* generate_device: the slot after the highest of those it was shown, the retired
\* ones included.
SlotOverActive(r, n) == n - 1 + (IF mine[r] = NoSlot THEN 0 ELSE Max(DOMAIN mine[r]) + 1)
NextSlot(r, n) == n - 1 + (IF all[r] = {} THEN 0 ELSE Max(all[r]) + 1)

Device(r, n) ==
    [id |-> <<number[r], n>>, device |-> <<number[r], n>>, board |-> NoBoard,
     count |-> 0, used |-> 0, retired |-> FALSE]

\* touch_used: by id, wherever the row is now.
Touch(t, id) ==
    [s \in DOMAIN t |-> IF t[s].id = id THEN [t[s] EXCEPT !.count = @ + 1, !.used = clock]
                        ELSE t[s]]

\* purge_retired: the newest KeepRetired retired rows, by slot, are kept.
Purge(t) ==
    LET gone == {s \in DOMAIN t : t[s].retired
                     /\ Cardinality({x \in DOMAIN t : t[x].retired /\ x > s}) >= KeepRetired}
    IN  Restrict(t, DOMAIN t \ gone)

-----------------------------------------------------------------------------
(* The two modes.  Each yields the new table and the slot it resolved to.  *)

\* The personas pinned to the board.
PinnedTo(pool, b) == {s \in DOMAIN pool : pool[s].board = b}

\* _mint_per_run_device: the board's personas are retired, a new device takes a
\* slot of its own.
PerRun(r) ==
    LET theirs == PinnedTo(mine[r], board[r])
        slot   == NextSlot(r, 1)
    IN  [table |-> Save(Retire(rows, theirs), slot, [Device(r, 1) EXCEPT !.board = board[r]]),
         slot |-> slot]

\* _claim_persona_for_board: an unpinned persona if there is one, else the one
\* used longest ago.
LeastRecent(pool) == {s \in DOMAIN pool : \A x \in DOMAIN pool : pool[s].used <= pool[x].used}
Claim(pool) ==
    LET unpinned == {s \in DOMAIN pool : pool[s].board = NoBoard}
    IN  Min(IF unpinned # {} THEN unpinned ELSE LeastRecent(pool))

\* _resolve_pooled_device: worn-out personas are retired, the pool is filled up
\* again, and the board gets the persona pinned to it, or claims one.
Pooled(r) ==
    LET worn   == {s \in DOMAIN mine[r] : WornOut(mine[r][s])}
        kept   == Restrict(mine[r], DOMAIN mine[r] \ worn)
        lacks  == Max({0, PoolSize - Cardinality(DOMAIN kept)})
        fresh  == [s \in {NextSlot(r, n) : n \in 1..lacks} |->
                      CHOOSE row \in {Device(r, n) : n \in 1..lacks} :
                          \E n \in 1..lacks : s = NextSlot(r, n) /\ row = Device(r, n)]
        filled == SaveAll(Retire(rows, worn), fresh)
        pool   == [s \in DOMAIN kept \union DOMAIN fresh |->
                      IF s \in DOMAIN fresh THEN filled[s] ELSE kept[s]]
        pinned == PinnedTo(pool, board[r])
        slot   == IF pinned # {} THEN Min(pinned) ELSE Claim(pool)
    IN  [table |-> IF pinned # {} THEN filled
                   ELSE Save(filled, slot, [pool[slot] EXCEPT !.board = board[r]]),
         slot |-> slot]

-----------------------------------------------------------------------------
(* A resolution.                                                           *)

Begin(r, b) ==
    /\ step[r] = "idle"  /\ clock < MaxResolves
    /\ Concurrent \/ \A q \in Runs : step[q] = "idle"
    /\ clock' = clock + 1
    /\ step' = [step EXCEPT ![r] = "read"]  /\ board' = [board EXCEPT ![r] = b]
    /\ how' = [how EXCEPT ![r] = mode]  /\ number' = [number EXCEPT ![r] = clock']
    /\ mine' = [mine EXCEPT ![r] = Restrict(rows, ActiveSlots(rows))]
    /\ UNCHANGED <<mode, rows, old, all, last>>

ReadAll(r) ==
    /\ step[r] = "read"  /\ step' = [step EXCEPT ![r] = "write"]
    /\ all' = [all EXCEPT ![r] = DOMAIN rows]
    /\ UNCHANGED <<mode, rows, old, clock, board, mine, how, number, last>>

Rest(r) ==
    /\ step' = [step EXCEPT ![r] = "idle"]  /\ board' = [board EXCEPT ![r] = NoBoard]
    /\ mine' = [mine EXCEPT ![r] = NoSlot]  /\ all' = [all EXCEPT ![r] = {}]
    /\ number' = [number EXCEPT ![r] = 0]  /\ how' = [how EXCEPT ![r] = "pool"]
    /\ UNCHANGED <<mode, clock>>

Commit(r) ==
    /\ step[r] = "write"
    /\ LET chosen == IF how[r] = "per_run" THEN PerRun(r) ELSE Pooled(r)
           id     == chosen.table[chosen.slot].id
       IN  /\ rows' = Purge(Touch(chosen.table, id))
           /\ last' = [last EXCEPT ![board[r]] = id]
    /\ old' = old \intersect {rows'[s].id : s \in DOMAIN rows'}
    /\ Rest(r)

\* The transaction fails, and the board runs without a persona this time.
Fail(r) ==
    /\ step[r] \in {"read", "write"}
    /\ Rest(r)
    /\ UNCHANGED <<rows, old, last>>

Age ==
    /\ \E s \in ActiveSlots(rows) : rows[s].id \notin old  /\ old' = old \union {rows[s].id}
    /\ UNCHANGED <<mode, rows, clock, step, board, mine, all, how, number, last>>

SwitchMode ==
    /\ mode' \in Modes \ {mode}
    /\ UNCHANGED <<rows, old, clock, step, board, mine, all, how, number, last>>

PersonasNext ==
    \/ \E r \in Runs : (\E b \in Boards : Begin(r, b)) \/ ReadAll(r) \/ Commit(r) \/ Fail(r)
    \/ Age \/ SwitchMode

PersonasSpec == PersonasInit /\ [][PersonasNext]_personaVars

-----------------------------------------------------------------------------
(* Properties.                                                             *)

PersonasTypeOK ==
    /\ mode \in Modes
    /\ \A s \in DOMAIN rows : s \in Nat /\ rows[s] \in PersonaRow
    /\ clock \in 0..MaxResolves
    /\ step \in [Runs -> {"idle", "read", "write"}]
    /\ board \in [Runs -> Boards \union {NoBoard}]

\* A persona's hardware is "stable for the life of the persona": the id that its
\* cookie jar and its exit IP are keyed on never comes to stand for another
\* device, nor is it given to a second row.
DeviceStable ==
    [][\A s \in DOMAIN rows, x \in DOMAIN rows' :
          rows[s].id = rows'[x].id => s = x /\ rows[s].device = rows'[x].device]_personaVars

\* "`board` pins a persona to one job board so that board always sees the same
\* machine": with a pool no smaller than the boards, a board that was given a
\* persona is given it again in pool mode, for as long as that persona is in use
\* and not worn out.
BoardKeepsItsPersona ==
    [][\A r \in Runs : LET b == board[r] IN
          Commit(r) /\ how[r] = "pool" =>
              \A s \in DOMAIN mine[r] :
                  mine[r][s].id = last[b] /\ ~WornOut(mine[r][s]) => last'[b] = last[b]]_personaVars

\* However often the mode is switched and devices wear out, a user's table stays
\* small: no more active personas than the pool and one per board, and no more
\* retired ones than are kept.
TableBounded ==
    /\ Cardinality(ActiveSlots(rows)) <= PoolSize + Cardinality(Boards)
    /\ Cardinality(DOMAIN rows \ ActiveSlots(rows)) <= KeepRetired
================================================================================
