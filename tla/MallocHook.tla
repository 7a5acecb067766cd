----------------------------- MODULE MallocHook -----------------------------
(***************************************************************************)
(* The memory account of skynet-src/malloc_hook.c: every block carries the *)
(* handle of the service that allocated it in its last bytes, the totals   *)
(* are atomic counters and mem_stats has one slot for every handle whose   *)
(* low bits are the same.  service-src/service_snlua.c accounts for the    *)
(* blocks of its Lua state on its own, with a limit.  A step is one atomic *)
(* operation or one plain read of a slot.                                  *)
(***************************************************************************)
EXTENDS Integers, Sequences, FiniteSets, FiniteSetsExt

CONSTANTS Threads,
          Handles,     \* of the services the threads run for
          SLOT_SIZE,
          Sizes,       \* the usable sizes of blocks
          LuaSizes,    \* what the Lua state asks for
          MemLimit,    \* mem_limit of snlua, 0 when there is none
          MaxBlock,    \* bound: blocks at one time
          MaxOps       \* bound: mallocs, reallocs and frees

VARIABLES blocks,  \* the live blocks: address -> [size, handle], size 0 when free
          total,   \* [used, block]: _used_memory and _memory_block
          stats,   \* mem_stats
          th,      \* of each thread, what it is in the middle of
          lua,     \* [mem, blocks, report] of a snlua service, blocks a sequence of sizes
          ops      \* operations done; MaxOps when this behaviour is about lua

mallocVars == <<blocks, total, stats, th, lua, ops>>

Addr == 1..MaxBlock
Idle == [at |-> "idle"]

MallocInit ==
    /\ blocks = [a \in Addr |-> [size |-> 0, handle |-> 0]]
    /\ total = [used |-> 0, block |-> 0]
    /\ stats = [h \in 0..(SLOT_SIZE - 1) |-> [handle |-> 0, allocated |-> 0]]
    /\ th = [t \in Threads |-> Idle]
    /\ lua = [mem |-> 0, blocks |-> <<>>, report |-> 2]
    /\ ops \in {0, MaxOps}

-----------------------------------------------------------------------------
(* What a thread is in the middle of: [at, h, n, then], n the number that  *)
(* is added to the account of h, then what follows: the address to realloc *)
(* or to free, 0 for none.                                                 *)

Slot(h) == h % SLOT_SIZE
Op(t) == th[t]
Counted == ops < MaxOps /\ ops' = ops + 1
Step(t, r) == th' = [th EXCEPT ![t] = r]

\* jemalloc gives a free address, here the first one
je_malloc(a, size, h) ==
    /\ blocks[a].size = 0 /\ \A b \in 1..(a - 1) : blocks[b].size > 0
    /\ blocks' = [blocks EXCEPT ![a] = [size |-> size, handle |-> h]]

\* the block is filled with the handle and the totals are counted
fill_prefix(t, a, h, size) ==
    /\ je_malloc(a, size, h)
    /\ Step(t, [at |-> "used", h |-> h, n |-> size, next |-> 0])

\* skynet_malloc and the functions that differ from it in the call of jemalloc
skynet_malloc(t, a, h, size) ==
    /\ th[t] = Idle
    /\ fill_prefix(t, a, h, size)
    /\ Counted
    /\ UNCHANGED <<total, stats, lua>>

\* a block is given to one owner: nobody else frees it, and no thread is
\* still counting its allocation
Owned(a) == blocks[a].size > 0 /\ \A t \in Threads : th[t] = Idle \/ (th[t] # Idle /\ th[t].next # a)

\* the handle is taken from the block, the totals are counted
clean_prefix(t, a, then) ==
    Step(t, [at |-> "used", h |-> blocks[a].handle, n |-> -blocks[a].size, next |-> a, then |-> then])

skynet_free(t, a) ==
    /\ th[t] = Idle /\ Owned(a)
    /\ clean_prefix(t, a, [size |-> 0, handle |-> 0])
    /\ Counted
    /\ UNCHANGED <<blocks, total, stats, lua>>

\* the block moves to the handle that reallocates it
skynet_realloc(t, a, h, size) ==
    /\ th[t] = Idle /\ Owned(a)
    /\ clean_prefix(t, a, [size |-> size, handle |-> h])
    /\ Counted
    /\ UNCHANGED <<blocks, total, stats, lua>>

\* je_free or je_realloc after clean_prefix; realloc goes on with fill_prefix
AfterClean(t) ==
    /\ Op(t).at = "cleaned"
    /\ blocks' = [blocks EXCEPT ![Op(t).next] = Op(t).then]
    /\ IF Op(t).then.size = 0 THEN Step(t, Idle)
       ELSE Step(t, [at |-> "used", h |-> Op(t).then.handle, n |-> Op(t).then.size, next |-> 0])
    /\ UNCHANGED <<total, stats, lua, ops>>

-----------------------------------------------------------------------------
(* update_xmalloc_stat_alloc and update_xmalloc_stat_free.                 *)

\* mutant: a block is counted when it is allocated, never when it is freed
update_xmalloc_stat_Half(t) ==
    [used |-> total.used + Op(t).n, block |-> total.block + (IF Op(t).n > 0 THEN 1 ELSE 0)]
update_xmalloc_stat(t) ==
    [used |-> total.used + Op(t).n, block |-> total.block + (IF Op(t).n > 0 THEN 1 ELSE -1)]

Count(t) ==
    /\ Op(t).at = "used"
    /\ total' = update_xmalloc_stat(t)
    /\ Step(t, [Op(t) EXCEPT !.at = "look"])
    /\ UNCHANGED <<blocks, stats, lua, ops>>

After(t) == IF Op(t).next = 0 THEN Idle ELSE [Op(t) EXCEPT !.at = "cleaned"]

\* get_allocated_field: the plain reads, then what they lead to
get_allocated_field(t) ==
    /\ Op(t).at = "look"
    /\ LET d == stats[Slot(Op(t).h)] IN
       IF d.handle = 0 \/ d.allocated <= 0
       THEN Step(t, [at |-> "take", h |-> Op(t).h, n |-> Op(t).n, next |-> Op(t).next, old |-> d,
                     then |-> IF Op(t).next = 0 THEN Idle ELSE Op(t).then])
       ELSE Step(t, [Op(t) EXCEPT !.at = "check"])
    /\ UNCHANGED <<blocks, total, stats, lua, ops>>

\* ATOM_CAS of the handle, and of a number below zero
Take(t) ==
    /\ Op(t).at = "take"
    /\ LET s == Slot(Op(t).h) IN
       IF stats[s].handle = Op(t).old.handle
       THEN /\ stats' = [stats EXCEPT ![s].handle = Op(t).h]
            /\ Step(t, [Op(t) EXCEPT !.at = IF Op(t).old.allocated < 0 THEN "reset" ELSE "check"])
       ELSE UNCHANGED stats /\ Step(t, After(t))
    /\ UNCHANGED <<blocks, total, lua, ops>>
Reset(t) ==
    /\ Op(t).at = "reset"
    /\ LET s == Slot(Op(t).h) IN
       stats' = [stats EXCEPT ![s].allocated = IF @ = Op(t).old.allocated THEN 0 ELSE @]
    /\ Step(t, [Op(t) EXCEPT !.at = "check"])
    /\ UNCHANGED <<blocks, total, lua, ops>>
Check(t) ==
    /\ Op(t).at = "check"
    /\ IF stats[Slot(Op(t).h)].handle = Op(t).h THEN Step(t, [Op(t) EXCEPT !.at = "add"]) ELSE Step(t, After(t))
    /\ UNCHANGED <<blocks, total, stats, lua, ops>>
Add(t) ==
    /\ Op(t).at = "add"
    /\ stats' = [stats EXCEPT ![Slot(Op(t).h)].allocated = @ + Op(t).n]
    /\ Step(t, After(t))
    /\ UNCHANGED <<blocks, total, lua, ops>>

-----------------------------------------------------------------------------
(* lalloc of snlua.  i is the block of the Lua state that is resized, 0    *)
(* for a new one: then osize is the kind of object, no size.               *)

Live == {a \in Addr : blocks[a].size > 0}
Refuses(mem, i, osize, nsize) ==
    MemLimit # 0 /\ mem > MemLimit /\ (i = 0 \/ (i # 0 /\ nsize > osize))

\* mutant: the kind of a new object is taken for a size
LuaMem_Osize(i, osize, nsize) == lua.mem + nsize - osize
LuaMem(i, osize, nsize) == lua.mem + nsize - (IF i = 0 THEN 0 ELSE osize)

\* skynet_lalloc: a size of 0 frees
skynet_lalloc(i, nsize) ==
    CASE i = 0 -> Append(lua.blocks, nsize)
      [] i # 0 /\ nsize = 0 -> SubSeq(lua.blocks, 1, i - 1) \o SubSeq(lua.blocks, i + 1, Len(lua.blocks))
      [] OTHER -> [lua.blocks EXCEPT ![i] = nsize]

lalloc(i, osize, nsize) ==
    /\ i # 0 => osize = lua.blocks[i]
    /\ ops = MaxOps /\ th = [t \in Threads |-> Idle] /\ Live = {}
    /\ i = 0 => nsize > 0 /\ Len(lua.blocks) < MaxBlock
    /\ LET mem == LuaMem(i, osize, nsize) IN
       lua' = IF Refuses(mem, i, osize, nsize) THEN lua
              ELSE [mem |-> mem, blocks |-> skynet_lalloc(i, nsize),
                    report |-> IF mem > lua.report THEN 2 * lua.report ELSE lua.report]
    /\ UNCHANGED <<blocks, total, stats, th, ops>>

MallocNext ==
    \/ \E t \in Threads :
          \/ \E a \in Addr, h \in Handles, size \in Sizes : skynet_malloc(t, a, h, size) \/ skynet_realloc(t, a, h, size)
          \/ \E a \in Addr : skynet_free(t, a)
          \/ AfterClean(t) \/ Count(t) \/ get_allocated_field(t)
          \/ Take(t) \/ Reset(t) \/ Check(t) \/ Add(t)
    \/ \E i \in 0..Len(lua.blocks), osize \in LuaSizes, nsize \in LuaSizes \cup {0} : lalloc(i, osize, nsize)

MallocSpec == MallocInit /\ [][MallocNext]_mallocVars

-----------------------------------------------------------------------------

\* the blocks the totals count: live ones and those a thread is about to count
Uncounted(t) == IF Op(t).at = "used" THEN Op(t).n ELSE 0
Sum(S, f(_)) == FoldSet(LAMBDA x, acc : acc + f(x), 0, S)
LuaSum == Sum(DOMAIN lua.blocks, LAMBDA i : lua.blocks[i])

(* When no thread is in the middle of an operation, the totals are exactly *)
(* the live blocks, whatever the threads did to the slots of mem_stats;    *)
(* the account of a Lua state is exactly its blocks, and beyond its limit  *)
(* the state never grows.                                                  *)
MemoryCounted ==
    /\ (\A t \in Threads : th[t] = Idle) =>
          total = [used |-> Sum(Live, LAMBDA a : blocks[a].size), block |-> Cardinality(Live)]
    /\ lua.mem = LuaSum
    /\ MemLimit # 0 => lua.mem <= MemLimit
=============================================================================
