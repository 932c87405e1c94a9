------------------------------- MODULE MmapHook -------------------------------
(***************************************************************************)
(* post_mmap_hook of src/tools/mytool.cpp: after mmap, tag the bytes of a  *)
(* mapping of the input with their offsets and clear the shadow of any     *)
(* other mapping.  Memory is NP pages of PAGE_SZ bytes; the kernel (the    *)
(* environment) places each mapping on free pages, fills byte j of a       *)
(* mapping of the input at file offset off with input byte off + j while   *)
(* that is inside the file, and with zeros after it.  One thread; fdset  *)
(* holds the input's descriptor, and -1 too when an openat of the input   *)
(* failed (post_openat_hook inserts its return value untested): the races *)
(* that lose or keep other descriptors in fdset are TaintSource's.        *)
(***************************************************************************)
EXTENDS Integers

CONSTANTS
    PAGE_SZ, NP,
    FileLen,
    NoTag,
    Lens,        \* lengths the program maps
    Offs,        \* file offsets it maps at (multiples of PAGE_SZ)
    MaxCalls

MAP_FAILED == -1
\* the descriptor argument, by what it is: the input (in fdset), another
\* file, or -1 for an anonymous mapping
FdIn == "input"
FdOther == "other"
Anon == "anonymous"
Addr == 0 .. NP * PAGE_SZ - 1
Page(a) == a \div PAGE_SZ
\* pages a mapping of len bytes takes
NPages(len) == (len + PAGE_SZ - 1) \div PAGE_SZ

VARIABLES
    fdset,   \* the hooks' fdset, by the descriptors' kinds
    tag,     \* the shadow tag of each byte
    origin,  \* kernel: the input offset each byte holds, or NoTag
    owner,   \* kernel: the descriptor each page is mapped from, or "free"
    pc,      \* "idle", or "post" before the hook of the last mmap
    ctx,     \* syscall_ctx_t of that mmap
    ncalls

vars == <<fdset, tag, origin, owner, pc, ctx, ncalls>>

Init ==
    /\ fdset \in {{FdIn}, {FdIn, Anon}}
    /\ tag = [a \in Addr |-> NoTag]
    /\ origin = [a \in Addr |-> NoTag]
    /\ owner = [p \in 0 .. NP - 1 |-> "free"]
    /\ pc = "idle"
    /\ ctx = [ret |-> 0, len |-> 0, fd |-> Anon, growsdown |-> FALSE]
    /\ ncalls = 0

\* the kernel's mmap(NULL, len, ..., flags, fd, off) placed at page p
SysMmap ==
    \E len \in Lens, fd \in {FdIn, FdOther, Anon}, off \in Offs,
       gd \in BOOLEAN, p \in 0 .. NP - 1 :
        LET new == p .. p + NPages(len) - 1 IN
        /\ pc = "idle" /\ ncalls < MaxCalls
        /\ new \subseteq 0 .. NP - 1
        /\ \A q \in new : owner[q] = "free"
        /\ owner' = [q \in 0 .. NP - 1 |-> IF q \in new THEN fd ELSE owner[q]]
        /\ origin' = [a \in Addr |->
                        IF Page(a) \notin new THEN origin[a]
                        ELSE LET j == a - p * PAGE_SZ IN
                             IF fd = FdIn /\ j < len /\ off + j < FileLen
                             THEN off + j ELSE NoTag]
        /\ ctx' = [ret |-> p * PAGE_SZ, len |-> len, fd |-> fd, growsdown |-> gd]
        /\ pc' = "post"
        /\ ncalls' = ncalls + 1
        /\ UNCHANGED <<fdset, tag>>

\* mmap fails: no room, or any other error
SysMmapFail ==
    /\ pc = "idle" /\ ncalls < MaxCalls
    /\ ctx' = [ctx EXCEPT !.ret = MAP_FAILED]
    /\ pc' = "post"
    /\ ncalls' = ncalls + 1
    /\ UNCHANGED <<fdset, tag, origin, owner>>

\* the length post_mmap_hook works on: at least a page, else rounded up
RoundLen(len) ==
    IF len < PAGE_SZ THEN PAGE_SZ ELSE len + PAGE_SZ - (len % PAGE_SZ)

\* post_mmap_hook: with MAP_GROWSDOWN ctx->ret is moved down by the
\* rounded length; a mapping of a descriptor in fdset tags byte i from
\* the returned address with offset i, any other has its bytes cleared
\* from ctx->ret
post_mmap_hook ==
    LET offset == RoundLen(ctx.len)
        addr == ctx.ret
        ret == IF ctx.growsdown THEN ctx.ret - offset ELSE ctx.ret
    IN
    /\ pc = "post"
    /\ tag' = IF ctx.ret = MAP_FAILED THEN tag
              ELSE IF ctx.fd \in fdset
              THEN [a \in Addr |-> IF addr <= a /\ a < addr + offset
                                   THEN a - addr ELSE tag[a]]
              ELSE [a \in Addr |-> IF ret <= a /\ a < ret + offset
                                   THEN NoTag ELSE tag[a]]
    /\ pc' = "idle"
    /\ UNCHANGED <<fdset, origin, owner, ctx, ncalls>>

Next ==
    \/ SysMmap \/ SysMmapFail \/ post_mmap_hook
    \/ (pc = "idle" /\ ncalls = MaxCalls /\ UNCHANGED vars)

Spec == Init /\ [][Next]_vars

-----------------------------------------------------------------------------
=============================================================================
