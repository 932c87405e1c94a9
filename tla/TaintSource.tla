----------------------------- MODULE TaintSource -----------------------------
(***************************************************************************)
(* The taint sources of src/tools/mytool.cpp: post-syscall hooks that keep *)
(* the set of descriptors open on the fuzzing input (fdset) and tag each   *)
(* byte read from it with its offset in the input (tag_alloc(off, tid)).   *)
(*                                                                         *)
(* A hook runs in the calling thread after the kernel has finished the     *)
(* system call, so each call is two steps here, the kernel's (the Sys     *)
(* actions) and the hook's, and other threads' steps may come between     *)
(* them.  The kernel is                                                    *)
(* the environment: it gives open the lowest free descriptor, keeps one    *)
(* file position per descriptor and records in `origin` which input        *)
(* offset, if any, each byte of a thread's buffer now holds.  A tag is     *)
(* modelled by the offset it denotes (TaintMap's singleton), a cleared     *)
(* byte by NoTag.                                                          *)
(*                                                                         *)
(* readv's iovecs are taken as one contiguous buffer: the hook walks them  *)
(* in order with one running offset, so only the total read matters.       *)
(***************************************************************************)
EXTENDS Integers, FiniteSets

CONSTANTS
    Threads,
    Input, Other,  \* a file whose name contains "input", and one that does not
    NoFile,        \* a descriptor that is not open
    NoTag,         \* a byte with the cleared tag
    Fds,           \* descriptor numbers the process can get; 0 is stdin
    Calls,         \* Calls[t]: the system calls thread t makes
    Closable,      \* the descriptors the program closes
    FileLen,       \* length of every file
    MaxLen,        \* most bytes asked for by one read
    Asks,          \* the byte counts the program asks read, readv and pread64 for
    MaxCalls       \* system calls per thread

STDIN_FILENO == 0
FAIL == -1       \* the return value of a failed call

VARIABLES
    fdset,          \* the hooks' std::set<int> fdset
    stdin_read_off, \* the hooks' stdin_read_off
    tag,            \* the tag map on each thread's buffer
    fdtab,          \* kernel: the file each descriptor is open on
    pos,            \* kernel: each descriptor's file position
    origin,         \* kernel: the input offset each buffer byte holds
    pc,             \* "sys" (may make a call) or "post" (its hook is next)
    ctx,            \* syscall_ctx_t of the call whose hook is next
    ncalls

hooks == <<fdset, stdin_read_off, tag>>
kernel == <<fdtab, pos, origin>>
vars == <<hooks, kernel, pc, ctx, ncalls>>

Addr == Threads \X (0 .. MaxLen - 1)

Init ==
    /\ fdset = {}
    /\ stdin_read_off = 0
    /\ tag = [a \in Addr |-> NoTag]
    /\ fdtab = [fd \in Fds |-> IF fd = STDIN_FILENO THEN Other ELSE NoFile]
    /\ pos = [fd \in Fds |-> 0]
    /\ origin = [a \in Addr |-> NoTag]
    /\ pc = [t \in Threads |-> "sys"]
    /\ ctx = [t \in Threads |-> [sys |-> "none", fd |-> FAIL, ret |-> 0,
                                 file |-> NoFile, off |-> 0]]
    /\ ncalls = [t \in Threads |-> 0]

\* the lowest free descriptor, as POSIX requires of open
Free == {fd \in Fds : fdtab[fd] = NoFile}
Lowest == CHOOSE fd \in Free : \A g \in Free : fd <= g

\* a descriptor another thread's open has produced but not yet returned:
\* the program cannot name it yet
Unreturned == {ctx[u].ret : u \in {u \in Threads : pc[u] = "post" /\ ctx[u].sys \in {"open", "openat"}}}

\* what the byte at offset o of the file open on fd is, to the analysis
From(fd, o) == IF fdtab[fd] = Input THEN o ELSE NoTag

\* bytes 0 .. k-1 of t's buffer take what F gives for their index
Fill(f, t, k, F(_)) == [a \in Addr |-> IF a[1] = t /\ a[2] < k THEN F(a[2]) ELSE f[a]]

-----------------------------------------------------------------------------
(* The kernel's side of each call                                          *)

Call(t, c) ==
    /\ pc[t] = "sys"
    /\ c.sys \in Calls[t]
    /\ ncalls[t] < MaxCalls
    /\ ncalls' = [ncalls EXCEPT ![t] = @ + 1]
    /\ pc' = [pc EXCEPT ![t] = "post"]
    /\ ctx' = [ctx EXCEPT ![t] = c]

\* open / openat of f: the lowest free descriptor, or -1
SysOpen(t) ==
    \E f \in {Input, Other}, sys \in {"open", "openat"}, ok \in BOOLEAN :
        LET fd == IF ok /\ Free # {} THEN Lowest ELSE FAIL IN
        /\ Call(t, [sys |-> sys, fd |-> fd, ret |-> fd, file |-> f, off |-> 0])
        /\ IF fd = FAIL THEN UNCHANGED <<fdtab, pos>>
           ELSE /\ fdtab' = [fdtab EXCEPT ![fd] = f]
                /\ pos' = [pos EXCEPT ![fd] = 0]
        /\ UNCHANGED <<hooks, origin>>

SysClose(t) ==
    \E fd \in Closable \ Unreturned :
        /\ Call(t, [sys |-> "close", fd |-> fd, file |-> NoFile, off |-> 0,
                    ret |-> IF fdtab[fd] = NoFile THEN FAIL ELSE 0])
        /\ fdtab' = [fdtab EXCEPT ![fd] = NoFile]
        /\ UNCHANGED <<hooks, pos, origin>>

\* read / readv: up to n bytes from the file position, which advances
SysRead(t) ==
    \E fd \in Fds \ Unreturned, n \in Asks, sys \in {"read", "readv"} :
        LET k == IF FileLen - pos[fd] < n THEN FileLen - pos[fd] ELSE n IN
        IF fdtab[fd] = NoFile
        THEN /\ Call(t, [sys |-> sys, fd |-> fd, ret |-> FAIL, file |-> NoFile, off |-> 0])
             /\ UNCHANGED <<hooks, kernel>>
        ELSE /\ Call(t, [sys |-> sys, fd |-> fd, ret |-> k, file |-> NoFile, off |-> 0])
             /\ origin' = Fill(origin, t, k, LAMBDA i : From(fd, pos[fd] + i))
             /\ pos' = [pos EXCEPT ![fd] = @ + k]
             /\ UNCHANGED <<hooks, fdtab>>

\* pread64: up to n bytes from offset off; the file position stays
SysPread(t) ==
    \E fd \in Fds \ Unreturned, n \in Asks, off \in 0 .. FileLen - 1 :
        LET k == IF FileLen - off < n THEN FileLen - off ELSE n IN
        /\ Call(t, [sys |-> "pread64", fd |-> fd, file |-> NoFile, off |-> off,
                    ret |-> IF fdtab[fd] = NoFile THEN FAIL ELSE k])
        /\ IF fdtab[fd] = NoFile THEN UNCHANGED origin
           ELSE origin' = Fill(origin, t, k, LAMBDA i : From(fd, off + i))
        /\ UNCHANGED <<hooks, fdtab, pos>>

-----------------------------------------------------------------------------
(* The hooks (syscall_set_post in main)                                    *)

Hook(t, name) ==
    /\ pc[t] = "post"
    /\ ctx[t].sys = name
    /\ pc' = [pc EXCEPT ![t] = "sys"]
    /\ UNCHANGED <<kernel, ncalls, ctx>>

\* post_open_hook: a failed open is ignored; a descriptor of a file whose
\* name contains FUZZING_INPUT_FILE joins fdset
post_open_hook(t) ==
    /\ Hook(t, "open")
    /\ fdset' = IF ctx[t].ret >= 0 /\ ctx[t].file = Input
                THEN fdset \cup {ctx[t].ret} ELSE fdset
    /\ UNCHANGED <<stdin_read_off, tag>>

\* post_openat_hook: the same test of the name, without the test of fd
post_openat_hook(t) ==
    /\ Hook(t, "openat")
    /\ fdset' = IF ctx[t].file = Input THEN fdset \cup {ctx[t].ret} ELSE fdset
    /\ UNCHANGED <<stdin_read_off, tag>>

\* post_close_hook: after a successful close, erase the descriptor
post_close_hook(t) ==
    /\ Hook(t, "close")
    /\ fdset' = IF ctx[t].ret < 0 THEN fdset ELSE fdset \ {ctx[t].fd}
    /\ UNCHANGED <<stdin_read_off, tag>>

\* lseek(fd, 0, SEEK_CUR), made by the hook after the read has returned
Lseek(fd) == IF fdtab[fd] = NoFile THEN FAIL ELSE pos[fd]

\* post_read_hook: for a tracked descriptor the first byte's offset is
\* stdin_read_off (which then grows by nr) for STDIN_FILENO, else the
\* position lseek reports minus nr; an untracked read clears the bytes.
\* read_off is an unsigned int: a negative value here (lseek's -1 minus
\* nr) stands for that value plus 2^32, an offset no input byte has.
post_read_hook(t) ==
    LET fd == ctx[t].fd
        nr == ctx[t].ret
        read_off == IF fd = STDIN_FILENO THEN stdin_read_off ELSE Lseek(fd) - nr
    IN
    /\ Hook(t, "read")
    /\ IF nr <= 0 THEN UNCHANGED <<stdin_read_off, tag>>
       ELSE IF fd \in fdset
       THEN /\ tag' = Fill(tag, t, nr, LAMBDA i : read_off + i)
            /\ IF fd = STDIN_FILENO THEN stdin_read_off' = stdin_read_off + nr
                                    ELSE UNCHANGED stdin_read_off
       ELSE /\ tag' = Fill(tag, t, nr, LAMBDA i : NoTag)
            /\ UNCHANGED stdin_read_off
    /\ UNCHANGED fdset

\* post_pread64_hook: the offset is the call's fourth argument
post_pread64_hook(t) ==
    LET nr == ctx[t].ret IN
    /\ Hook(t, "pread64")
    /\ tag' = IF nr <= 0 THEN tag
              ELSE IF ctx[t].fd \in fdset
              THEN Fill(tag, t, nr, LAMBDA i : ctx[t].off + i)
              ELSE Fill(tag, t, nr, LAMBDA i : NoTag)
    /\ UNCHANGED <<fdset, stdin_read_off>>

\* post_readv_hook: walk the iovecs with read_off counting up from 0
post_readv_hook(t) ==
    LET nr == ctx[t].ret IN
    /\ Hook(t, "readv")
    /\ tag' = IF nr <= 0 THEN tag
              ELSE IF ctx[t].fd \in fdset
              THEN Fill(tag, t, nr, LAMBDA i : i)
              ELSE Fill(tag, t, nr, LAMBDA i : NoTag)
    /\ UNCHANGED <<fdset, stdin_read_off>>

Thread(t) ==
    \/ SysOpen(t) \/ SysClose(t) \/ SysRead(t) \/ SysPread(t)
    \/ post_open_hook(t) \/ post_openat_hook(t) \/ post_close_hook(t)
    \/ post_read_hook(t) \/ post_pread64_hook(t) \/ post_readv_hook(t)

\* every thread has made its calls and run their hooks
Done == \A t \in Threads : pc[t] = "sys" /\ ncalls[t] = MaxCalls

Next == (\E t \in Threads : Thread(t)) \/ (Done /\ UNCHANGED vars)

Spec == Init /\ [][Next]_vars

-----------------------------------------------------------------------------
\* Once a thread's hook has run, every byte of its buffer carries the tag
\* of what the kernel put there: the input offset it was read from, or the
\* cleared tag for data from any other file (post_*_hook's fdset lookup and
\* offset arithmetic).
TagsMatchInput ==
    \A a \in Addr : pc[a[1]] = "sys" => tag[a] = origin[a]
=============================================================================
