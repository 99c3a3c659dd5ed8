-------------------------------- MODULE Wasi --------------------------------
(***************************************************************************)
(* The WASI calls of a sandbox: sledge_abi.c, which translates between the *)
(* linear memory of the module and the host, the serverless backing behind *)
(* it (libc/wasi_impl_serverless.c) and the (de)serialisation of           *)
(* wasi_serdes.h.  stdin is the body of the request, stdout and stderr are *)
(* the body of the response, the arguments are the module's path and the   *)
(* query parameters, and there is no file system.                          *)
(*                                                                         *)
(* A call is made in SANDBOX_RUNNING_USER, runs in SANDBOX_RUNNING_SYS     *)
(* (sandbox_syscall .. sandbox_return), where the sandbox is not preempted *)
(* and touches only what it owns: each call is one step.  The module of    *)
(* the model prepares its buffers, makes the call and then reads what the  *)
(* call left in its memory; seen records what it has learnt.               *)
(*                                                                         *)
(* Memory is a function from offsets to bytes.  A byte has Byte values, so *)
(* that small offsets need several bytes and their order matters.          *)
(***************************************************************************)
EXTENDS Integers, SequencesExt

CONSTANTS
    Sandbox,    \* sandboxes of one tenant
    MemSize,    \* size of a linear memory in bytes
    Byte,       \* number of values of a byte of an integer
    BodyLen,    \* http_request.body_length
    ArgLens,    \* lengths of the module's path and of the query parameters' values
    ReadLens,   \* the vectors of buffer lengths that modules pass to fd_read
    WriteLens,  \* and to fd_write
    Plan        \* how many calls of each kind the sandboxes will make (a bound)

VARIABLES
    state,      \* sandbox->state: RUNNING_USER, or RETURNED after proc_exit
    cursor,     \* http_request.cursor
    response,   \* http->response_body
    has_udev,   \* static variable of random_get, shared by all threads
    aborted,    \* an assertion has failed or the runtime has crashed
    left,       \* how many calls of each kind a sandbox will still make (bounded by Plan)
    seen        \* what the module has learnt from its calls (history)

host == <<cursor, response, has_udev>>
wasi_vars == <<state, host, aborted, left, seen>>

Unknown == [stdin   |-> <<>>,   \* what it has read from stdin
            asked   |-> 0,      \* how many bytes it has asked to be written
            written |-> 0,      \* how many it was told are written
            failed  |-> FALSE,  \* whether a write has failed
            sizes   |-> <<>>,   \* result of args_sizes_get
            argv    |-> <<>>,   \* result of args_get
            rc      |-> "SUCCESS",
            stray   |-> {}]     \* bytes the last call changed that it was not given

\* The text of the data: the k-th byte of the body, of the output, and of argument i.
BodyByte(k) == 100 + k
OutByte(k) == 200 + k
ArgByte(i, k) == 10 * i + k
NUL == 0
Unset == 99

-----------------------------------------------------------------------------
(***************************************************************************)
(* Linear memory and wasi_serdes.h.                                        *)
(***************************************************************************)
Blank == [o \in 0 .. MemSize - 1 |-> Unset]

\* memcpy of the bytes in seq to offset o.
Put(mem, o, seq) ==
    [a \in DOMAIN mem |-> IF a - o + 1 \in DOMAIN seq THEN seq[a - o + 1] ELSE mem[a]]

Get(mem, o, len) == [k \in 1 .. len |-> mem[o + k - 1]]

\* The assertion in get_memory_ptr_for_runtime.
get_memory_ptr_for_runtime(offset, length) == offset + length < MemSize

wasi_serdes_check_bounds(offset, end, size) == end > offset /\ size <= end - offset

wasi_serdes_read_uint16_t(mem, o) == mem[o] + Byte * mem[o + 1]

wasi_serdes_read_uint32_t(mem, o) ==
    wasi_serdes_read_uint16_t(mem, o) + Byte * Byte * wasi_serdes_read_uint16_t(mem, o + 2)

\* A store of a 32-bit integer, by the module or through a host pointer: little endian.
wasi_serdes_write_uint32_t(mem, o, v) ==
    Put(mem, o, [k \in 1 .. 4 |-> (v \div Byte ^ (k - 1)) % Byte])

\* WASI_SERDES_SIZE_size_t and WASI_SERDES_SIZE_iovec_t
SizeOfSize == 4
SizeOfIovec == 8

wasi_serdes_read_iovec_t(mem, o) ==
    [buf |-> wasi_serdes_read_uint32_t(mem, o), buf_len |-> wasi_serdes_read_uint32_t(mem, o + 4)]

\* The vector of iovs_len entries at offset o; a buffer out of bounds is __WASI_ERRNO_OVERFLOW.
wasi_serdes_readv_iovec_t(mem, o, iovs_len) ==
    LET iovs == [i \in 1 .. iovs_len |-> wasi_serdes_read_iovec_t(mem, o + SizeOfIovec * (i - 1))]
    IN  [iovs |-> iovs,
         rc   |-> IF \A i \in DOMAIN iovs : wasi_serdes_check_bounds(iovs[i].buf, MemSize, iovs[i].buf_len)
                  THEN "SUCCESS" ELSE "OVERFLOW"]

\* Where string or buffer i starts when each one takes a byte more than its length.
Before(lens, i) == SumFunction([j \in 1 .. i - 1 |-> lens[j] + 1])

(***************************************************************************)
(* The module's side: a vector of buffers at offset 0, the result behind   *)
(* it, then the buffers with a byte between them.  The result may also be  *)
(* in the last bytes of memory, which the assertion refuses.               *)
(***************************************************************************)
RetAt(lens) == SizeOfIovec * Len(lens)
RetOffsets(lens) == {RetAt(lens), MemSize - SizeOfSize}
Buffers(lens) == [i \in DOMAIN lens |-> [buf |-> RetAt(lens) + SizeOfSize + Before(lens, i), buf_len |-> lens[i]]]
Vector(lens) ==
    FoldLeft(LAMBDA mem, i : wasi_serdes_write_uint32_t(
                                 wasi_serdes_write_uint32_t(mem, SizeOfIovec * (i - 1), Buffers(lens)[i].buf),
                                 SizeOfIovec * (i - 1) + 4, Buffers(lens)[i].buf_len),
             Blank, [i \in DOMAIN lens |-> i])
\* The bytes in the buffers, one buffer after the other.
Gather(mem, iovs) == FoldLeft(LAMBDA s, iov : s \o Get(mem, iov.buf, iov.buf_len), <<>>, iovs)

Prefix(seq, n) == SubSeq(seq, 1, Min({n, Len(seq)}))

\* The offsets in the given regions [offset, length].
Area(regions) == UNION {r.buf .. r.buf + r.buf_len - 1 : r \in Range(regions)}
Stray(before, after, regions) == {a \in DOMAIN before \ Area(regions) : after[a] # before[a]}

-----------------------------------------------------------------------------
(***************************************************************************)
(* Calls.                                                                  *)
(***************************************************************************)
Makes(s, kind) ==
    /\ ~aborted
    /\ state[s] = "RUNNING_USER"
    /\ left[s][kind] > 0
    /\ left' = [left EXCEPT ![s][kind] = @ - 1]

Call(s) == Makes(s, "wasi")

Learns(s, what) == seen' = [seen EXCEPT ![s] = what @@ @]

Abort == aborted' = TRUE /\ UNCHANGED <<state, host, seen>>

(***************************************************************************)
(* Every function of libsledge's wasi_snapshot_preview1.c forwards to the  *)
(* call of the same name in sledge_abi.c.                                  *)
(***************************************************************************)
fd_imports ==
    {"fd_advise", "fd_allocate", "fd_close", "fd_datasync", "fd_fdstat_get", "fd_fdstat_set_flags",
     "fd_fdstat_set_rights", "fd_filestat_get", "fd_filestat_set_size", "fd_filestat_set_times",
     "fd_pread", "fd_prestat_get", "fd_prestat_dir_name", "fd_pwrite", "fd_read", "fd_readdir",
     "fd_renumber", "fd_seek", "fd_sync", "fd_tell", "fd_write"}
path_imports ==
    {"path_create_directory", "path_filestat_get", "path_filestat_set_times", "path_link", "path_open",
     "path_readlink", "path_remove_directory", "path_rename", "path_symlink", "path_unlink_file"}
process_imports ==
    {"args_get", "args_sizes_get", "clock_res_get", "clock_time_get", "environ_get", "environ_sizes_get"}
other_imports ==
    {"poll_oneoff", "proc_exit", "proc_raise", "random_get", "sched_yield", "sock_recv", "sock_send",
     "sock_shutdown"}

\* The calls that sledge_abi.c answers with wasi_unsupported_syscall.
abi_unsupported_fd ==
    {"fd_advise", "fd_allocate", "fd_close", "fd_datasync", "fd_fdstat_get", "fd_fdstat_set_flags",
     "fd_fdstat_set_rights", "fd_filestat_get", "fd_filestat_set_size", "fd_filestat_set_times", "fd_pread"}
abi_unsupported_fd_2 == {"fd_prestat_dir_name", "fd_pwrite"}
abi_unsupported_fd_3 == {"fd_readdir", "fd_renumber", "fd_seek", "fd_sync", "fd_tell"}
abi_unsupported_path == path_imports
abi_unsupported_clock == {"clock_res_get"}
abi_unsupported_poll == {"poll_oneoff"}
abi_unsupported_raise == {"proc_raise"}
abi_unsupported_other == {"sched_yield", "sock_recv", "sock_send", "sock_shutdown"}
abi_unsupported ==
    UNION {abi_unsupported_fd, abi_unsupported_fd_2, abi_unsupported_fd_3, abi_unsupported_path,
           abi_unsupported_clock, abi_unsupported_poll, abi_unsupported_raise, abi_unsupported_other}

imports == fd_imports \cup path_imports \cup process_imports \cup other_imports

\* wasi_unsupported_syscall: the result of a call that is not implemented.
wasi_unsupported_syscall == "NOTSUP"

ASSUME WasiAssumption ==
    /\ MemSize \in Nat /\ Byte \in Nat \ {0, 1} /\ MemSize < Byte ^ 4
    /\ BodyLen \in Nat
    /\ Plan \subseteq [Sandbox -> [wasi : Nat, scratch : Nat]]
    /\ ArgLens \in Seq(Nat) /\ ArgLens # <<>>
    /\ \A lens \in ReadLens \cup WriteLens : lens \in Seq(Nat)

-----------------------------------------------------------------------------
(***************************************************************************)
(* Arguments.                                                              *)
(***************************************************************************)

\* Mutant: the NUL that ends each argument is not counted.
ContextWithoutNuls(lens) ==
    LET arg(i) == Append([k \in 1 .. lens[i] |-> ArgByte(i, k)], NUL)
    IN  [argc                |-> Len(lens),
         argv_buf_size       |-> SumFunction(lens),
         argv_buf            |-> FlattenSeq([i \in DOMAIN lens |-> arg(i)]),
         argv_buffer_offsets |-> [i \in DOMAIN lens |-> Before(lens, i)]]

\* The arguments, each with its NUL, one behind the other.
wasi_context_init(lens) ==
    LET arg(i) == Append([k \in 1 .. lens[i] |-> ArgByte(i, k)], NUL)
    IN  [argc                |-> Len(lens),
         argv_buf_size       |-> Before(lens, Len(lens) + 1),
         argv_buf            |-> FlattenSeq([i \in DOMAIN lens |-> arg(i)]),
         argv_buffer_offsets |-> [i \in DOMAIN lens |-> Before(lens, i)]]

context == wasi_context_init(ArgLens)

\* The backing's args_get: the text goes to the buffer, pointers into it to argv_temp.
backing_args_get(mem, buf) ==
    [mem       |-> Put(mem, buf, context.argv_buf),
     argv_temp |-> [i \in 1 .. context.argc |-> buf + context.argv_buffer_offsets[i]]]

backing_args_sizes_get == <<context.argc, context.argv_buf_size>>

\* A pair of sizes stored through two result pointers, as the module sees it.
Pair(sizes) ==
    LET mem == wasi_serdes_write_uint32_t(wasi_serdes_write_uint32_t(Blank, 0, sizes[1]), SizeOfSize, sizes[2])
    IN  [seen  |-> <<wasi_serdes_read_uint32_t(mem, 0), wasi_serdes_read_uint32_t(mem, SizeOfSize)>>,
         stray |-> Stray(Blank, mem, <<[buf |-> 0, buf_len |-> 2 * SizeOfSize]>>)]

args_sizes_get(s) ==
    /\ Call(s)
    /\ LET pair == Pair(backing_args_sizes_get)
       IN  Learns(s, [rc |-> "SUCCESS", sizes |-> pair.seen, stray |-> pair.stray])
    /\ UNCHANGED <<state, host, aborted>>

\* The string at offset o.
CString(mem, o) == Get(mem, o, CHOOSE n \in 0 .. MemSize - o :
                                  /\ n < MemSize - o => mem[o + n] = NUL
                                  /\ \A k \in 0 .. n - 1 : mem[o + k] # NUL)

(***************************************************************************)
(* The module allocates the vector and the text as large as it was told,   *)
(* next to each other in either order, slack bytes below the end of its    *)
(* memory.  argc is at least one: args[0] is the module's path.            *)
(***************************************************************************)
args_get(s, vector_first, slack) ==
    LET argc == seen[s].sizes[1]
        size == seen[s].sizes[2]
        low  == MemSize - slack - SizeOfSize * argc - size
        argv == IF vector_first THEN low ELSE low + size
        buf  == IF vector_first THEN low + SizeOfSize * argc ELSE low
        got  == backing_args_get(Blank, buf)
        mem  == FoldLeft(LAMBDA m, i : wasi_serdes_write_uint32_t(m, argv + SizeOfSize * (i - 1),
                                           buf + (got.argv_temp[i] - got.argv_temp[1])),
                         got.mem, [i \in 1 .. context.argc |-> i])
    IN  /\ seen[s].sizes # <<>>
        /\ Call(s)
        /\ IF /\ get_memory_ptr_for_runtime(argv, SizeOfSize * context.argc)
              /\ get_memory_ptr_for_runtime(buf, context.argv_buf_size)
           THEN /\ Learns(s, [rc    |-> "SUCCESS",
                              argv  |-> [i \in 1 .. argc |->
                                          CString(mem, wasi_serdes_read_uint32_t(mem, argv + SizeOfSize * (i - 1)))],
                              stray |-> Stray(Blank, mem, <<[buf |-> argv, buf_len |-> SizeOfSize * argc],
                                                            [buf |-> buf, buf_len |-> size]>>)])
                /\ UNCHANGED <<state, host, aborted>>
           ELSE Abort

\* There is no environment: envp is NULL, and envc and env_buf_size stay zero.
backing_environ_sizes_get == <<0, 0>>

environ_sizes_get(s) ==
    /\ Call(s)
    /\ Learns(s, [rc |-> "SUCCESS", stray |-> Pair(backing_environ_sizes_get).stray])
    /\ UNCHANGED <<state, host, aborted>>

(***************************************************************************)
(* With envc = 0, environ_get jumps over the initialisation of env_temp    *)
(* and frees it unless it happens to be NULL.                              *)
(***************************************************************************)
environ_get(s) ==
    /\ Call(s)
    /\ \/ Learns(s, [rc |-> "SUCCESS", stray |-> {}]) /\ UNCHANGED <<state, host, aborted>>
       \/ Abort

-----------------------------------------------------------------------------
(***************************************************************************)
(* stdin.                                                                  *)
(***************************************************************************)
\* Mutant: every buffer is filled from where the call started.
ReadFromOld(mem, at, iovs) ==
    FoldLeft(LAMBDA r, iov :
                 LET amount_to_copy == Min({iov.buf_len, BodyLen - r.cursor})
                 IN  [mem    |-> Put(r.mem, iov.buf, [k \in 1 .. amount_to_copy |-> BodyByte(at + k)]),
                      cursor |-> r.cursor + amount_to_copy],
             [mem |-> mem, cursor |-> at], iovs)

\* Mutant: a buffer receives all that is left of the body.
ReadAll(mem, at, iovs) ==
    FoldLeft(LAMBDA r, iov :
                 [mem    |-> Put(r.mem, iov.buf, [k \in 1 .. BodyLen - r.cursor |-> BodyByte(r.cursor + k)]),
                  cursor |-> BodyLen],
             [mem |-> mem, cursor |-> at], iovs)

\* The loop of the backing's fd_read: each buffer takes what it can of the rest of the body.
backing_fd_read(mem, at, iovs) ==
    FoldLeft(LAMBDA r, iov :
                 LET amount_to_copy == Min({iov.buf_len, BodyLen - r.cursor})
                 IN  [mem    |-> Put(r.mem, iov.buf, [k \in 1 .. amount_to_copy |-> BodyByte(r.cursor + k)]),
                      cursor |-> r.cursor + amount_to_copy],
             [mem |-> mem, cursor |-> at], iovs)

fd_read(s, fd, lens, ret) ==
    LET mem0  == Vector(lens)
        vec   == wasi_serdes_readv_iovec_t(mem0, 0, Len(lens))
        got   == backing_fd_read(mem0, cursor[s], vec.iovs)
        mem   == wasi_serdes_write_uint32_t(got.mem, ret, got.cursor - cursor[s])
        nread == wasi_serdes_read_uint32_t(mem, ret)
        rc    == CASE vec.rc # "SUCCESS" -> vec.rc
                   [] vec.rc = "SUCCESS" /\ fd # 0 -> wasi_unsupported_syscall
                   [] OTHER -> "SUCCESS"
    IN  /\ Call(s)
        /\ \/ ~get_memory_ptr_for_runtime(ret, SizeOfSize) /\ Abort
           \/ /\ get_memory_ptr_for_runtime(ret, SizeOfSize)
              /\ IF rc = "SUCCESS"
                 THEN /\ cursor' = [cursor EXCEPT ![s] = got.cursor]
                      /\ Learns(s, [rc    |-> rc,
                                    stdin |-> seen[s].stdin \o Prefix(Gather(mem, Buffers(lens)), nread),
                                    stray |-> Stray(mem0, mem, Append(Buffers(lens),
                                                           [buf |-> ret, buf_len |-> SizeOfSize]))])
                 ELSE /\ Learns(s, [rc |-> rc, stray |-> {}])
                      /\ UNCHANGED cursor
              /\ UNCHANGED <<state, response, has_udev, aborted>>

-----------------------------------------------------------------------------
(***************************************************************************)
(* stdout and stderr.                                                      *)
(***************************************************************************)
\* Mutant: nwritten is the result of the last fwrite, not the sum.
CountLastWrite(mem, iovs, bytes) ==
    [out |-> SubSeq(Gather(mem, iovs), 1, bytes),
     rc  |-> IF bytes = Len(Gather(mem, iovs)) THEN "SUCCESS" ELSE "FBIG",
     nwritten |-> Last(iovs).buf_len]

\* The buffers are appended one by one; fwrite accepts the first bytes of them.  A short
\* fwrite ends the call, and what was written before it stays.
backing_fd_write(mem, iovs, bytes) ==
    [out |-> SubSeq(Gather(mem, iovs), 1, bytes),
     rc  |-> IF bytes = Len(Gather(mem, iovs)) THEN "SUCCESS" ELSE "FBIG",
     nwritten |-> SumFunction([i \in DOMAIN iovs |-> iovs[i].buf_len])]

fd_write(s, fd, lens, ret) ==
    LET total == SumFunction(lens)
        data  == [k \in 1 .. total |-> OutByte(seen[s].asked + k)]
        mem0  == FoldLeft(LAMBDA m, i : Put(m, Buffers(lens)[i].buf,
                                            [k \in 1 .. lens[i] |-> data[SumFunction(SubSeq(lens, 1, i - 1)) + k]]),
                          Vector(lens), [i \in DOMAIN lens |-> i])
        vec   == wasi_serdes_readv_iovec_t(mem0, 0, Len(lens))
    IN  /\ Call(s)
        /\ \/ ~get_memory_ptr_for_runtime(ret, SizeOfSize) /\ Abort
           \/ /\ get_memory_ptr_for_runtime(ret, SizeOfSize)
              /\ vec.rc # "SUCCESS" \/ fd \notin {1, 2}
              /\ Learns(s, [rc |-> IF vec.rc # "SUCCESS" THEN vec.rc ELSE wasi_unsupported_syscall, stray |-> {}])
              /\ UNCHANGED <<state, host, aborted>>
           \/ /\ get_memory_ptr_for_runtime(ret, SizeOfSize)
              /\ vec.rc = "SUCCESS" /\ fd \in {1, 2}
              /\ \E bytes \in 0 .. total :
                     LET put == backing_fd_write(mem0, vec.iovs, bytes)
                         mem == wasi_serdes_write_uint32_t(mem0, ret, put.nwritten)
                     IN  /\ response' = [response EXCEPT ![s] = @ \o put.out]
                         /\ Learns(s, [rc      |-> put.rc,
                                       asked   |-> seen[s].asked + total,
                                       failed  |-> seen[s].failed \/ put.rc # "SUCCESS",
                                       written |-> seen[s].written + IF put.rc = "SUCCESS"
                                                     THEN wasi_serdes_read_uint32_t(mem, ret) ELSE 0,
                                       stray   |-> IF put.rc = "SUCCESS"
                                                   THEN Stray(mem0, mem, <<[buf |-> ret, buf_len |-> SizeOfSize]>>)
                                                   ELSE {}])
              /\ UNCHANGED <<state, cursor, has_udev, aborted>>

-----------------------------------------------------------------------------
(***************************************************************************)
(* The other calls.                                                        *)
(***************************************************************************)
\* An unsupported call leaves everything as it is; it does not enter RUNNING_SYS.
unsupported(s, name) ==
    /\ Call(s)
    /\ name \in imports \cap abi_unsupported
    /\ Learns(s, [rc |-> wasi_unsupported_syscall, stray |-> {}])
    /\ UNCHANGED <<state, host, aborted>>

\* No file descriptor is a preopened directory.
backing_fd_prestat_get == "BADF"

fd_prestat_get(s) ==
    /\ Call(s)
    /\ Learns(s, [rc |-> backing_fd_prestat_get, stray |-> {}])
    /\ UNCHANGED <<state, host, aborted>>

\* clock_gettime knows the clock or fails with EINVAL, which wasi_fromerrno turns into WASI's INVAL.
backing_clock_time_get == {"SUCCESS", "INVAL"}

clock_time_get(s) ==
    /\ Call(s)
    /\ \E rc \in backing_clock_time_get : Learns(s, [rc |-> rc, stray |-> {}])
    /\ UNCHANGED <<state, host, aborted>>

\* random_get remembers, for every sandbox, that /dev/urandom could not be opened; it succeeds
\* either way.  The bytes are the module's and their values do not matter.
backing_random_get == \E opened \in BOOLEAN : has_udev' = (has_udev /\ opened)

random_get(s, buf, buf_len) ==
    /\ Call(s)
    /\ IF get_memory_ptr_for_runtime(buf, buf_len)
       THEN /\ backing_random_get
            /\ Learns(s, [rc |-> "SUCCESS", stray |-> {}])
            /\ UNCHANGED <<state, cursor, response, aborted>>
       ELSE Abort

\* current_sandbox_fini ends the sandbox; proc_exit does not return.
backing_proc_exit(s) == state' = [state EXCEPT ![s] = "RETURNED"]

proc_exit(s) ==
    /\ Call(s)
    /\ backing_proc_exit(s)
    /\ UNCHANGED <<host, aborted, seen>>

wasi_init ==
    /\ state = [s \in Sandbox |-> "RUNNING_USER"]
    /\ cursor = [s \in Sandbox |-> 0]
    /\ response = [s \in Sandbox |-> <<>>]
    /\ has_udev = TRUE
    /\ aborted = FALSE
    /\ left \in Plan
    /\ seen = [s \in Sandbox |-> Unknown]

wasi_call(s) ==
    \/ args_sizes_get(s)
    \/ \E vector_first \in BOOLEAN, slack \in {0, 1} : args_get(s, vector_first, slack)
    \/ environ_sizes_get(s)
    \/ environ_get(s)
    \/ \E fd \in {0, 3}, lens \in ReadLens : \E ret \in RetOffsets(lens) : fd_read(s, fd, lens, ret)
    \/ \E fd \in {1, 2, 3}, lens \in WriteLens : \E ret \in RetOffsets(lens) : fd_write(s, fd, lens, ret)
    \/ \E name \in imports : unsupported(s, name)
    \/ fd_prestat_get(s)
    \/ clock_time_get(s)
    \/ \E buf_len \in {1, 2} : random_get(s, MemSize - 2, buf_len)
    \/ proc_exit(s)
=============================================================================
