------------------------------- MODULE ArgText -------------------------------
(***************************************************************************)
(* The argument text of a logged call: parse_arg.go prints each field of   *)
(* SyscallFields in turn, as a name where a table has one for its value.   *)
(* Here the text of a field is the set of the names in it; a plain number  *)
(* is the empty set.  Bit masks are given by the names of their flags,     *)
(* which is what FlagDecode makes of them.                                 *)
(***************************************************************************)
EXTENDS Integers, Sequences

\* The fields of the calls parseArgumentValueByField knows.
syscallFields ==
  [socket        |-> <<"family", "type", "protocol">>,
   clone         |-> <<"clone_flags", "newsp", "parent_tidptr", "child_tidptr", "tls">>,
   unshare       |-> <<"unshare_flags">>,
   mmap          |-> <<"addr", "len", "prot", "flags", "fd", "off">>,
   mprotect      |-> <<"start", "len", "prot">>,
   pkey_mprotect |-> <<"start", "len", "prot", "pkey">>,
   open          |-> <<"filename", "flags", "mode">>,
   openat        |-> <<"dfd", "filename", "flags", "mode">>,
   ptrace        |-> <<"request", "pid", "addr", "data">>,
   bpf           |-> <<"cmd", "uattr", "size">>,
   seccomp       |-> <<"op", "flags", "uargs">>,
   prctl         |-> <<"option", "arg2", "arg3", "arg4", "arg5">>]

\* A table as the set of its values and names.
socketFamilies ==
  {<<0, "AF_UNSPEC">>, <<1, "AF_UNIX">>, <<2, "AF_INET">>, <<10, "AF_INET6">>,
   <<16, "AF_NETLINK">>, <<17, "AF_PACKET">>}

ptraceRequests ==
  {<<0, "PTRACE_TRACEME">>, <<1, "PTRACE_PEEKTEXT">>, <<2, "PTRACE_PEEKDATA">>,
   <<3, "PTRACE_PEEKUSER">>, <<4, "PTRACE_POKETEXT">>, <<5, "PTRACE_POKEDATA">>,
   <<6, "PTRACE_POKEUSER">>, <<7, "PTRACE_CONT">>, <<8, "PTRACE_KILL">>,
   <<9, "PTRACE_SINGLESTEP">>, <<12, "PTRACE_GETREGS">>, <<13, "PTRACE_SETREGS">>,
   <<14, "PTRACE_GETFPREGS">>, <<15, "PTRACE_SETFPREGS">>, <<16, "PTRACE_ATTACH">>,
   <<17, "PTRACE_DETACH">>, <<24, "PTRACE_SYSCALL">>, <<16896, "PTRACE_SETOPTIONS">>,
   <<16897, "PTRACE_GETEVENTMSG">>, <<16898, "PTRACE_GETSIGINFO">>,
   <<16899, "PTRACE_SETSIGINFO">>, <<16900, "PTRACE_GETREGSET">>,
   <<16901, "PTRACE_SETREGSET">>, <<16902, "PTRACE_SEIZE">>,
   <<16903, "PTRACE_INTERRUPT">>, <<16904, "PTRACE_LISTEN">>,
   <<16905, "PTRACE_PEEKSIGINFO">>, <<16906, "PTRACE_GETSIGMASK">>,
   <<16907, "PTRACE_SETSIGMASK">>, <<16909, "PTRACE_SECCOMP_GET_METADATA">>,
   <<16910, "PTRACE_GET_SYSCALL_INFO">>}

\* The names of 0 to 36.
bpfNames ==
  <<"BPF_MAP_CREATE", "BPF_MAP_LOOKUP_ELEM", "BPF_MAP_UPDATE_ELEM",
    "BPF_MAP_DELETE_ELEM", "BPF_MAP_GET_NEXT_KEY", "BPF_PROG_LOAD", "BPF_OBJ_PIN",
    "BPF_OBJ_GET", "BPF_PROG_ATTACH", "BPF_PROG_DETACH", "BPF_PROG_TEST_RUN",
    "BPF_PROG_GET_NEXT_ID", "BPF_MAP_GET_NEXT_ID", "BPF_PROG_GET_FD_BY_ID",
    "BPF_MAP_GET_FD_BY_ID", "BPF_OBJ_GET_INFO_BY_FD", "BPF_PROG_QUERY",
    "BPF_RAW_TRACEPOINT_OPEN", "BPF_BTF_LOAD", "BPF_BTF_GET_FD_BY_ID",
    "BPF_TASK_FD_QUERY", "BPF_MAP_LOOKUP_AND_DELETE_ELEM", "BPF_MAP_FREEZE",
    "BPF_BTF_GET_NEXT_ID", "BPF_MAP_LOOKUP_BATCH", "BPF_MAP_LOOKUP_AND_DELETE_BATCH",
    "BPF_MAP_UPDATE_BATCH", "BPF_MAP_DELETE_BATCH", "BPF_LINK_CREATE",
    "BPF_LINK_UPDATE", "BPF_LINK_GET_FD_BY_ID", "BPF_LINK_GET_NEXT_ID",
    "BPF_ENABLE_STATS", "BPF_ITER_CREATE", "BPF_LINK_DETACH", "BPF_PROG_BIND_MAP",
    "BPF_TOKEN_CREATE">>

bpfCommands == {<<n - 1, bpfNames[n]>> : n \in DOMAIN bpfNames}

seccompOperations ==
  {<<0, "SECCOMP_SET_MODE_STRICT">>, <<1, "SECCOMP_SET_MODE_FILTER">>,
   <<2, "SECCOMP_GET_ACTION_AVAIL">>, <<3, "SECCOMP_GET_NOTIF_SIZES">>}

prctlOptions ==
  {<<1, "PR_SET_PDEATHSIG">>, <<2, "PR_GET_PDEATHSIG">>, <<3, "PR_GET_DUMPABLE">>,
   <<4, "PR_SET_DUMPABLE">>, <<15, "PR_SET_NAME">>, <<16, "PR_GET_NAME">>,
   <<21, "PR_GET_SECCOMP">>, <<22, "PR_SET_SECCOMP">>, <<23, "PR_CAPBSET_READ">>,
   <<24, "PR_CAPBSET_DROP">>, <<36, "PR_SET_CHILD_SUBREAPER">>,
   <<37, "PR_GET_CHILD_SUBREAPER">>, <<38, "PR_SET_NO_NEW_PRIVS">>,
   <<39, "PR_GET_NO_NEW_PRIVS">>, <<40, "PR_GET_TID_ADDRESS">>,
   <<1499557217, "PR_SET_PTRACER">>}

\* parseArgumentValueByField: the fields that decodeExact prints, by the call
\* and its field, and their tables.  The others with names are bit masks.
ExactFields == {<<"socket", "family">>, <<"ptrace", "request">>, <<"bpf", "cmd">>,
                <<"seccomp", "op">>, <<"prctl", "option">>}

TableOf(field) ==
  CASE field = "family"  -> socketFamilies
    [] field = "request" -> ptraceRequests
    [] field = "cmd"     -> bpfCommands
    [] field = "op"      -> seccompOperations
    [] OTHER             -> prctlOptions

decodeExact(value, table) == {row[2] : row \in {r \in table : r[1] = value}}

\* FormatParsedArguments: args are the values of the fields with names.
FormatParsedArguments(syscall, args) ==
  [field \in DOMAIN args |->
     IF <<syscall, field>> \in ExactFields
       THEN decodeExact(args[field], TableOf(field)) ELSE args[field]]

\* The field the text ends with.
LastField(syscall) == syscallFields[syscall][Len(syscallFields[syscall])]
=============================================================================
