------------------------------- MODULE Cmdline -------------------------------
(***************************************************************************)
(* cmdline.c: finding the executable's directory and name, moving the      *)
(* arguments and the environment away, and writing process names over the  *)
(* room they leave.  Strings come from a stack of bytes, g_memory_buffer,  *)
(* and from malloc() once it is full; cmdline_free() gives a string back   *)
(* only when it is the last one.  A kept string is its place and length;   *)
(* only the room of the arguments is modelled by its characters.           *)
(***************************************************************************)
EXTENDS Integers, SequencesExt

CONSTANTS
    Arena,        \* sizeof(g_memory_buffer), 65536 in the code
    PrefixSize,   \* MAX_PREFIX_LENGTH, 20 in the code
    Arguments,    \* argv: a sequence of strings
    Environment,  \* environ: a sequence of strings
    Lengths,      \* the lengths a directory or a base name may have
    Texts,        \* the process names the program asks for
    Joined        \* are the arguments next to each other, as the kernel leaves them?

VARIABLES
    cpc,          \* how far cmdline_setup() has come
    top,          \* g_memory_pointer
    kept,         \* the strings held: name -> [at, len], at = Heap for malloc()
    absolute,     \* was the directory found as an absolute path?
    prefix,       \* g_prefix
    room,         \* the bytes from argv[0] on, g_max_length of them; 0 ends a string
    saved,        \* what g_saved_program_name holds
    before, bare, \* the name shown before the last naming, and whether it had no prefix
    undone,       \* was the last naming undone by cmdline_unset_process_name()?
    wrong         \* memory errors: "twice", "overrun"

cmdVars == <<cpc, top, kept, absolute, prefix, room, saved, before, bare, undone, wrong>>

setupVars == <<prefix, room, saved, before, bare, undone>>

Heap == -1

Missing == [at |-> -2, len |-> 0]

Names == {"arg", "base", "dir", "path", "args", "saved"}

Nul == "0"

\* The string that starts a sequence of bytes.
CString(s) ==
    LET ends == {i \in DOMAIN s : s[i] = Nul}
    IN IF ends = {} THEN s ELSE SubSeq(s, 1, (CHOOSE i \in ends : \A j \in ends : i <= j) - 1)

Padded(s, width) == [i \in 1 .. width |-> IF i <= Len(s) THEN s[i] ELSE Nul]

(***************************************************************************)
(* The stack of bytes.  A state of it is [top, kept, wrong].               *)
(***************************************************************************)
Memory == [top |-> top, kept |-> kept, wrong |-> wrong]

\* cmdline_malloc(), cmdline_strdup(): len characters and what ends them.
Alloc(mem, name, len) ==
    IF len + 1 > Arena - mem.top
    THEN [mem EXCEPT !.kept[name] = [at |-> Heap, len |-> len]]
    ELSE [mem EXCEPT !.kept[name] = [at |-> mem.top, len |-> len], !.top = @ + len + 1]

\* A copy whose address is lost.
Leak(mem, len) == IF len + 1 > Arena - mem.top THEN mem ELSE [mem EXCEPT !.top = @ + len + 1]

\* Mutant: whatever is freed, the stack shrinks.
FreeAny(mem, s) == IF s.at < 0 THEN mem ELSE [mem EXCEPT !.top = @ - s.len - 1]

\* cmdline_free(): the string is s, whether it was freed before or not.
Free(mem, s) ==
    IF s.at >= 0 /\ s.at + s.len + 1 = mem.top THEN [mem EXCEPT !.top = s.at] ELSE mem

Drop(mem, name) == [mem EXCEPT !.kept[name] = Missing]

\* basename, directory and basename again, "arbitrary order": one of the two orders
\* gives both back.  malloc()ed memory would be freed twice.
FreeBoth(mem) ==
    LET base == mem.kept["base"]
        dir == mem.kept["dir"]
        left == Free(Free(Free(mem, base), dir), base)
    IN Drop(Drop(IF base.at = Heap THEN [left EXCEPT !.wrong = @ \cup {"twice"}] ELSE left,
                 "base"), "dir")

Stores(mem) == top' = mem.top /\ kept' = mem.kept /\ wrong' = mem.wrong

Known(name) == kept[name] # Missing

(***************************************************************************)
(* cmdline_get_module_path(): each way may fail, the next one is tried     *)
(***************************************************************************)
Begin ==
    /\ cpc = "setup" /\ cpc' = "stat"
    /\ Stores(Alloc(Memory, "arg", Len(Arguments[1])))
    /\ UNCHANGED <<absolute, setupVars>>

\* /proc/self/stat gives the base name; a copy of argv[0] is lost.
via_stat ==
    /\ cpc = "stat" /\ cpc' = "fd"
    /\ \/ UNCHANGED <<top, kept, wrong>>
       \/ \E len \in Lengths : Stores(Alloc(Leak(Memory, Len(Arguments[1])), "base", len))
    /\ UNCHANGED <<absolute, setupVars>>

\* The copy dirname() works on: given back unless dirname() cut it short.
Scratch(mem) == {mem, Leak(mem, Len(Arguments[1]))}

\* The directory of argv[0], opened, and its name in /proc; or the working directory
\* and argv[0], if that is relative.
Directory(from, to) ==
    /\ cpc = from /\ cpc' = to
    /\ IF Known("dir") THEN UNCHANGED <<top, kept, wrong, absolute>>
       ELSE \/ \E mem \in Scratch(Memory) : Stores(mem) /\ UNCHANGED absolute
            \/ \E mem \in Scratch(Memory), len \in Lengths :
                  Stores(Alloc(mem, "dir", len)) /\ absolute' = TRUE
    /\ UNCHANGED setupVars

via_fd == Directory("fd", "cwd")

via_cwd == Directory("cwd", "exe")

\* /proc/.../exe gives both, anew, if one is missing.
via_exe ==
    /\ cpc = "exe" /\ cpc' = "argv"
    /\ \/ UNCHANGED <<top, kept, wrong, absolute>>
       \/ /\ ~Known("dir") \/ ~Known("base")
          /\ \E d, b \in Lengths :
                Stores(Alloc(Alloc(FreeBoth(Memory), "dir", d), "base", b))
          /\ absolute' = TRUE
    /\ UNCHANGED setupVars

\* argv[0] gives what is still missing; with both, the path of the executable.
via_argv ==
    /\ cpc = "argv" /\ cpc' = "reserve"
    /\ \E d, b \in Lengths :
          LET dir == IF Known("dir") THEN Memory ELSE Alloc(Memory, "dir", d)
              both == IF Known("base") THEN dir ELSE Alloc(dir, "base", b)
          IN Stores(Alloc(both, "path", both.kept["dir"].len + 1 + both.kept["base"].len))
    /\ UNCHANGED <<absolute, setupVars>>

(***************************************************************************)
(* The rest of cmdline_setup()                                             *)
(***************************************************************************)
\* cmdline_reserve_prefix(): the base name, cut to fit, with ": ".
Reserved ==
    LET len == IF kept["base"].len > PrefixSize - 2 THEN PrefixSize - 2 ELSE kept["base"].len
    IN [i \in 1 .. len + 2 |-> IF i <= len THEN "p" ELSE IF i = len + 1 THEN ":" ELSE "_"]

Concatenated(strings) ==
    FoldLeft(LAMBDA all, s : IF all = <<>> THEN s ELSE all \o <<Nul>> \o s, <<>>, strings)

\* The strings that follow each other in memory, and the copies of them.  The NULL that
\* ends the copies goes to argv_duplication[argc], though they may be fewer.  A pointer
\* takes one byte here.
Setup ==
    /\ cpc = "reserve" /\ cpc' = "ready" /\ prefix' = Reserved
    /\ \E args \in IF Joined THEN {Len(Arguments)} ELSE 1 .. Len(Arguments),
          envs \in 0 .. Len(Environment) :
          LET Copies(mem, strings) == FoldLeft(LAMBDA m, s : Leak(m, Len(s)), mem, strings)
              argv == SubSeq(Arguments, 1, args)
              env == SubSeq(Environment, 1, envs)
              copied == Copies(Alloc(Memory, "args", args), argv)
              mem == IF envs = 0 THEN copied ELSE Copies(Leak(copied, envs), env)
          IN /\ args # Len(Arguments) => envs = 0
             /\ room' = Concatenated(argv \o env)
             /\ Stores(IF Len(Arguments) > args
                       THEN [mem EXCEPT !.wrong = @ \cup {"overrun"}] ELSE mem)
    /\ UNCHANGED <<absolute, saved, before, bare, undone>>

(***************************************************************************)
(* Process names                                                           *)
(***************************************************************************)
Cut(s, n) == IF Len(s) > n THEN SubSeq(s, 1, n) ELSE s

Written(off, text) == Padded(Cut(prefix, off) \o text, Len(room))

\* The prefix is written before the old name is saved.
set_process_name(text, with) ==
    LET off == IF ~with THEN 0 ELSE IF Len(prefix) <= Len(room) THEN Len(prefix) ELSE Len(room)
        old == CString(Cut(prefix, off) \o SubSeq(room, off + 1, Len(room)))
    IN /\ cpc = "ready" /\ Len(room) > 0
       /\ Stores(Alloc(Drop(Free(Memory, kept["saved"]), "saved"), "saved", Len(old)))
       /\ saved' = old /\ room' = Written(off, text)
       /\ before' = CString(room) /\ bare' = ~with /\ undone' = FALSE
       /\ UNCHANGED <<cpc, absolute, prefix>>

\* A name with the prefix, one without ("-" in front), or the original one (NULL).
SetName ==
    \/ \E text \in Texts : set_process_name(text, TRUE) \/ set_process_name(text, FALSE)
    \/ set_process_name(Arguments[1], FALSE)

unset_process_name ==
    /\ cpc = "ready" /\ Known("saved")
    /\ room' = Padded(saved, Len(room)) /\ undone' = TRUE
    /\ Stores(Drop(Free(Memory, kept["saved"]), "saved"))
    /\ UNCHANGED <<cpc, absolute, prefix, saved, before, bare>>

CmdlineInit ==
    /\ cpc = "setup" /\ top = 0 /\ kept = [n \in Names |-> Missing] /\ absolute = FALSE
    /\ prefix = <<>> /\ room = <<>> /\ saved = <<>> /\ before = <<>>
    /\ bare = FALSE /\ undone = FALSE /\ wrong = {}

CmdlineNext ==
    \/ Begin \/ via_stat \/ via_fd \/ via_cwd \/ via_exe \/ via_argv \/ Setup
    \/ SetName \/ unset_process_name

CmdlineSpec == CmdlineInit /\ [][CmdlineNext]_cmdVars

(***************************************************************************)
(* Properties                                                              *)
(***************************************************************************)
CmdlineOK ==
    /\ top \in 0 .. Arena /\ DOMAIN kept = Names /\ absolute \in BOOLEAN
    /\ bare \in BOOLEAN /\ undone \in BOOLEAN /\ wrong \subseteq {"twice", "overrun"}

Bytes(s) == s.at .. s.at + s.len

\* No string that is held lies where the next one will be put or where another one lies;
\* nothing is freed twice or written outside; once set up, directory and name are known;
\* no rest of an older name shows behind a process name; and a process name without the
\* prefix, once undone, leaves the name there was (cmdline.c).
CmdlineSound ==
    /\ wrong = {}
    /\ \A n \in Names : kept[n].at >= 0 =>
          /\ kept[n].at + kept[n].len < top
          /\ \A m \in Names : m # n /\ kept[m].at >= 0 => Bytes(kept[m]) \cap Bytes(kept[n]) = {}
    /\ cpc = "ready" => Known("dir") /\ Known("base") /\ Known("path")
    /\ Known("saved") \/ undone => room = Padded(CString(room), Len(room))
    /\ undone /\ bare => CString(room) = before

\* "Restore last set process name after using syslog(3)" (cmdline.h:61), prefix or not.
LastNameRestored == undone => CString(room) = before
=============================================================================
