---------------------------- MODULE Directories ----------------------------
(***************************************************************************)
(* flinter/rmdirs.c and mkdirs.c: a directory is removed with all that is  *)
(* in it while other processes go on using it: mkdirs() makes directories  *)
(* of the tree again, and somebody adds files or puts a symbolic link that *)
(* leads out of the tree in the place of an entry.  The recursion of       *)
(* rmdirs_with_getdents() and rmdirs_with_readdir() is a stack of frames.  *)
(***************************************************************************)
EXTENDS Integers, Sequences, FiniteSets

CONSTANTS
  Top,          \* the directory that is removed
  Path,         \* the directories mkdirs() makes in turn, Top first
  Parent,       \* every other entry of the tree -> the directory it is in
  Outside,      \* entries of the directory that a symbolic link leads to
  Buffer,       \* entries one call of getdents() returns at most
  MaxSwaps      \* bound: entries somebody adds or replaces

Entries == DOMAIN Parent
Nodes == {Top} \cup Entries
Absent == "gone"

VARIABLES
  at,        \* node -> "gone", "file", "dir" or "link"
  kept,      \* entries of Outside that are still there
  disabled,  \* g_disable_getdents
  stack,     \* frames of the open directories, innermost last
  inside,    \* leave_dir_along
  made,      \* how far mkdirs() has come in Path; 0: not called
  swaps,     \* entries added or replaced so far
  done       \* what rmdirs_internal() returned, or "running" or "idle"

dirVars == <<at, kept, disabled, stack, inside, made, swaps, done>>

\* A frame: the directory (Linked: the one a link leads to), the entries in the buffer with
\* the types they were listed with, those listed before, and the entry it is working on.
Frame(n) == [dir |-> n, batch |-> {}, listed |-> {}, entry |-> Absent]
Linked == "linked"

DirectoriesOK ==
  /\ at \in [Nodes -> {Absent, "file", "dir", "link"}] /\ kept \subseteq Outside
  /\ disabled \in BOOLEAN /\ inside \in BOOLEAN /\ made \in 0..Len(Path) /\ swaps \in 0..MaxSwaps
  /\ done \in {"idle", "running", "ok", "failed"}
  /\ \A i \in DOMAIN stack : stack[i].dir \in Nodes \cup {Linked}

DirectoriesInit ==
  /\ at \in [Nodes -> {"file", "dir"}] /\ \A n \in Nodes : (at[n] = "dir") = (\E i \in DOMAIN Path : Path[i] = n)
  /\ kept = Outside /\ disabled = FALSE /\ stack = <<>> /\ inside = FALSE
  /\ made = 0 /\ swaps = 0 /\ done = "idle"

Children(n) == {e \in Entries : Parent[e] = n /\ at[e] # Absent}
ParentExists(n) == IF n = Top THEN TRUE ELSE at[Parent[n]] = "dir"

-----------------------------------------------------------------------------
\* Somebody adds a file, or removes an entry and leaves a symbolic link there.
Below(n) == {n} \cup {e \in Entries : Parent[e] = n}
Swap(n, what) ==
  /\ swaps < MaxSwaps /\ ParentExists(n) /\ what \in (IF at[n] = Absent THEN {"file"} ELSE {"link"})
  /\ at' = [m \in Nodes |-> IF m = n THEN what ELSE IF m \in Below(n) THEN Absent ELSE at[m]]
  /\ swaps' = swaps + 1 /\ UNCHANGED <<kept, disabled, stack, inside, made, done>>

\* mkdirs(): mkdir() for one component after another; one that exists is passed over.
Mkdirs ==
  /\ made < Len(Path)
  /\ LET n == Path[made + 1] IN
       IF ~ParentExists(n) THEN made' = Len(Path) /\ UNCHANGED at
       ELSE /\ made' = made + 1
            /\ at' = [at EXCEPT ![n] = IF @ = Absent THEN "dir" ELSE @]
  /\ UNCHANGED <<kept, disabled, stack, inside, swaps, done>>

-----------------------------------------------------------------------------
Innermost == stack[Len(stack)]
Outer == SubSeq(stack, 1, Len(stack) - 1)
Sets(f) == stack' = Append(Outer, f)
Rest == UNCHANGED <<disabled, inside, made, swaps>>

\* openat(..., O_DIRECTORY | O_NOFOLLOW).
Openable(n) == at[n] = "dir" /\ ParentExists(n)
\* Mutant: open() without O_NOFOLLOW.
OpensLinks(n) == IF at[n] = "link" THEN Linked ELSE n

Opens(n) == n

\* rmdirs_internal(): what is not there is done, what is no directory is unlinked or left.
Call(leave) ==
  /\ done = "idle" /\ inside' = leave
  /\ \/ at[Top] = Absent /\ done' = "ok" /\ UNCHANGED <<at, stack>>
     \/ at[Top] \in {"file", "link"} /\ done' = "ok" /\ UNCHANGED stack
        /\ at' = IF leave THEN at ELSE [at EXCEPT ![Top] = Absent]
     \/ Openable(Top) /\ stack' = <<Frame(Opens(Top))>> /\ done' = "running" /\ UNCHANGED at
  /\ UNCHANGED <<kept, disabled, made, swaps>>

\* In rmdirs_with_getdents() a failure drops what is left in the buffer and reads on; in
\* rmdirs_with_readdir() it ends every level.
FailsAt(frames) ==
  IF disabled THEN stack' = <<>> /\ done' = "failed"
  ELSE /\ stack' = [frames EXCEPT ![Len(frames)].entry = Absent, ![Len(frames)].batch = {}]
       /\ UNCHANGED done
Fails == FailsAt(stack)

Names(n) == IF n = Linked THEN kept ELSE Children(n)

\* getdents() or readdir_r(): entries not listed so far, each with its type or without.
List ==
  /\ stack # <<>> /\ Innermost.batch = {} /\ Innermost.entry = Absent
  /\ \E found \in SUBSET (Names(Innermost.dir) \ Innermost.listed) :
       /\ found # {} /\ Cardinality(found) <= (IF disabled THEN 1 ELSE Buffer)
       /\ \E known \in BOOLEAN :
            Sets([Innermost EXCEPT !.listed = @ \cup found,
                    !.batch = {<<e, IF ~known \/ disabled THEN "unknown"
                                    ELSE IF Innermost.dir = Linked THEN "file" ELSE at[e]>> : e \in found}])
  /\ Rest /\ UNCHANGED <<at, kept, done>>

\* A directory that was removed is an error of getdents() and empty for readdir_r().
Removed(n) == n # Linked /\ at[n] # "dir"
ListFails ==
  /\ stack # <<>> /\ Innermost.batch = {} /\ Innermost.entry = Absent
  /\ ~disabled /\ Removed(Innermost.dir)
  /\ IF Len(stack) = 1 THEN stack' = <<>> /\ done' = "failed"
     ELSE FailsAt(Outer)
  /\ Rest /\ UNCHANGED <<at, kept>>

\* getdents() is not there: rmdirs_internal() starts again with readdir_r().
NoGetdents ==
  /\ Len(stack) = 1 /\ ~disabled /\ Innermost.listed = {}
  /\ disabled' = TRUE
  /\ IF Openable(Top) THEN stack' = <<Frame(Opens(Top))>> /\ UNCHANGED done ELSE stack' = <<>> /\ done' = "failed"
  /\ UNCHANGED <<at, kept, inside, made, swaps>>

\* fstatat(AT_SYMLINK_NOFOLLOW) where the type is not known, then unlinkat() or the recursion.
IsDir(e, type) == IF type = "unknown" THEN at[e] = "dir" ELSE type = "dir"

Entry ==
  /\ stack # <<>> /\ Innermost.entry = Absent
  /\ \E b \in Innermost.batch :
       LET e == b[1] frame == [Innermost EXCEPT !.batch = @ \ {b}] IN
       \/ /\ Innermost.dir = Linked /\ kept' = kept \ {e} /\ Sets(frame) /\ UNCHANGED <<at, done>>
       \/ /\ Innermost.dir # Linked /\ UNCHANGED kept
          /\ IF IsDir(e, b[2])
             THEN /\ UNCHANGED at
                  /\ IF Openable(e) \/ Opens(e) = Linked
                     THEN stack' = Outer \o <<[frame EXCEPT !.entry = e], Frame(Opens(e))>> /\ UNCHANGED done
                     ELSE Fails
             ELSE \/ /\ at[e] \in {"file", "link"} /\ at' = [at EXCEPT ![e] = Absent]
                     /\ Sets(frame) /\ UNCHANGED done
                  \/ Fails /\ UNCHANGED at   \* gone, a directory by now, or not permitted
  /\ Rest

\* The end of a directory: close(), and unlinkat(AT_REMOVEDIR) by the caller.
Removable(n) == at[n] = "dir" /\ Children(n) = {}
LeaveDirectory ==
  /\ stack # <<>> /\ Innermost.batch = {} /\ Innermost.entry = Absent
  /\ Names(Innermost.dir) \subseteq Innermost.listed /\ (disabled \/ ~Removed(Innermost.dir))
  /\ UNCHANGED kept /\ Rest
  /\ IF Len(stack) = 1
     THEN /\ stack' = <<>>
          /\ done' = IF inside \/ Removable(Top) THEN "ok" ELSE "failed"
          /\ at' = IF ~inside /\ Removable(Top) THEN [at EXCEPT ![Top] = Absent] ELSE at
     ELSE LET up == Outer[Len(Outer)] e == up.entry IN
          IF Removable(e)
          THEN /\ at' = [at EXCEPT ![e] = Absent] /\ UNCHANGED done
               /\ stack' = [Outer EXCEPT ![Len(Outer)].entry = Absent]
          ELSE FailsAt(Outer) /\ UNCHANGED at

DirectoriesNext ==
  \/ \E n \in Nodes, what \in {"file", "link"} : Swap(n, what)
  \/ Mkdirs \/ (\E leave \in BOOLEAN : Call(leave)) \/ List \/ ListFails \/ NoGetdents \/ Entry \/ LeaveDirectory

DirectoriesSpec == DirectoriesInit /\ [][DirectoriesNext]_dirVars

-----------------------------------------------------------------------------
\* Nothing outside the tree is removed, whatever entry becomes a symbolic link between the
\* moment its type is read and the moment it is opened.
OutsideKept == kept = Outside

\* What fails: rmdirs_inside() may return 0 and leave entries nobody has added meanwhile.
EmptyIfZero == done = "ok" /\ swaps = 0 /\ made = 0 => at[Top] # "dir" \/ Children(Top) = {}

=============================================================================
