-------------------------------- MODULE Paths --------------------------------
(***************************************************************************)
(* make_clean_path() of utility.c and cmdline_get_absolute_path() of       *)
(* cmdline.c.  A path is a sequence of the characters the code tells       *)
(* apart: slash, backslash, dot, blank and a letter.  The second stage     *)
(* walks the text with a pointer p and writes through a pointer r, here    *)
(* the sequence written so far; both move as they do in the code.          *)
(***************************************************************************)
EXTENDS Integers, SequencesExt

CONSTANTS
    MaxLength,   \* bound on the length of a path asked about
    MaxPlain,    \* the same for a path without blanks and backslashes
    Depth        \* of g_module_dirname, an absolute directory

VARIABLES
    asked,       \* the call made: [path, trim, force, absolute]
    answer       \* what it returned, empty before the call (no call returns an empty path)

pathVars == <<asked, answer>>

Characters == {"/", "\\", ".", " ", "a"}

Module == [i \in 1..(2 * Depth) |-> IF i % 2 = 1 THEN "/" ELSE "a"]

Slash(c) == c \in {"/", "\\"}

(***************************************************************************)
(* Stage one: trim, one slash for several, a slash at the end              *)
(***************************************************************************)
LeftTrimmed(s) ==
    LET black == {i \in DOMAIN s : s[i] # " "}
    IN IF black = {} THEN <<>>
       ELSE SubSeq(s, CHOOSE i \in black : \A j \in black : i <= j, Len(s))

RightTrimmed(s) == Reverse(LeftTrimmed(Reverse(s)))

Collapsed(s) ==
    FoldLeft(LAMBDA r, c : IF ~Slash(c) THEN Append(r, c)
                           ELSE IF r = <<>> \/ Last(r) # "/" THEN Append(r, "/") ELSE r,
             <<>>, s)

StageOne(path, trim) ==
    LET r == IF trim THEN RightTrimmed(Collapsed(LeftTrimmed(path))) ELSE Collapsed(path)
        named == IF r = <<>> THEN <<".">> ELSE r
    IN IF Last(named) = "/" THEN named ELSE Append(named, "/")

(***************************************************************************)
(* Stage two: one call of Walk for each turn of the loop                   *)
(***************************************************************************)
\* The token that starts at p, without its slash.
Token(s, p) ==
    LET q == CHOOSE q \in p .. Len(s) : s[q] = "/" /\ \A i \in p .. q - 1 : s[i] # "/"
    IN SubSeq(s, p, q - 1)

Up == <<".", ".", "/">>

\* Where the last token of r starts.
LastToken(r) ==
    CHOOSE s \in 1 .. Len(r) : (s = 1 \/ r[s - 1] = "/") /\ \A i \in s .. Len(r) - 1 : r[i] # "/"

\* Mutant: a parent directory drops a name without looking whether it is one.
ParentDrops(r) == IF r = <<>> THEN Up ELSE SubSeq(r, 1, LastToken(r) - 1)

\* "..": drops the last name; stays at the root; adds up when there is nothing to drop.
ParentOf(r) ==
    LET s == LastToken(r)
    IN IF r = <<>> THEN Up
       ELSE IF s = 1 /\ r[1] = "/" THEN r
       ELSE IF SubSeq(r, s, Len(r)) = Up THEN r \o Up
       ELSE SubSeq(r, 1, s - 1)

RECURSIVE Walk(_, _, _)

\* After a token that starts with a dot and is neither "." nor "..", p moves on by one
\* character and not past the token.
Walk(s, p, r) ==
    IF p > Len(s) THEN r
    ELSE LET token == Token(s, p)
             next == p + Len(token) + 1
         IN IF token = <<".", ".">> THEN Walk(s, next, ParentOf(r))
            ELSE IF token = <<".">> THEN Walk(s, next, r)
            ELSE IF token # <<>> /\ token[1] = "." THEN Walk(s, p + 1, r \o token \o <<"/">>)
            ELSE Walk(s, next, r \o token \o <<"/">>)

StageTwo(s) ==
    LET root == s[1] = "/"
        r == Walk(s, IF root THEN 2 ELSE 1, IF root THEN <<"/">> ELSE <<>>)
    IN IF r = <<>> THEN <<".">>
       ELSE IF Last(r) = "/" /\ Len(r) > 1 THEN Front(r) ELSE r

make_clean_path(path, trim) == StageTwo(StageOne(path, trim))

\* A path that is absolute is kept unless the caller wants it under the module's directory.
cmdline_get_absolute_path(path, force) ==
    LET r == make_clean_path(path, FALSE)
    IN make_clean_path(IF r[1] = "/" /\ ~force THEN r ELSE Module \o <<"/">> \o r, FALSE)

(***************************************************************************)
(* The calls                                                               *)
(***************************************************************************)
Inputs ==
    UNION {[1 .. n -> Characters] : n \in 0 .. MaxLength}
        \cup UNION {[1 .. n -> Characters \ {" ", "\\"}] : n \in 0 .. MaxPlain}

Clean(path, trim) ==
    /\ answer = <<>>
    /\ asked' = [path |-> path, trim |-> trim, force |-> FALSE, absolute |-> FALSE]
    /\ answer' = make_clean_path(path, trim)

GetAbsolute(path, force) ==
    /\ answer = <<>>
    /\ asked' = [path |-> path, trim |-> FALSE, force |-> force, absolute |-> TRUE]
    /\ answer' = cmdline_get_absolute_path(path, force)

PathInit ==
    /\ asked = [path |-> <<>>, trim |-> FALSE, force |-> FALSE, absolute |-> FALSE]
    /\ answer = <<>>

PathNext == \E path \in Inputs, yes \in BOOLEAN : Clean(path, yes) \/ GetAbsolute(path, yes)

PathSpec == PathInit /\ [][PathNext]_pathVars

(***************************************************************************)
(* What a path means: where it leads in a tree of names                    *)
(***************************************************************************)
\* The names of a path, with the empty ones between slashes left out.
Names(path) ==
    LET cut == FoldLeft(LAMBDA t, c : IF Slash(c) THEN Append(t, <<>>)
                                      ELSE Append(Front(t), Append(Last(t), c)),
                        <<<<>>>>, path)
    IN SelectSeq(cut, LAMBDA t : t # <<>>)

\* From a start [up, down]: up levels above the unknown directory, then the names down.
Follow(start, rooted, path) ==
    FoldLeft(LAMBDA w, t :
                 IF t = <<".">> THEN w
                 ELSE IF t # <<".", ".">> THEN [w EXCEPT !.down = Append(@, t)]
                 ELSE IF w.down # <<>> THEN [w EXCEPT !.down = Front(@)]
                 ELSE IF rooted THEN w ELSE [w EXCEPT !.up = @ + 1],
             start, Names(path))

Here == [up |-> 0, down |-> <<>>]

Rooted(path) == path # <<>> /\ Slash(path[1])

Trimmed(call) == IF call.trim THEN RightTrimmed(LeftTrimmed(call.path)) ELSE call.path

\* Where the call's path leads: an absolute one is taken under the module when forced.
Wanted(call) ==
    LET path == Trimmed(call)
    IN IF ~call.absolute \/ (Rooted(path) /\ ~call.force) THEN Follow(Here, Rooted(path), path)
       ELSE IF Rooted(path)
       THEN [up |-> 0, down |-> Names(Module) \o Follow(Here, TRUE, path).down]
       ELSE Follow(Follow(Here, TRUE, Module), TRUE, path)

\* Names such as ".a" or "...".
Hidden(t) == t[1] = "." /\ t # <<".">> /\ t # <<".", ".">>

LeadsThere ==
    answer # <<>> => Follow(Here, Rooted(answer), answer) = Wanted(asked)

\* A cleaned path has no empty name, no "." beside others and no ".." after a name.
Tidy(path) ==
    LET names == Names(path)
    IN /\ Len(path) = (IF Rooted(path) THEN 1 ELSE 0)
                          + FoldLeft(LAMBDA n, t : n + Len(t), 0, names)
                          + (IF names = <<>> THEN 0 ELSE Len(names) - 1)
       /\ \A i \in DOMAIN names : names[i] = <<".">> => Len(names) = 1 /\ ~Rooted(path)
       /\ \A i, j \in DOMAIN names : names[i] = <<".", ".">> /\ j < i => names[j] = <<".", ".">>

\* For every path without hidden names, the cleaned path leads where the path leads, in the
\* shortest way, and cleaning it again changes nothing; an absolute path is absolute
\* (utility.c make_clean_path(), cmdline.c cmdline_get_absolute_path()).
PathsKept ==
    LET names == ToSet(Names(Trimmed(asked)))
    IN answer # <<>> /\ (\A t \in names : ~Hidden(t)) =>
           /\ LeadsThere /\ Tidy(answer)
           /\ make_clean_path(answer, FALSE) = answer
           /\ asked.absolute \/ Rooted(Trimmed(asked)) => Rooted(answer)

\* "Clean a path" (utility.h:70): every path leads where it led, hidden names or not.
HiddenNamesKept == LeadsThere
=============================================================================
